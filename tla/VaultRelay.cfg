SYMMETRY Symmetry
CONSTANTS
    Devices = {d1, d2}
    Identities = {i1, i2}
    Passphrases = {p1}
    Codes = {c1}
    Credentials = {k1}
    Salts = {s1}
    MaxSlots = 2
    Null = Null
    Refused = Refused
    MaxFaults = 1
SPECIFICATION Spec
INVARIANTS
    
    KnownHolds

    
