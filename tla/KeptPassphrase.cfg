CONSTANTS
    AutoLock = 3
    EnrolWindow = 2
    MaxGeneration = 4
SPECIFICATION Spec
INVARIANT PassphraseDropped
