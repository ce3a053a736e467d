------------------------------ MODULE MCClient ------------------------------
(* What stands between a person and the app on one device, under one run:    *)
(* the key session, the app gate with its accounts and slots, the unlock     *)
(* screen, or the household gate. `side` says which a behaviour is about;    *)
(* the first is KeySession itself, the others are instances.                 *)
EXTENDS KeySession

CONSTANTS Users, MaxSwitches, MaxFaults,         \* of the app gate, MaxFaults of both gates
          MaxPassphrases, MaxFails, MaxLocks,    \* of the unlock screen
          People, Households, Me, H, MaxUnlocks, \* of the household gate
          Null

VARIABLES side,
          cookie, seen, settled, aServer, slots, aVault, device, loads, aStatus, keys, opening,
          aOffer, aEnrol, moved, mixed, switches, aFaults,
          prf, uServer, uVault, uStatus, by, mode, asking, tries, form, kit, uPending, uOffer,
          fast, fails, locks,
          standing, unlocks, unlocked, key, gate, run, pending, trust, storage, yes, no, faults

App == INSTANCE AppGate WITH
    server <- aServer, vault <- aVault, status <- aStatus, offer <- aOffer, enrol <- aEnrol,
    faults <- aFaults

Screen == INSTANCE UnlockScreen WITH
    server <- uServer, vault <- uVault, status <- uStatus, pending <- uPending, offer <- uOffer

Gate == INSTANCE HouseholdGate

(* What the theorems about the unlock screen and the household gate assume.  *)
GateConstants == Me \in People /\ H \in Households /\ Gate!NullIsApart

ASSUME ClientAssumption == GateConstants /\ Screen!NullIsApart

appVars    == <<cookie, seen, settled, aServer, slots, aVault, device, loads, aStatus, keys,
                opening, aOffer, aEnrol, moved, mixed, switches, aFaults>>
screenVars == <<prf, uServer, uVault, uStatus, by, mode, asking, tries, form, kit, uPending,
                uOffer, fast, fails, locks>>
gateVars   == <<standing, unlocks, unlocked, key, gate, run, pending, trust, storage, yes, no,
                faults>>
mcVars     == <<side, vars, appVars, screenVars, gateVars>>

AtSession(X) == side = "session" /\ X /\ UNCHANGED <<side, appVars, screenVars, gateVars>>
AtApp(X)     == side = "app"     /\ X /\ UNCHANGED <<side, vars, screenVars, gateVars>>
AtScreen(X)  == side = "screen"  /\ X /\ UNCHANGED <<side, vars, appVars, gateVars>>
AtGate(X)    == side = "gate"    /\ X /\ UNCHANGED <<side, vars, appVars, screenVars>>

AUser == CHOOSE u \in Users : TRUE

(* The sides that are not looked at keep one initial state.                  *)
MCInit ==
    /\ side \in {"session", "app", "screen", "gate"}
    /\ Init
    /\ App!Init
    /\ Screen!Init
    /\ Gate!GateInit
    /\ side # "app" => /\ cookie = AUser
                       /\ aServer = [u \in Users |-> "none"]
                       /\ slots = [u \in Users |-> Null]
    /\ side # "screen" => prf = "none" /\ uServer.passkey
    /\ side # "gate" => storage

MCNext ==
    \/ AtSession(Next)
    \/ AtApp(App!Next)
    \/ AtScreen(Screen!Next)
    \/ AtGate(Gate!GateNext)

(* The fairness of the four specifications. A side never changes, so one     *)
(* condition can stand for an action of each: only its own is ever enabled.  *)
MCFairness ==
    /\ WF_mcVars(AtSession(Tick) \/ AtApp(App!SlotOpens) \/ AtGate(Gate!Mount))
    /\ WF_mcVars(AtSession(TimerFires) \/ AtApp(App!UnlockEnds) \/ AtGate(Gate!Unmount))
    /\ WF_mcVars(AtScreen(Screen!Answers) \/ AtApp(App!LoadEnds) \/ AtGate(Gate!Resolve))
    /\ WF_mcVars(AtApp(seen.pending /\ App!SessionAnswer))
    /\ WF_mcVars(AtApp(App!OpenSlot))

MCSpec == MCInit /\ [][MCNext]_mcVars /\ MCFairness

(* AppGate: vault, slot and keys are of one account.                         *)
EachTheirOwn == App!EachTheirOwn

(* UnlockScreen: what is enrolled or restored is what the server stores, and *)
(* an answer to the offer is not asked for again.                            *)
OpensWhatIsStored ==
    /\ []Screen!OpensWhatIsStored
    /\ [][fast # Null => uOffer' \in {"closed", uOffer}]_mcVars

(* HouseholdGate: the app opens with a key of the household, given by the    *)
(* member or somebody confirmed, and only who is confirmed becomes trusted.  *)
GateHolds == Gate!GateHolds

(* AppGate and HouseholdGate: nobody waits for ever at a screen that promises*)
(* to go on by itself.                                                       *)
NobodyWaits == (side = "app" => App!GetsThere) /\ Gate!LetIn
=============================================================================
