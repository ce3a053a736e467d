------------------------------ MODULE MCPrices ------------------------------
(* Both ends of the prices under one run: the server's ingest, shown to      *)
(* implement PriceFile, or the devices that rely on PriceFile. `side` says   *)
(* which a behaviour is about; the first is PriceIngest itself, the second   *)
(* an instance of PriceRefresh.                                              *)
EXTENDS PriceIngest

CONSTANTS Dates, Stamps, Tabs, Days, MaxPublished

VARIABLES side, file, priceDay, published, opening, row, answered, inflight, step, updated,
          universes

Dev == INSTANCE PriceRefresh WITH day <- priceDay

(* What the theorems about the two assume of their constants.                *)
ASSUME PricesAssumption == IngestConstants /\ Dev!RefreshConstants

serverVars == <<host, clock, due, job, table, stored>>
deviceVars == <<file, priceDay, published, opening, row, answered, inflight, step, updated,
                universes>>
mcVars     == <<side, serverVars, deviceVars, faults>>

MCInit ==
    /\ side \in {"server", "device"}
    /\ Init
    /\ Dev!PInit
    /\ side = "device" => host = "home"

AtServer(A) == side = "server" /\ A /\ UNCHANGED <<side, deviceVars>>
AtDevice(A) == side = "device" /\ A /\ UNCHANGED <<side, serverVars>>

MCSpec ==
    /\ MCInit
    /\ [][AtServer(Next) \/ AtDevice(Dev!PNext)]_mcVars
    /\ WF_mcVars(AtServer(Arm))
    /\ \A k \in Kinds : WF_mcVars(AtServer(Ingest(k)))
    /\ \A t \in Tabs :
           /\ WF_mcVars(AtDevice(Dev!Refresh(t)))
           /\ WF_mcVars(AtDevice(Dev!Settle(t)))
           /\ \A k \in Kinds : WF_mcVars(AtDevice(Dev!Handle(t, k)))

(* PriceRefresh: no older file replaces a newer one on a device, and no kind *)
(* counts as checked on a day with less than the server had when it began.   *)
NeverWorse == Dev!NeverWorse

(* Prices keep coming, whatever failed: the server's timer is armed again and*)
(* for the next run time, and what it has reaches a device that is open      *)
(* (price-schedule.ts:79, price-refresh.ts:60).                              *)
GoesOn ==
    /\ []NoRunSkipped
    /\ [](side = "server" /\ host = "home" => <>(due # Null))
    /\ Dev!Fetches
=============================================================================
