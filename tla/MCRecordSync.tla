---------------------------- MODULE MCRecordSync ----------------------------
(* Small instances of RecordSync: where the tabs and engines live.          *)
EXTENDS RecordSyncProperties

CONSTANTS d1, d2,   \* devices, and their only tabs and engines where they have one
          other     \* a second tab, or a second engine, of d1

(* Two devices of two members.                                              *)
OnePerDevice == [d \in Devices |-> d]
TwoMembers   == [d \in Devices |-> IF d = d1 THEN 1 ELSE 2]

(* d1 has another tab, or its tab another engine: after a lock and an       *)
(* unlock the run the lock caught may still be going.                       *)
DeviceOfTab   == [t \in Tabs |-> IF t = other THEN d1 ELSE t]
OneTabEach    == [e \in Engines |-> e]
TabOfEngine   == [e \in Engines |-> IF e = other THEN d1 ELSE e]
==============================================================================
