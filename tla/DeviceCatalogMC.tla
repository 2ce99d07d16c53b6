--------------------------- MODULE DeviceCatalogMC ---------------------------
(***************************************************************************)
(* Three modems for DeviceCatalog: one with a serial number of its own and *)
(* two that report the same stub.                                          *)
(***************************************************************************)
EXTENDS DeviceCatalog

Serials == [m \in Modems |-> IF m = "own" THEN "S1" ELSE "stub"]
=============================================================================
