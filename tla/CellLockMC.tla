----------------------------- MODULE CellLockMC -----------------------------
(***************************************************************************)
(* Small instances of CellLock: two cells that the hop locks in turn.      *)
(***************************************************************************)
EXTENDS CellLock

TwoCells == {"a", "b"}
=============================================================================
