----------------------------- MODULE DiagLinkMC -----------------------------
(***************************************************************************)
(* Small instances of DiagLink: two device paths, the two LTE packs.       *)
(***************************************************************************)
EXTENDS DiagLink

TwoNodes == {1, 2}
TwoPacks == {"Search", "Serving"}
=============================================================================
