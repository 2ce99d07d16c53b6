--------------------------- MODULE SurveyGuardsMC ----------------------------
(***************************************************************************)
(* Recipes for SurveyGuards.                                               *)
(***************************************************************************)
EXTENDS SurveyGuards

Survey(w, f, g) == [surveying |-> TRUE, wcdma |-> w, full |-> f, ghost |-> g, enrich |-> TRUE]
Watch(g, e) == [surveying |-> FALSE, wcdma |-> FALSE, full |-> FALSE, ghost |-> g, enrich |-> e]

(* A full walk that also walks 3G, and watches with and without ghost.     *)
All == {Survey(TRUE, TRUE, FALSE), Watch(TRUE, TRUE), Watch(TRUE, FALSE), Watch(FALSE, TRUE)}

Found == {"any"}
=============================================================================
