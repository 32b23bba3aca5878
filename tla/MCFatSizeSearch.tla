-------------------------- MODULE MCFatSizeSearch ---------------------------
(***************************************************************************)
(* FatSizeSearch over every probe of six sizes, as one band or as two that *)
(* meet at the fourth size. A window of sizes that fit may open and close  *)
(* between two tries of the climb, which from one are 1, 2, 4 and the end. *)
(***************************************************************************)
EXTENDS FatSizeSearch

MCFatVerdicts == [Sizes -> Verdict]
=============================================================================
