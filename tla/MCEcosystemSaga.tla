--------------------------- MODULE MCEcosystemSaga ---------------------------
(* EcosystemSaga over every plan of a few steps.  The steps are alike, so     *)
(* plans that differ only in their names are one.                             *)
EXTENDS EcosystemSaga, TLC

AnyStep == Permutations(Steps)
=============================================================================
