-------------------------- MODULE MCReleaseOperation --------------------------
(* ReleaseOperation with two participants.  They are alike when both have     *)
(* packages, so states that differ only in their names are one.               *)
EXTENDS ReleaseOperation, TLC

\* Releases that start from a draft.
DraftedSpec == ReleaseInit /\ phase = "drafted" /\ [][ReleaseNext]_releaseVars

AnyParticipant == Permutations(Participants)
=============================================================================
