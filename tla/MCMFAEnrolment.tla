---------------------------- MODULE MCMFAEnrolment ----------------------------
(* Three requests at once and two setup challenges, in both modes. *)
EXTENDS MFAEnrolment, TLC
Symmetry == Permutations(Req) \cup Permutations(Challenge)
=============================================================================
