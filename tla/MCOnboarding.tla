---------------------------- MODULE MCOnboarding ----------------------------
(* Onboarding for TLC.                                                     *)
EXTENDS Onboarding, TLC

NameSymmetry == Permutations(Request) \cup Permutations(Slug) \cup Permutations(Owner)
=============================================================================
