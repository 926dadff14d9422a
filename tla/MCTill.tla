------------------------------- MODULE MCTill -------------------------------
(* Till for TLC.                                                           *)
EXTENDS Till, TLC

CONSTANTS book, visa
=============================================================================
