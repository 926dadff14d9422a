----------------------------- MODULE MCSessions -----------------------------
(* Sessions for TLC: which tab makes which call.                           *)
EXTENDS Sessions, TLC

CONSTANTS t1, t2, c1

First == c1 :> t1
=============================================================================
