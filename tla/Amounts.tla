------------------------------ MODULE Amounts ------------------------------
(***************************************************************************)
(* Sums of amounts over the rows of a table: what a SUM query, or a loop    *)
(* that adds, returns.  Every amount is laid out unit by unit and the units *)
(* are counted, so no order of adding is chosen and nothing is recursive.  *)
(***************************************************************************)
EXTENDS Integers, FiniteSets

(* An amount of zero or less has no units. *)
Units(amount, rows) == UNION {{r} \X (1 .. amount[r]) : r \in rows}

SumOver(amount, rows) == Cardinality(Units(amount, rows))
=============================================================================
