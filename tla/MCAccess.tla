------------------------------ MODULE MCAccess ------------------------------
(* Access for TLC: the owner clicks twice on the invitation to an agency    *)
(* made by staff, makes another member administrator, and steps down.      *)
EXTENDS Access, TLC

CONSTANTS owner, member, up, down, i1, i2, c1

Readers == c1 :> owner
Actors == down :> owner @@ up :> owner
Subjects == down :> owner @@ up :> member
Roles == down :> {"desk"} @@ up :> {"admin"}
Invitation == [i \in {i1, i2} |-> [user |-> owner, role |-> "admin"]]
=============================================================================
