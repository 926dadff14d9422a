------------------------------- MODULE Access -------------------------------
(***************************************************************************)
(* What a member of an agency may do: role assignments, the permissions of  *)
(* roles, the features the platform has enabled, the check of a request    *)
(* against them and the access profile that is cached for the pages.       *)
(* Source: backend/src/access, platform/platform.service.ts (features) and  *)
(* shared/cache.                                                           *)
(*                                                                         *)
(* One feature key and one required level are in view: a role either grants *)
(* it or not.  Nothing here is locked, so every query is a step of its own; *)
(* only the flush of replaceAssignments is a transaction.                  *)
(***************************************************************************)
EXTENDS Naturals, FiniteSets

CONSTANTS
    User,
    Custom,      \* roles the agency made itself
    Reader,      \* requests to check, or to put a profile together
    ReaderOf,    \* the member each is from
    Assign,      \* requests to replace the roles of a member
    Actor,       \* who makes an assignment
    Subject,     \* whose roles it replaces
    Given,       \* the roles it gives
    Accept,      \* clicks on an invitation
    Invited,     \* whom a click makes a member, and with which role
    Founders,    \* who is an administrator from the start
    Matrix,      \* the seeded roles with the permission in view
    None,        \* no profile, nobody's request
    MaxChange    \* bound on the edits of roles and features

ASSUME AccessAssumption ==
    /\ Actor \in [Assign -> User] /\ Subject \in [Assign -> User]
    /\ ReaderOf \in [Reader -> User]
    /\ Founders \subseteq User
    /\ Custom \cap {"admin", "agent", "pilgrim"} = {}
    /\ Given \in [Assign -> SUBSET (Custom \cup {"admin", "agent", "pilgrim"})]
    /\ Invited \in [Accept -> [user : User, role : Custom \cup {"admin", "agent", "pilgrim"}]]
    /\ Matrix \subseteq {"agent", "pilgrim"}
    /\ Assign \cap Reader = {}
    /\ MaxChange \in Nat

(* The roles every agency has from the start, agent standing for those of   *)
(* all other staff, and its own.                                           *)
System == {"admin", "agent", "pilgrim"}
Role == Custom \cup System
Maker == (Assign \cup Accept) \cup {None}
Row == [user : User, role : Role, by : Maker]
Profile == [on : BOOLEAN, admin : BOOLEAN, granted : BOOLEAN]

VARIABLES
    rows,      \* user_roles, each with the request that made it
    grants,    \* roles with a permission row of the level in view
    archived,  \* roles that are soft-deleted
    base,      \* the feature is in tenant.features, the agency's plan
    override,  \* the feature's row in tenant_feature_overrides
    cache,     \* access:me of each member
    reader,    \* the requests that read
    assign,    \* the requests that assign
    accept,    \* the clicks on an invitation
    changes,   \* number of edits of roles and features
    calm       \* requests during which nothing has changed (history)

truth == <<rows, grants, archived, base, override>>
vars == <<truth, cache, reader, assign, accept, changes, calm>>

Resting == [at |-> "idle", base |-> FALSE, on |-> FALSE, admin |-> FALSE, granted |-> FALSE]
NewAssign == [at |-> "new", existing |-> {}]

TypeOK ==
    /\ rows \subseteq Row
    /\ grants \subseteq Role /\ archived \subseteq Custom
    /\ base \in BOOLEAN /\ override \in {"none", "on", "off"}
    /\ cache \in [User -> Profile \cup {None}]
    /\ reader \in [Reader -> [at : {"idle", "check", "check admin", "check roles", "check map", "decided",
                                    "me", "me features", "me map", "me write"},
                              base : BOOLEAN, on : BOOLEAN, admin : BOOLEAN, granted : BOOLEAN]]
    /\ assign \in [Assign -> [at : {"new", "asked", "looked", "allowed", "flushed", "done"},
                              existing : SUBSET Row]]
    /\ accept \in [Accept -> {"new", "inserting", "done"}]
    /\ changes \in 0 .. MaxChange
    /\ calm \subseteq Reader \cup Assign

(* An agency starts with the features of its plan; this is one of them. *)
Init ==
    /\ rows = [user : Founders, role : {"admin"}, by : {None}]
    /\ grants = Matrix
    /\ archived = {}
    /\ base = TRUE /\ override = "none"
    /\ cache = [u \in User |-> None]
    /\ reader = [c \in Reader |-> Resting]
    /\ assign = [a \in Assign |-> NewAssign]
    /\ accept = [i \in Accept |-> "new"]
    /\ changes = 0
    /\ calm = {}

----------------------------------------------------------------------------
(* What the tables say. *)

(* An assignment of an archived role is not found. *)
RolesOf(u) == {r.role : r \in {s \in rows : s.user = u}} \ archived

IsAdmin(u) == "admin" \in RolesOf(u)
IsStaff(u) == RolesOf(u) \ {"pilgrim"} # {}
Granted(u) == RolesOf(u) \cap grants # {}
Enabled(b) == IF override = "none" THEN b ELSE override = "on"

Can(u) == Enabled(base) /\ (IsAdmin(u) \/ (IsStaff(u) /\ Granted(u)))

ProfileOf(u) == [on |-> Enabled(base), admin |-> IsAdmin(u), granted |-> ~IsAdmin(u) /\ Granted(u)]

----------------------------------------------------------------------------
(* Reading: the check of a request, and access/me. *)

Go(c, at) == reader' = [reader EXCEPT ![c].at = at]

Decide(c, granted) == reader' = [reader EXCEPT ![c].at = "decided", ![c].granted = granted]

Reads == UNCHANGED <<truth, cache, assign, accept, changes, calm>>

(* The request has brought the agency's row along. *)
BeginCheck(c) ==
    /\ reader[c].at = "idle"
    /\ reader' = [reader EXCEPT ![c] = [Resting EXCEPT !.at = "check", !.base = base]]
    /\ calm' = calm \cup {c}
    /\ UNCHANGED <<truth, cache, assign, accept, changes>>

CheckFeature(c) ==
    /\ reader[c].at = "check"
    /\ IF Enabled(reader[c].base) THEN Go(c, "check admin") ELSE Decide(c, FALSE)
    /\ Reads

\* Mutant of AdminNow: the check trusts the cached profile.
AdminInProfile(u) == IF cache[u] = None THEN IsAdmin(u) ELSE cache[u].admin

AdminNow(u) == IsAdmin(u)

CheckAdmin(c) ==
    /\ reader[c].at = "check admin"
    /\ IF AdminNow(ReaderOf[c]) THEN Decide(c, TRUE) ELSE Go(c, "check roles")
    /\ Reads

CheckRoles(c) ==
    /\ reader[c].at = "check roles"
    /\ IF IsStaff(ReaderOf[c]) THEN Go(c, "check map") ELSE Decide(c, FALSE)
    /\ Reads

CheckMap(c) ==
    /\ reader[c].at = "check map"
    /\ Decide(c, Granted(ReaderOf[c]))
    /\ Reads

EndCheck(c) ==
    /\ reader[c].at = "decided"
    /\ reader' = [reader EXCEPT ![c] = Resting]
    /\ calm' = calm \ {c}
    /\ UNCHANGED <<truth, cache, assign, accept, changes>>

(* A cached profile is the answer, and nothing changes; without one, or if  *)
(* the cache cannot be reached, it is put together.                        *)
BeginMe(c) ==
    /\ reader[c].at = "idle"
    /\ reader' = [reader EXCEPT ![c] = [Resting EXCEPT !.at = "me", !.base = base]]
    /\ calm' = calm \cup {c}
    /\ UNCHANGED <<truth, cache, assign, accept, changes>>

MeAdmin(c) ==
    /\ reader[c].at = "me"
    /\ reader' = [reader EXCEPT ![c].at = "me features", ![c].admin = IsAdmin(ReaderOf[c])]
    /\ Reads

MeFeatures(c) ==
    /\ reader[c].at = "me features"
    /\ reader' = [reader EXCEPT ![c].at = "me map", ![c].on = Enabled(reader[c].base)]
    /\ Reads

(* An administrator's map is empty. *)
MeMap(c) ==
    /\ reader[c].at = "me map"
    /\ reader' = [reader EXCEPT ![c].at = "me write",
                                ![c].granted = ~reader[c].admin /\ Granted(ReaderOf[c])]
    /\ Reads

Answer(c) == [on |-> reader[c].on, admin |-> reader[c].admin, granted |-> reader[c].granted]

(* Storing it is best-effort. *)
MeWrite(c) ==
    /\ reader[c].at = "me write"
    /\ \/ cache' = [cache EXCEPT ![ReaderOf[c]] = Answer(c)]
       \/ UNCHANGED cache
    /\ reader' = [reader EXCEPT ![c] = Resting]
    /\ calm' = calm \ {c}
    /\ UNCHANGED <<truth, assign, accept, changes>>

\* Mutant of Lapses: a profile is stored without a time to live.
NeverLapses(u) == FALSE

Lapses(u) == cache[u] # None

Expire(u) ==
    /\ Lapses(u)
    /\ cache' = [cache EXCEPT ![u] = None]
    /\ UNCHANGED <<truth, reader, assign, accept, changes, calm>>

----------------------------------------------------------------------------
(* replaceAssignments. *)

Step(a, at) == assign' = [assign EXCEPT ![a].at = at]

(* Only an administrator gives the role of one. *)
Ask(a) ==
    /\ assign[a].at = "new"
    /\ Step(a, IF "admin" \in Given[a] /\ ~IsAdmin(Actor[a]) THEN "done" ELSE "asked")
    /\ UNCHANGED <<truth, cache, reader, accept, changes, calm>>

ExistingOf(u) == {r \in rows : r.user = u /\ r.role \notin archived}

Look(a) ==
    /\ assign[a].at = "asked"
    /\ assign' = [assign EXCEPT ![a] = [at |-> "looked", existing |-> ExistingOf(Subject[a])]]
    /\ calm' = calm \cup {a}
    /\ UNCHANGED <<truth, cache, reader, accept, changes>>

AdminRows == {r \in rows : r.role = "admin"}
OneRow == \A r, s \in AdminRows : r = s

\* Mutant of IsLastAdmin: the count is not consulted.
NobodyIsLast(a) == FALSE

(* remainingAdmins counts rows, and only a member's own request is checked. *)
IsLastAdmin(a) ==
    /\ Actor[a] = Subject[a]
    /\ \E r \in assign[a].existing : r.role = "admin"
    /\ "admin" \notin Given[a]
    /\ OneRow

CountAdmins(a) ==
    /\ assign[a].at = "looked"
    /\ Step(a, IF IsLastAdmin(a) THEN "done" ELSE "allowed")
    /\ UNCHANGED <<truth, cache, reader, accept, changes, calm>>

Made(a) == [user : {Subject[a]}, role : Given[a], by : {a}]

(* Deletes the rows it has seen and inserts its own, in one transaction. *)
Flush(a) ==
    /\ assign[a].at = "allowed"
    /\ Given[a] \cap archived = {}
    /\ rows' = (rows \ assign[a].existing) \cup Made(a)
    /\ Step(a, "flushed")
    /\ calm' = {}
    /\ UNCHANGED <<grants, archived, base, override, cache, reader, accept, changes>>

(* A role that is not found, a broken connection: nothing is written. *)
FlushFails(a) ==
    /\ assign[a].at = "allowed"
    /\ Step(a, "done")
    /\ UNCHANGED <<truth, cache, reader, accept, changes, calm>>

(* The cached profile is dropped if the cache can be reached. *)
Invalidate(a) ==
    /\ assign[a].at = "flushed"
    /\ \/ cache' = [cache EXCEPT ![Subject[a]] = None]
       \/ UNCHANGED cache
    /\ Step(a, "done")
    /\ UNCHANGED <<truth, reader, accept, changes, calm>>

----------------------------------------------------------------------------
(* assignTenantRole of acceptInvite: looks for the row, then inserts it.    *)
(* Two clicks may both find nothing, and no index forbids a second row.    *)

LookForRow(i) ==
    /\ accept[i] = "new"
    /\ accept' = [accept EXCEPT ![i] =
          IF \E r \in rows : r.user = Invited[i].user /\ r.role = Invited[i].role THEN "done" ELSE "inserting"]
    /\ UNCHANGED <<truth, cache, reader, assign, changes, calm>>

InsertRow(i) ==
    /\ accept[i] = "inserting"
    /\ rows' = rows \cup {[user |-> Invited[i].user, role |-> Invited[i].role, by |-> i]}
    /\ accept' = [accept EXCEPT ![i] = "done"]
    /\ calm' = {}
    /\ UNCHANGED <<grants, archived, base, override, cache, reader, assign, changes>>

----------------------------------------------------------------------------
(* Edits of roles and features, one flush each; none drops a profile. *)

Edit ==
    /\ changes < MaxChange
    /\ changes' = changes + 1
    /\ calm' = {}
    /\ UNCHANGED <<rows, cache, reader, assign, accept>>

UpdateRole(role) ==
    /\ role \in Custom \ archived
    /\ grants' \in {grants \cup {role}, grants \ {role}}
    /\ Edit /\ UNCHANGED <<archived, base, override>>

RemoveRole(role) ==
    /\ role \in Custom \ archived
    /\ archived' = archived \cup {role}
    /\ Edit /\ UNCHANGED <<grants, base, override>>

SetFeature(enabled) ==
    /\ override' = IF enabled THEN "on" ELSE "off"
    /\ Edit /\ UNCHANGED <<grants, archived, base>>

SyncTenantFeatures(want) ==
    /\ override' = IF want = base THEN "none" ELSE IF want THEN "on" ELSE "off"
    /\ Edit /\ UNCHANGED <<grants, archived, base>>

Subscribe(b) ==
    /\ base' = b
    /\ Edit /\ UNCHANGED <<grants, archived, override>>

----------------------------------------------------------------------------
ReaderStep(c) ==
    \/ CheckFeature(c) \/ CheckAdmin(c) \/ CheckRoles(c) \/ CheckMap(c) \/ EndCheck(c)
    \/ MeAdmin(c) \/ MeFeatures(c) \/ MeMap(c) \/ MeWrite(c)

AssignStep(a) ==
    Ask(a) \/ Look(a) \/ CountAdmins(a) \/ Flush(a) \/ FlushFails(a) \/ Invalidate(a)

Next ==
    \/ \E c \in Reader :
          \/ BeginCheck(c) \/ BeginMe(c)
          \/ ReaderStep(c)
    \/ \E u \in User : Expire(u)
    \/ \E a \in Assign : AssignStep(a)
    \/ \E i \in Accept : LookForRow(i) \/ InsertRow(i)
    \/ \E role \in Custom : UpdateRole(role) \/ RemoveRole(role)
    \/ \E b \in BOOLEAN : SetFeature(b) \/ SyncTenantFeatures(b) \/ Subscribe(b)

Spec == Init /\ [][Next]_vars

(* Requests finish, and the cache drops a profile when its time is up. *)
FairSpec ==
    /\ Spec
    /\ \A c \in Reader : WF_vars(ReaderStep(c))
    /\ \A u \in User : WF_vars(Expire(u))

----------------------------------------------------------------------------
(* A request during which nothing changed is decided by the tables as they  *)
(* are, whatever profile is cached, and the profile it stores is theirs:   *)
(* the queries it is put together from fit each other.                     *)
ReadsFitTogether ==
    \A c \in calm \cap Reader :
        /\ reader[c].at = "decided" => reader[c].granted = Can(ReaderOf[c])
        /\ reader[c].at = "me write" => Answer(c) = ProfileOf(ReaderOf[c])

Admins == {u \in User : IsAdmin(u)}

NoTwins == \A r, s \in AdminRows : r.user = s.user => r = s

(* The last administrator's own request does not leave the agency without   *)
(* one, unless rows changed while it was looking or it was counted twice.  *)
AdminRemains ==
    [][\A a \in calm \cap Assign :
          Flush(a) /\ Actor[a] = Subject[a] /\ NoTwins /\ Admins # {} => Admins' # {}]_vars

(* When roles and features stop changing, every cached profile agrees with  *)
(* them in the end, though nothing but replaceAssignments drops one and a  *)
(* slow request may store what was true long ago.                          *)
ProfileCatchesUp == <>[](\A u \in User : cache[u] \in {None, ProfileOf(u)})
=============================================================================
