---------------------------- MODULE AccessProofs ----------------------------
(* Proofs about Access, for any members, roles, requests and invitations. *)
EXTENDS Access, TLAPS

ReaderRecord ==
    [at : {"idle", "check", "check admin", "check roles", "check map", "decided",
           "me", "me features", "me map", "me write"},
     base : BOOLEAN, on : BOOLEAN, admin : BOOLEAN, granted : BOOLEAN]

AssignRecord == [at : {"new", "asked", "looked", "allowed", "flushed", "done"}, existing : SUBSET Row]

(* What a request has learned while nothing changed is so. *)
Knows(c) ==
    LET u == ReaderOf[c]
        r == reader[c] IN
    /\ r.at # "idle" => r.base = base
    /\ r.at \in {"check admin", "check roles", "check map"} => Enabled(base)
    /\ r.at \in {"check roles", "check map"} => ~IsAdmin(u)
    /\ r.at = "check map" => IsStaff(u)
    /\ r.at = "decided" => r.granted = Can(u)
    /\ r.at \in {"me features", "me map", "me write"} => r.admin = IsAdmin(u)
    /\ r.at \in {"me map", "me write"} => r.on = Enabled(base)
    /\ r.at = "me write" => r.granted = (~IsAdmin(u) /\ Granted(u))

(* And an assignment that is about to be written has seen all of the        *)
(* member's rows and was not refused for being the last administrator's.   *)
Allowed(a) ==
    /\ assign[a].at \in {"looked", "allowed"} => assign[a].existing = ExistingOf(Subject[a])
    /\ assign[a].at = "allowed" => ~IsLastAdmin(a)

CalmReaders == \A c \in calm \cap Reader : Knows(c)
CalmAssigns == \A a \in calm \cap Assign : Allowed(a)

----------------------------------------------------------------------------
LEMMA TypeInit == Init => TypeOK
<1> SUFFICES ASSUME Init PROVE TypeOK
  OBVIOUS
<1> USE AccessAssumption DEF Init
<1>1. rows \subseteq Row
  BY DEF Row, Role, System, Maker
<1>2. grants \subseteq Role /\ archived \subseteq Custom /\ base \in BOOLEAN /\ override \in {"none", "on", "off"}
  BY DEF Role, System
<1>3. cache \in [User -> Profile \cup {None}] /\ reader \in [Reader -> ReaderRecord]
  BY DEF Resting, ReaderRecord
<1>4. assign \in [Assign -> AssignRecord] /\ accept \in [Accept -> {"new", "inserting", "done"}]
  BY DEF NewAssign, AssignRecord
<1>5. changes \in 0 .. MaxChange /\ calm \subseteq Reader \cup Assign
  OBVIOUS
<1> QED
  BY <1>1, <1>2, <1>3, <1>4, <1>5 DEF TypeOK, ReaderRecord, AssignRecord

(* What the operators on tables return. *)
LEMMA Booleans ==
  ASSUME NEW u, NEW b \in BOOLEAN
  PROVE  IsAdmin(u) \in BOOLEAN /\ IsStaff(u) \in BOOLEAN /\ Granted(u) \in BOOLEAN /\ Enabled(b) \in BOOLEAN
<1>1. IsAdmin(u) \in BOOLEAN
  BY SMT DEF IsAdmin
<1>2. IsStaff(u) \in BOOLEAN /\ Granted(u) \in BOOLEAN
  BY Zenon DEF IsStaff, Granted
<1>3. Enabled(b) \in BOOLEAN
  BY DEF Enabled
<1> QED
  BY <1>1, <1>2, <1>3

(* A request that takes a step of its own. *)
Stage == {"idle", "check", "check admin", "check roles", "check map", "decided",
          "me", "me features", "me map", "me write"}

LEMMA GoType ==
  ASSUME TypeOK, NEW c \in Reader, NEW at \in Stage, Go(c, at) \/ \E g \in BOOLEAN : Decide(c, g)
  PROVE  reader' \in [Reader -> ReaderRecord]
<1>1. reader \in [Reader -> ReaderRecord]
  BY DEF TypeOK, ReaderRecord
<1>2. [reader[c] EXCEPT !.at = at] \in ReaderRecord
  BY <1>1 DEF ReaderRecord, Stage
<1>3. ASSUME NEW g \in BOOLEAN PROVE [reader[c] EXCEPT !.at = "decided", !.granted = g] \in ReaderRecord
  BY <1>1 DEF ReaderRecord
<1> QED
  BY <1>1, <1>2, <1>3 DEF Go, Decide

LEMMA RecordUpdate ==
  ASSUME NEW r \in ReaderRecord, NEW at \in Stage, NEW x \in BOOLEAN
  PROVE  /\ [r EXCEPT !.at = at, !.admin = x] \in ReaderRecord
         /\ [r EXCEPT !.at = at, !.on = x] \in ReaderRecord
         /\ [r EXCEPT !.at = at, !.granted = x] \in ReaderRecord
  BY DEF ReaderRecord, Stage

LEMMA TypeReader == ASSUME TypeOK, NEW c \in Reader, ReaderStep(c) \/ BeginCheck(c) \/ BeginMe(c) PROVE TypeOK'
<1> USE AccessAssumption
<1>0. reader \in [Reader -> ReaderRecord] /\ base \in BOOLEAN
  BY DEF TypeOK, ReaderRecord
<1> DEFINE Typed == reader' \in [Reader -> ReaderRecord]
<1>1. CASE BeginCheck(c)
  BY <1>1 DEF BeginCheck, Resting, TypeOK, truth
<1>2. CASE BeginMe(c)
  BY <1>2 DEF BeginMe, Resting, TypeOK, truth
<1>3. ASSUME Typed, Reads PROVE TypeOK'
  BY <1>3 DEF Reads, TypeOK, ReaderRecord, truth
<1>4. CASE CheckFeature(c)
  BY <1>3, <1>4, GoType DEF CheckFeature, Stage
<1>5. CASE CheckAdmin(c)
  BY <1>3, <1>5, GoType DEF CheckAdmin, Stage
<1>6. CASE CheckRoles(c)
  BY <1>3, <1>6, GoType DEF CheckRoles, Stage
<1>7. CASE CheckMap(c)
  BY <1>0, <1>3, <1>7, GoType, Booleans DEF CheckMap, Stage
<1>8. CASE EndCheck(c)
  BY <1>8 DEF EndCheck, Resting, TypeOK, truth
<1>9. CASE MeAdmin(c)
  <2>1. [reader[c] EXCEPT !.at = "me features", !.admin = IsAdmin(ReaderOf[c])] \in ReaderRecord
    BY <1>0, Booleans, RecordUpdate DEF Stage
  <2> QED
    BY <1>0, <1>3, <1>9, <2>1 DEF MeAdmin
<1>10. CASE MeFeatures(c)
  <2>1. reader[c].base \in BOOLEAN
    BY <1>0 DEF ReaderRecord
  <2>2. [reader[c] EXCEPT !.at = "me map", !.on = Enabled(reader[c].base)] \in ReaderRecord
    BY <1>0, <2>1, Booleans, RecordUpdate DEF Stage
  <2> QED
    BY <1>0, <1>3, <1>10, <2>2 DEF MeFeatures
<1>11. CASE MeMap(c)
  <2>1. (~reader[c].admin /\ Granted(ReaderOf[c])) \in BOOLEAN
    BY Zenon
  <2>2. [reader[c] EXCEPT !.at = "me write", !.granted = ~reader[c].admin /\ Granted(ReaderOf[c])] \in ReaderRecord
    BY <1>0, <2>1, RecordUpdate DEF Stage
  <2> QED
    BY <1>0, <1>3, <1>11, <2>2 DEF MeMap
<1>12. CASE MeWrite(c)
  <2>1. Answer(c) \in Profile
    BY <1>0 DEF Answer, Profile, ReaderRecord
  <2>2. cache' \in [User -> Profile \cup {None}]
    <3>1. CASE cache' = [cache EXCEPT ![ReaderOf[c]] = Answer(c)]
      BY <2>1, <3>1 DEF TypeOK
    <3>2. CASE UNCHANGED cache
      BY <3>2 DEF TypeOK
    <3> QED
      BY <1>12, <3>1, <3>2 DEF MeWrite
  <2>3. Resting \in ReaderRecord
    BY DEF Resting, ReaderRecord
  <2>4. Typed
    BY <1>0, <1>12, <2>3 DEF MeWrite
  <2>5. calm' \subseteq Reader \cup Assign /\ UNCHANGED <<truth, assign, accept, changes>>
    BY <1>12 DEF MeWrite, TypeOK
  <2> QED
    BY <2>2, <2>4, <2>5 DEF TypeOK, ReaderRecord, truth
<1> QED
  BY <1>1, <1>2, <1>4, <1>5, <1>6, <1>7, <1>8, <1>9, <1>10, <1>11, <1>12 DEF ReaderStep

LEMMA StepType ==
  ASSUME TypeOK, NEW a \in Assign, NEW at \in {"new", "asked", "looked", "allowed", "flushed", "done"}, Step(a, at)
  PROVE  assign' \in [Assign -> AssignRecord]
<1>1. assign \in [Assign -> AssignRecord]
  BY DEF TypeOK, AssignRecord
<1>2. [assign[a] EXCEPT !.at = at] \in AssignRecord
  BY <1>1 DEF AssignRecord
<1> QED
  BY <1>1, <1>2 DEF Step

LEMMA TypeAssign == ASSUME TypeOK, NEW a \in Assign, AssignStep(a) PROVE TypeOK'
<1> USE AccessAssumption
<1> DEFINE Typed == assign' \in [Assign -> AssignRecord]
<1>0. ASSUME Typed, UNCHANGED <<truth, cache, reader, accept, changes, calm>> PROVE TypeOK'
  BY <1>0 DEF TypeOK, AssignRecord, truth
<1>1. CASE Ask(a)
  BY <1>0, <1>1, StepType DEF Ask
<1>2. CASE Look(a)
  <2>1. ExistingOf(Subject[a]) \subseteq Row
    BY DEF ExistingOf, TypeOK
  <2> QED
    BY <1>2, <2>1 DEF Look, TypeOK, truth
<1>3. CASE CountAdmins(a)
  BY <1>0, <1>3, StepType DEF CountAdmins
<1>4. CASE Flush(a)
  <2>1. Made(a) \subseteq Row
    BY DEF Made, Row, Role, System, Maker
  <2>2. Typed
    BY <1>4, StepType DEF Flush
  <2>3. rows' \subseteq Row
    BY <1>4, <2>1 DEF Flush, TypeOK
  <2> QED
    BY <1>4, <2>2, <2>3 DEF Flush, TypeOK, AssignRecord
<1>5. CASE FlushFails(a)
  BY <1>0, <1>5, StepType DEF FlushFails
<1>6. CASE Invalidate(a)
  <2>1. Typed
    BY <1>6, StepType DEF Invalidate
  <2>2. cache' \in [User -> Profile \cup {None}]
    BY <1>6 DEF Invalidate, TypeOK
  <2> QED
    BY <1>6, <2>1, <2>2 DEF Invalidate, TypeOK, AssignRecord, truth
<1> QED
  BY <1>1, <1>2, <1>3, <1>4, <1>5, <1>6 DEF AssignStep

LEMMA EditType ==
  ASSUME TypeOK, Edit, grants' \subseteq Role, archived' \subseteq Custom,
         base' \in BOOLEAN, override' \in {"none", "on", "off"}
  PROVE  TypeOK'
<1>1. changes' \in 0 .. MaxChange
  <2>1. MaxChange \in Nat
    BY AccessAssumption
  <2>2. changes \in 0 .. MaxChange /\ changes < MaxChange /\ changes' = changes + 1
    BY DEF TypeOK, Edit
  <2> QED
    BY <2>1, <2>2
<1> QED
  BY <1>1 DEF TypeOK, Edit

LEMMA TypeNext == TypeOK /\ [Next]_vars => TypeOK'
<1> SUFFICES ASSUME TypeOK, [Next]_vars PROVE TypeOK'
  OBVIOUS
<1> USE AccessAssumption DEF TypeOK, truth
<1>1. CASE UNCHANGED vars
  BY <1>1 DEF vars
<1>2. ASSUME NEW u \in User, Expire(u) PROVE TypeOK'
  BY <1>2 DEF Expire
<1>3. ASSUME NEW i \in Accept, LookForRow(i) PROVE TypeOK'
  BY <1>3 DEF LookForRow
<1>4. ASSUME NEW i \in Accept, InsertRow(i) PROVE TypeOK'
  <2>1. [user |-> Invited[i].user, role |-> Invited[i].role, by |-> i] \in Row
    BY DEF Row, Role, System, Maker
  <2> QED
    BY <1>4, <2>1 DEF InsertRow
<1>5. ASSUME NEW role \in Custom, UpdateRole(role) \/ RemoveRole(role) PROVE TypeOK'
  <2>1. grants' \subseteq Role /\ archived' \subseteq Custom /\ UNCHANGED <<base, override>> /\ Edit
    BY <1>5 DEF UpdateRole, RemoveRole, Role
  <2> QED
    BY <2>1, EditType
<1>6. ASSUME NEW b \in BOOLEAN, SetFeature(b) \/ SyncTenantFeatures(b) \/ Subscribe(b) PROVE TypeOK'
  <2>1. base' \in BOOLEAN /\ override' \in {"none", "on", "off"} /\ UNCHANGED <<grants, archived>> /\ Edit
    BY <1>6 DEF SetFeature, SyncTenantFeatures, Subscribe
  <2> QED
    BY <2>1, EditType
<1> QED
  BY <1>1, <1>2, <1>3, <1>4, <1>5, <1>6, TypeReader, TypeAssign DEF Next

(* Rows are of members and roles, requests are at a known stage. *)
THEOREM TypeCorrect == Spec => []TypeOK
<1> QED
  BY TypeInit, TypeNext, PTL DEF Spec

----------------------------------------------------------------------------
(* Reads fit together. *)

LEMMA GoTo ==
  ASSUME TypeOK, NEW c \in Reader, NEW at, Go(c, at)
  PROVE  reader'[c].at = at /\ reader'[c].base = reader[c].base
  BY DEF TypeOK, Go

LEMMA DecideTo ==
  ASSUME TypeOK, NEW c \in Reader, NEW g, Decide(c, g)
  PROVE  reader'[c].at = "decided" /\ reader'[c].granted = g /\ reader'[c].base = reader[c].base
  BY DEF TypeOK, Decide

(* What a step may do to a reader that has learned something. *)
LEMMA OwnStep ==
  ASSUME TypeOK, NEW c \in Reader, ReaderStep(c), c \in calm, Knows(c), c \in calm'
  PROVE  Knows(c)'
<1> USE Booleans DEF Knows, truth
<1> reader \in [Reader -> ReaderRecord] /\ base \in BOOLEAN
  BY DEF TypeOK, ReaderRecord
<1>0. ASSUME Reads PROVE /\ base' = base /\ Enabled(base)' = Enabled(base)
                         /\ IsAdmin(ReaderOf[c])' = IsAdmin(ReaderOf[c])
                         /\ IsStaff(ReaderOf[c])' = IsStaff(ReaderOf[c])
                         /\ Granted(ReaderOf[c])' = Granted(ReaderOf[c])
                         /\ Can(ReaderOf[c])' = Can(ReaderOf[c])
  BY <1>0 DEF Reads, Enabled, IsAdmin, IsStaff, Granted, RolesOf, Can
<1>1. CASE CheckFeature(c)
  <2>0. Reads
    BY <1>1 DEF CheckFeature
  <2>1. CASE Enabled(reader[c].base)
    <3>1. reader'[c].at = "check admin" /\ reader'[c].base = reader[c].base
      BY <1>1, <2>1, GoTo, DecideTo DEF CheckFeature
    <3> QED
      BY <1>0, <1>1, <2>0, <2>1, <3>1 DEF CheckFeature, Can
  <2>2. CASE ~(Enabled(reader[c].base))
    <3>1. reader'[c].at = "decided" /\ reader'[c].granted = FALSE /\ reader'[c].base = reader[c].base
      BY <1>1, <2>2, GoTo, DecideTo DEF CheckFeature
    <3> QED
      BY <1>0, <1>1, <2>0, <2>2, <3>1 DEF CheckFeature, Can
  <2> QED
    BY <2>1, <2>2
<1>2. CASE CheckAdmin(c)
  <2>0. Reads
    BY <1>2 DEF CheckAdmin
  <2>1. CASE IsAdmin(ReaderOf[c])
    <3>1. reader'[c].at = "decided" /\ reader'[c].granted = TRUE /\ reader'[c].base = reader[c].base
      BY <1>2, <2>1, GoTo, DecideTo DEF CheckAdmin, AdminNow
    <3> QED
      BY <1>0, <1>2, <2>0, <2>1, <3>1 DEF CheckAdmin, Can
  <2>2. CASE ~(IsAdmin(ReaderOf[c]))
    <3>1. reader'[c].at = "check roles" /\ reader'[c].base = reader[c].base
      BY <1>2, <2>2, GoTo, DecideTo DEF CheckAdmin, AdminNow
    <3> QED
      BY <1>0, <1>2, <2>0, <2>2, <3>1 DEF CheckAdmin, Can
  <2> QED
    BY <2>1, <2>2
<1>3. CASE CheckRoles(c)
  <2>0. Reads
    BY <1>3 DEF CheckRoles
  <2>1. CASE IsStaff(ReaderOf[c])
    <3>1. reader'[c].at = "check map" /\ reader'[c].base = reader[c].base
      BY <1>3, <2>1, GoTo, DecideTo DEF CheckRoles
    <3> QED
      BY <1>0, <1>3, <2>0, <2>1, <3>1 DEF CheckRoles, Can
  <2>2. CASE ~(IsStaff(ReaderOf[c]))
    <3>1. reader'[c].at = "decided" /\ reader'[c].granted = FALSE /\ reader'[c].base = reader[c].base
      BY <1>3, <2>2, GoTo, DecideTo DEF CheckRoles
    <3> QED
      BY <1>0, <1>3, <2>0, <2>2, <3>1 DEF CheckRoles, Can
  <2> QED
    BY <2>1, <2>2
<1>4. CASE CheckMap(c)
  BY <1>0, <1>4 DEF CheckMap, Decide, Can, ReaderRecord
<1>5. CASE MeAdmin(c)
  BY <1>0, <1>5 DEF MeAdmin, ReaderRecord
<1>6. CASE MeFeatures(c)
  BY <1>0, <1>6 DEF MeFeatures, ReaderRecord
<1>7. CASE MeMap(c)
  BY <1>0, <1>7 DEF MeMap, ReaderRecord
<1>8. CASE EndCheck(c) \/ MeWrite(c)
  BY <1>8 DEF EndCheck, MeWrite
<1> QED
  BY <1>1, <1>2, <1>3, <1>4, <1>5, <1>6, <1>7, <1>8 DEF ReaderStep

LEMMA KnowsStays ==
  ASSUME NEW c \in Reader, Knows(c), UNCHANGED truth, reader'[c] = reader[c]
  PROVE  Knows(c)'
<1>1. /\ base' = base /\ Enabled(base)' = Enabled(base) /\ Can(ReaderOf[c])' = Can(ReaderOf[c])
      /\ IsAdmin(ReaderOf[c])' = IsAdmin(ReaderOf[c])
      /\ IsStaff(ReaderOf[c])' = IsStaff(ReaderOf[c])
      /\ Granted(ReaderOf[c])' = Granted(ReaderOf[c])
  BY DEF truth, Enabled, IsAdmin, IsStaff, Granted, RolesOf, Can
<1> QED
  BY <1>1 DEF Knows

LEMMA BeginKnows ==
  ASSUME TypeOK, NEW c \in Reader, BeginCheck(c) \/ BeginMe(c)
  PROVE  Knows(c)'
<1>1. CASE BeginCheck(c)
  <2>1. reader'[c].at = "check" /\ reader'[c].base = base /\ base' = base
    BY <1>1 DEF TypeOK, BeginCheck, Resting, truth
  <2> QED
    BY <2>1 DEF Knows
<1>2. CASE BeginMe(c)
  <2>1. reader'[c].at = "me" /\ reader'[c].base = base /\ base' = base
    BY <1>2 DEF TypeOK, BeginMe, Resting, truth
  <2> QED
    BY <2>1 DEF Knows
<1> QED
  BY <1>1, <1>2

(* A request's step touches no table and no other request. *)
LEMMA ReaderOnly ==
  ASSUME TypeOK, NEW c \in Reader, ReaderStep(c) \/ BeginCheck(c) \/ BeginMe(c)
  PROVE  /\ UNCHANGED truth /\ UNCHANGED assign
         /\ \A d \in Reader : d # c => reader'[d] = reader[d]
         /\ calm' \subseteq calm \cup {c}
  BY DEF TypeOK, BeginCheck, BeginMe, ReaderStep, CheckFeature, CheckAdmin, CheckRoles, CheckMap, EndCheck,
         MeAdmin, MeFeatures, MeMap, MeWrite, Go, Decide, Reads

LEMMA ReaderKnows ==
  ASSUME TypeOK, CalmReaders, NEW c \in Reader, ReaderStep(c) \/ BeginCheck(c) \/ BeginMe(c)
  PROVE  CalmReaders'
<1> SUFFICES ASSUME NEW d \in calm' \cap Reader PROVE Knows(d)'
  BY DEF CalmReaders
<1>1. CASE d # c
  <2>1. Knows(d) /\ UNCHANGED truth /\ reader'[d] = reader[d]
    BY <1>1, ReaderOnly DEF CalmReaders
  <2> QED
    BY <2>1, KnowsStays
<1>2. CASE d = c /\ (BeginCheck(c) \/ BeginMe(c))
  BY <1>2, BeginKnows
<1>3. CASE d = c /\ ReaderStep(c)
  <2>1. c \in calm
    BY <1>3 DEF ReaderStep, CheckFeature, CheckAdmin, CheckRoles, CheckMap, EndCheck,
                MeAdmin, MeFeatures, MeMap, MeWrite, Reads
  <2> QED
    BY <1>3, <2>1, OwnStep DEF CalmReaders
<1> QED
  BY <1>1, <1>2, <1>3

(* Every other step either empties calm or leaves the tables alone. *)
LEMMA OtherSteps ==
  ASSUME TypeOK, [Next]_vars
  PROVE  \/ calm' = {}
         \/ \E c \in Reader : ReaderStep(c) \/ BeginCheck(c) \/ BeginMe(c)
         \/ \E a \in Assign : AssignStep(a) /\ ~Flush(a)
         \/ UNCHANGED <<truth, reader, assign, calm>>
<1>1. CASE UNCHANGED vars
  BY <1>1 DEF vars, truth
<1>2. ASSUME NEW a \in Assign, Flush(a) PROVE calm' = {}
  BY <1>2 DEF Flush
<1>3. ASSUME NEW i \in Accept, InsertRow(i) PROVE calm' = {}
  BY <1>3 DEF InsertRow
<1>4. ASSUME NEW i \in Accept, LookForRow(i) PROVE UNCHANGED <<truth, reader, assign, calm>>
  BY <1>4 DEF LookForRow, truth
<1>5. ASSUME NEW u \in User, Expire(u) PROVE UNCHANGED <<truth, reader, assign, calm>>
  BY <1>5 DEF Expire, truth
<1>6. ASSUME Edit PROVE calm' = {}
  BY <1>6 DEF Edit
<1> QED
  BY <1>1, <1>2, <1>3, <1>4, <1>5, <1>6
     DEF Next, UpdateRole, RemoveRole, SetFeature, SyncTenantFeatures, Subscribe

LEMMA AssignOnly ==
  ASSUME TypeOK, NEW a \in Assign, AssignStep(a), ~Flush(a)
  PROVE  /\ UNCHANGED truth /\ UNCHANGED reader
         /\ \A b \in Assign : b # a => assign'[b] = assign[b]
         /\ calm' \subseteq calm \cup {a}
  BY DEF TypeOK, AssignStep, Ask, Look, CountAdmins, FlushFails, Invalidate, Step

LEMMA ReadersNext == TypeOK /\ CalmReaders /\ [Next]_vars => CalmReaders'
<1> SUFFICES ASSUME TypeOK, CalmReaders, [Next]_vars PROVE CalmReaders'
  OBVIOUS
<1>1. CASE calm' = {}
  BY <1>1 DEF CalmReaders
<1>2. CASE UNCHANGED <<truth, reader, assign, calm>>
  BY <1>2, KnowsStays DEF CalmReaders
<1>3. ASSUME NEW a \in Assign, AssignStep(a), ~Flush(a) PROVE CalmReaders'
  <2>1. a \notin Reader
    BY AccessAssumption
  <2> QED
    BY <1>3, <2>1, AssignOnly, KnowsStays DEF CalmReaders
<1> QED
  BY <1>1, <1>2, <1>3, OtherSteps, ReaderKnows

(* A check decides, and a profile is, what the tables say, however many     *)
(* queries rbac.service.ts takes, if nothing was written in between.        *)
THEOREM ReadsAgree == Spec => []ReadsFitTogether
<1>1. Init => CalmReaders
  BY DEF Init, CalmReaders
<1>2. TypeOK /\ CalmReaders => ReadsFitTogether
  <2> SUFFICES ASSUME CalmReaders, NEW c \in calm \cap Reader
               PROVE  /\ reader[c].at = "decided" => reader[c].granted = Can(ReaderOf[c])
                      /\ reader[c].at = "me write" => Answer(c) = ProfileOf(ReaderOf[c])
    BY DEF ReadsFitTogether
  <2> QED
    BY DEF CalmReaders, Knows, Answer, ProfileOf
<1> QED
  BY <1>1, <1>2, TypeCorrect, ReadersNext, PTL DEF Spec

----------------------------------------------------------------------------
(* An administrator remains. *)

LEMMA AllowedStays ==
  ASSUME NEW a \in Assign, Allowed(a), UNCHANGED truth, assign'[a] = assign[a]
  PROVE  Allowed(a)'
<1>1. ExistingOf(Subject[a])' = ExistingOf(Subject[a]) /\ IsLastAdmin(a)' = IsLastAdmin(a)
  BY DEF truth, ExistingOf, IsLastAdmin, OneRow, AdminRows
<1> QED
  BY <1>1 DEF Allowed

LEMMA OwnAllowed ==
  ASSUME TypeOK, NEW a \in Assign, AssignStep(a), ~Flush(a), a \in calm => Allowed(a), a \in calm'
  PROVE  Allowed(a)'
<1>1. UNCHANGED truth
  BY AssignOnly
<1>2. ExistingOf(Subject[a])' = ExistingOf(Subject[a]) /\ AdminRows' = AdminRows
  BY <1>1 DEF truth, ExistingOf, AdminRows
<1>3. CASE Look(a)
  BY <1>2, <1>3 DEF Look, Allowed, TypeOK
<1>4. CASE CountAdmins(a)
  <2>1. Allowed(a) /\ assign'[a].existing = assign[a].existing /\ assign[a].at = "looked"
        /\ assign'[a].at = IF IsLastAdmin(a) THEN "done" ELSE "allowed"
    BY <1>4 DEF CountAdmins, Step, TypeOK
  <2>2. IsLastAdmin(a)' <=> IsLastAdmin(a)
    BY <1>2, <2>1 DEF IsLastAdmin, OneRow
  <2> QED
    BY <1>2, <2>1, <2>2 DEF Allowed
<1>5. CASE Ask(a) \/ FlushFails(a) \/ Invalidate(a)
  <2>1. assign'[a].at \in {"asked", "done"}
    BY <1>5 DEF Ask, FlushFails, Invalidate, Step, TypeOK
  <2> QED
    BY <2>1 DEF Allowed
<1> QED
  BY <1>3, <1>4, <1>5 DEF AssignStep

LEMMA AssignsNext == TypeOK /\ CalmAssigns /\ [Next]_vars => CalmAssigns'
<1> SUFFICES ASSUME TypeOK, CalmAssigns, [Next]_vars PROVE CalmAssigns'
  OBVIOUS
<1>1. CASE calm' = {}
  BY <1>1 DEF CalmAssigns
<1>2. CASE UNCHANGED <<truth, reader, assign, calm>>
  BY <1>2, AllowedStays DEF CalmAssigns
<1>3. ASSUME NEW c \in Reader, ReaderStep(c) \/ BeginCheck(c) \/ BeginMe(c) PROVE CalmAssigns'
  <2>1. c \notin Assign
    BY AccessAssumption
  <2> QED
    BY <1>3, <2>1, ReaderOnly, AllowedStays DEF CalmAssigns
<1>4. ASSUME NEW a \in Assign, AssignStep(a), ~Flush(a) PROVE CalmAssigns'
  <2> SUFFICES ASSUME NEW b \in calm' \cap Assign PROVE Allowed(b)'
    BY DEF CalmAssigns
  <2>1. CASE b = a
    BY <1>4, <2>1, OwnAllowed DEF CalmAssigns
  <2>2. CASE b # a
    BY <1>4, <2>2, AssignOnly, AllowedStays DEF CalmAssigns
  <2> QED
    BY <2>1, <2>2
<1> QED
  BY <1>1, <1>2, <1>3, <1>4, OtherSteps

(* The rows of an administrator: the role is a system role, never archived. *)
LEMMA AdminRow ==
  ASSUME TypeOK, NEW u \in User
  PROVE  IsAdmin(u) <=> \E r \in AdminRows : r.user = u
<1>1. "admin" \notin archived
  BY AccessAssumption DEF TypeOK
<1> QED
  BY <1>1 DEF IsAdmin, RolesOf, AdminRows

LEMMA FlushKeepsOne ==
  ASSUME TypeOK, CalmAssigns, TypeOK', NEW a \in calm \cap Assign,
         Flush(a), Actor[a] = Subject[a], NoTwins, Admins # {}
  PROVE  Admins' # {}
<1>1. /\ assign[a].existing = ExistingOf(Subject[a]) /\ ~IsLastAdmin(a)
      /\ rows' = (rows \ assign[a].existing) \cup Made(a) /\ archived' = archived
  BY DEF CalmAssigns, Allowed, Flush
<1>2. \A r \in rows : r.user \in User
  BY DEF TypeOK, Row
<1>3. ASSUME NEW r \in AdminRows, r \in rows' PROVE Admins' # {}
  <2>1. r \in AdminRows' /\ r.user \in User
    BY <1>2, <1>3 DEF AdminRows
  <2>2. IsAdmin(r.user)'
    <3>1. "admin" \notin archived'
      BY AccessAssumption DEF TypeOK
    <3> QED
      BY <2>1, <3>1 DEF IsAdmin, RolesOf, AdminRows
  <2> QED
    BY <2>1, <2>2 DEF Admins
<1>4. CASE "admin" \in Given[a]
  <2> DEFINE r == [user |-> Subject[a], role |-> "admin", by |-> a]
  <2>1. r \in Made(a) /\ r \in rows'
    BY <1>1, <1>4 DEF Made
  <2>2. "admin" \notin archived' /\ Subject[a] \in User
    BY AccessAssumption DEF TypeOK
  <2>3. IsAdmin(Subject[a])'
    BY <2>1, <2>2 DEF IsAdmin, RolesOf
  <2> QED
    BY <2>2, <2>3 DEF Admins
<1>5. CASE \A r \in assign[a].existing : r.role # "admin"
  <2>1. PICK u \in User : IsAdmin(u)
    BY DEF Admins
  <2>2. PICK r \in AdminRows : r.user = u
    BY <2>1, AdminRow
  <2>3. r \in rows'
    BY <1>1, <1>5, <2>2 DEF AdminRows
  <2> QED
    BY <1>3, <2>3
<1>6. CASE ~OneRow
  <2>1. PICK r \in AdminRows, s \in AdminRows : r # s
    BY <1>6 DEF OneRow
  <2>2. r.user # s.user
    BY <2>1 DEF NoTwins
  <2>3. PICK q \in {r, s} : q.user # Subject[a]
    BY <2>2
  <2>4. q \in AdminRows /\ q \in rows'
    BY <1>1, <2>1, <2>3 DEF AdminRows, ExistingOf
  <2> QED
    BY <1>3, <2>4
<1> QED
  BY <1>1, <1>4, <1>5, <1>6 DEF IsLastAdmin

(* Stepping down leaves another administrator: replaceAssignments counts    *)
(* the rows it then writes by, if nothing changed in between.              *)
THEOREM OneRemains == Spec => AdminRemains
<1>1. Init => CalmAssigns
  BY DEF Init, CalmAssigns
<1> DEFINE Kept == \A a \in calm \cap Assign :
                     Flush(a) /\ Actor[a] = Subject[a] /\ NoTwins /\ Admins # {} => Admins' # {}
<1>2. TypeOK /\ TypeOK' /\ CalmAssigns /\ [Next]_vars => [Kept]_vars
  BY FlushKeepsOne
<1> QED
  BY <1>1, <1>2, TypeCorrect, AssignsNext, PTL DEF Spec, AdminRemains
=============================================================================
