-------------------------- MODULE OnboardingProofs --------------------------
(***************************************************************************)
(* Proofs about Onboarding, for any requests, owners and subdomains.  The   *)
(* inductive invariant ties three things together: how far a request is     *)
(* with its attempt and callbacks, the row of a subdomain with its token,   *)
(* and the agency of a subdomain with its row and its owner's account.     *)
(***************************************************************************)
EXTENDS Onboarding, TLAPS

Requests ==
    \A r \in Request :
        /\ request[r].stage # "new" => request[r].slug \in Slug
        /\ attempt[r] # "none" => request[r].stage \in {"open", "answered", "failed"}
        /\ r \in due => r \in charged /\ attempt[r] # "none"

Rows ==
    \A s \in Slug :
        /\ signup[s].state # "none" => signup[s].by \in Request
        /\ signup[s].token # None => signup[s].token = signup[s].by

Agencies ==
    \A s \in Slug :
        /\ tenant[s] \in Request <=> signup[s].state = "provisioned"
        /\ signup[s].state = "provisioned" => tenant[s] = signup[s].by
        /\ tenant[s] \in Request => owner[tenant[s]] \in users
        /\ tenant[s] \in Request /\ signup[s].mode = "trial" => tenant[s] \in verified

IInv == TypeOK /\ Requests /\ Rows /\ Agencies /\ OneAgencyPerOwner

RequestRecord ==
    [stage : Stage, slug : Slug \cup {None}, mode : {"trial", "paid"}, sawStale : BOOLEAN]
SignupRecord ==
    [state : {"none", "pending", "provisioned", "failed", "expired"}, by : Request \cup {None},
     mode : {"trial", "paid"}, token : Request \cup {None}, tranId : Request \cup {None}, stale : BOOLEAN]

----------------------------------------------------------------------------
LEMMA InitInvariant == Init => IInv
<1> SUFFICES ASSUME Init PROVE IInv
  OBVIOUS
<1> USE NameAssumption DEF Init
<1>1. TypeOK
  BY DEF TypeOK, NewRequest, NoSignup, Stage
<1>2. Requests /\ Rows
  BY DEF Requests, Rows, NewRequest, NoSignup
<1>3. Agencies /\ OneAgencyPerOwner
  BY DEF Agencies, OneAgencyPerOwner, NoSignup
<1> QED
  BY <1>1, <1>2, <1>3 DEF IInv

(* Steps of start and of the gateway that touch no row and no agency. *)
LEMMA Apart ==
  ASSUME IInv, UNCHANGED <<owner, signup, agencies>>, TypeOK', Requests'
  PROVE  IInv'
<1>1. Rows' /\ Agencies' /\ OneAgencyPerOwner'
  BY DEF IInv, Rows, Agencies, OneAgencyPerOwner, agencies
<1> QED
  BY <1>1 DEF IInv

(* How far start has got. *)
LEMMA GotoType ==
  ASSUME TypeOK, NEW r \in Request, NEW stage \in Stage, Goto(r, stage)
  PROVE  /\ request' \in [Request -> RequestRecord]
         /\ request'[r].stage = stage /\ request'[r].slug = request[r].slug
         /\ \A q \in Request : q # r => request'[q] = request[q]
<1>1. request \in [Request -> RequestRecord]
  BY DEF TypeOK, RequestRecord
<1>2. [request[r] EXCEPT !.stage = stage] \in RequestRecord
  BY <1>1 DEF RequestRecord
<1> QED
  BY <1>1, <1>2 DEF Goto, RequestRecord

LEMMA GotoRequests ==
  ASSUME IInv, NEW r \in Request, NEW stage \in Stage, Goto(r, stage), UNCHANGED <<attempt, charged, due>>,
         request[r].stage # "new",
         attempt[r] # "none" => stage \in {"open", "answered", "failed"}
  PROVE  Requests'
  BY GotoType DEF IInv, Requests

LEMMA StartSteps ==
  ASSUME IInv, NEW r \in Request,
         SendVerification(r) \/ OpenSession(r) \/ StartFails(r)
  PROVE  IInv'
<1>1. PICK stage \in {"session", "answered", "failed"} : Goto(r, stage)
  BY DEF SendVerification, OpenSession, StartFails
<1>2. /\ UNCHANGED <<owner, signup, agencies, payments>> /\ request[r].stage # "new"
      /\ attempt[r] # "none" => stage \in {"open", "answered", "failed"}
  <2>1. CASE OpenSession(r)
    BY <2>1 DEF OpenSession, IInv, Requests
  <2>2. CASE SendVerification(r) \/ StartFails(r)
    <3>1. request'[r].stage \in {"answered", "failed"}
      BY <2>2, GotoType DEF SendVerification, StartFails, IInv, Stage
    <3>2. request'[r].stage = stage
      BY <1>1, GotoType DEF IInv, Stage
    <3> QED
      BY <2>2, <3>1, <3>2 DEF SendVerification, StartFails
  <2> QED
    BY <2>1, <2>2
<1>3. stage \in Stage
  BY DEF Stage
<1>4. Requests'
  BY <1>1, <1>2, <1>3, GotoRequests DEF payments
<1>5. TypeOK'
  BY <1>1, <1>2, <1>3, GotoType DEF IInv, TypeOK, RequestRecord, agencies, payments
<1> QED
  BY <1>2, <1>4, <1>5, Apart

LEMMA CheckSteps ==
  ASSUME IInv, NEW r \in Request, NEW s \in Slug, NEW mode \in {"trial", "paid"}, StartCheck(r, s, mode)
  PROVE  IInv'
<1>1. Stale(s) \in BOOLEAN
  BY Zenon DEF Stale
<1>2. [stage |-> "checked", slug |-> s, mode |-> mode, sawStale |-> Stale(s)] \in RequestRecord
  BY <1>1 DEF RequestRecord, Stage
<1>3. request' \in [Request -> RequestRecord]
  BY <1>2 DEF StartCheck, IInv, TypeOK, RequestRecord
<1>4. TypeOK'
  BY <1>3 DEF StartCheck, IInv, TypeOK, RequestRecord, agencies, payments
<1>5. Requests'
  BY DEF StartCheck, IInv, Requests, TypeOK, payments
<1> QED
  BY <1>4, <1>5, Apart DEF StartCheck

LEMMA StoreSteps == ASSUME IInv, NEW r \in Request, StoreAttempt(r) PROVE IInv'
<1>0. Goto(r, "open") /\ "open" \in Stage
  BY DEF StoreAttempt, Stage
<1>1. TypeOK'
  BY <1>0, GotoType DEF StoreAttempt, IInv, TypeOK, RequestRecord, agencies
<1>2. Requests'
  BY <1>0, GotoType DEF StoreAttempt, IInv, Requests, TypeOK
<1> QED
  BY <1>1, <1>2, Apart DEF StoreAttempt

(* The customer pays and the gateway calls back. *)
LEMMA GatewaySteps ==
  ASSUME IInv, NEW r \in Request,
         Pay(r) \/ FailedCallback(r) \/ SuccessCallback(r) \/ CallbackDies(r)
  PROVE  IInv'
<1> UNCHANGED <<owner, request, signup, agencies, acked>>
  BY DEF Pay, FailedCallback, SuccessCallback, CallbackDies
<1>1. CASE Pay(r)
  <2>1. TypeOK' /\ Requests'
    BY <1>1 DEF Pay, IInv, TypeOK, Requests, agencies
  <2> QED
    BY <2>1, Apart
<1>2. CASE FailedCallback(r)
  <2>1. TypeOK' /\ Requests'
    BY <1>2 DEF FailedCallback, Open, IInv, TypeOK, Requests, agencies
  <2> QED
    BY <2>1, Apart
<1>3. CASE SuccessCallback(r)
  <2>1. TypeOK' /\ Requests'
    BY <1>3 DEF SuccessCallback, Answerable, Verified, IInv, TypeOK, Requests, agencies
  <2> QED
    BY <2>1, Apart
<1>4. CASE CallbackDies(r)
  <2>1. TypeOK' /\ Requests'
    BY <1>4 DEF CallbackDies, IInv, TypeOK, Requests, agencies
  <2> QED
    BY <2>1, Apart
<1> QED
  BY <1>1, <1>2, <1>3, <1>4

----------------------------------------------------------------------------
(* Rows. *)
LEMMA ReserveSteps == ASSUME IInv, NEW r \in Request, Reserve(r) PROVE IInv'
<1> DEFINE s == request[r].slug
<1>0. /\ request[r].stage = "checked" /\ s \in Slug /\ s # None
      /\ UNCHANGED <<owner, agencies, payments>>
  BY NameAssumption DEF Reserve, IInv, Requests
<1>1. CASE Taken(r)
  <2>1. Goto(r, "failed") /\ "failed" \in Stage /\ UNCHANGED signup
    BY <1>1 DEF Reserve, Stage
  <2>2. TypeOK' /\ Requests'
    BY <1>0, <2>1, GotoType DEF IInv, TypeOK, Requests, RequestRecord, agencies, payments
  <2> QED
    BY <1>0, <2>1, <2>2, Apart
<1>2. CASE ~Taken(r)
  <2> DEFINE row == [state |-> "pending", by |-> r, mode |-> request[r].mode,
                     token |-> IF request[r].mode = "trial" THEN r ELSE None,
                     tranId |-> None, stale |-> FALSE]
  <2>1. Goto(r, "reserved") /\ "reserved" \in Stage /\ signup' = [signup EXCEPT ![s] = row]
    BY <1>2 DEF Reserve, Stage
  <2>2. tenant[s] \notin Request
    BY <1>0, <1>2, NameAssumption DEF Taken, IInv, Agencies
  <2>3. row \in SignupRecord
    BY DEF IInv, TypeOK, SignupRecord
  <2>4. /\ signup \in [Slug -> SignupRecord]
        /\ signup'[s] = row
        /\ \A t \in Slug : t # s => signup'[t] = signup[t]
    BY <1>0, <2>1 DEF IInv, TypeOK, SignupRecord
  <2>5. signup' \in [Slug -> SignupRecord]
    BY <1>0, <2>1, <2>3, <2>4
  <2>6. TypeOK'
    BY <1>0, <2>1, <2>5, GotoType DEF IInv, TypeOK, RequestRecord, SignupRecord, agencies, payments
  <2>7. Requests'
    BY <1>0, <2>1, GotoType DEF IInv, Requests, payments
  <2>8. Rows'
    BY <2>4 DEF IInv, Rows
  <2>9. Agencies' /\ OneAgencyPerOwner'
    <3>1. UNCHANGED <<owner, tenant, users, verified>>
      BY <1>0 DEF agencies
    <3> QED
      BY <2>2, <2>4, <3>1 DEF IInv, Agencies, OneAgencyPerOwner
  <2> QED
    BY <2>6, <2>7, <2>8, <2>9 DEF IInv
<1> QED
  BY <1>1, <1>2

(* Steps that touch one row and leave its state, request, token and mode.   *)
LEMMA RowKept ==
  ASSUME IInv, TypeOK', Requests', UNCHANGED <<owner, agencies>>,
         \A s \in Slug : /\ signup'[s].state = signup[s].state /\ signup'[s].by = signup[s].by
                         /\ signup'[s].mode = signup[s].mode /\ signup'[s].token = signup[s].token
  PROVE  IInv'
<1>1. UNCHANGED <<owner, tenant, users, verified>>
  BY DEF agencies
<1>2. Rows' /\ Agencies' /\ OneAgencyPerOwner'
  BY <1>1 DEF IInv, Rows, Agencies, OneAgencyPerOwner
<1> QED
  BY <1>2 DEF IInv

LEMMA TranIdSteps == ASSUME IInv, NEW r \in Request, WriteTranId(r) PROVE IInv'
<1>1. Goto(r, "answered") /\ "answered" \in Stage /\ request[r].stage = "open"
  BY DEF WriteTranId, Stage
<1>2. TypeOK'
  <2>1. request' \in [Request -> RequestRecord]
    BY <1>1, GotoType DEF IInv
  <2>2. signup \in [Slug -> SignupRecord]
    BY DEF IInv, TypeOK, SignupRecord
  <2>3. [signup[request[r].slug] EXCEPT !.tranId = r] \in SignupRecord
    BY <1>1, <2>2 DEF IInv, Requests, SignupRecord
  <2>4. signup' \in [Slug -> SignupRecord]
    BY <2>2, <2>3 DEF WriteTranId
  <2> QED
    BY <2>1, <2>4 DEF WriteTranId, IInv, TypeOK, RequestRecord, SignupRecord, agencies, payments
<1>3. Requests'
  BY <1>1, GotoRequests DEF WriteTranId, payments
<1>4. \A s \in Slug : /\ signup'[s].state = signup[s].state /\ signup'[s].by = signup[s].by
                      /\ signup'[s].mode = signup[s].mode /\ signup'[s].token = signup[s].token
  BY DEF WriteTranId, IInv, TypeOK
<1> QED
  BY <1>2, <1>3, <1>4, RowKept DEF WriteTranId

LEMMA DeadlineSteps == ASSUME IInv, NEW s \in Slug, DeadlinePasses(s) PROVE IInv'
<1>1. TypeOK' /\ Requests'
  <2>1. signup \in [Slug -> SignupRecord]
    BY DEF IInv, TypeOK, SignupRecord
  <2>2. [signup[s] EXCEPT !.stale = TRUE] \in SignupRecord
    BY <2>1 DEF SignupRecord
  <2>3. signup' \in [Slug -> SignupRecord]
    BY <2>1, <2>2 DEF DeadlinePasses
  <2> QED
    BY <2>3 DEF DeadlinePasses, IInv, TypeOK, Requests, SignupRecord, agencies, payments
<1>2. \A t \in Slug : /\ signup'[t].state = signup[t].state /\ signup'[t].by = signup[t].by
                      /\ signup'[t].mode = signup[t].mode /\ signup'[t].token = signup[t].token
  BY DEF DeadlinePasses, IInv, TypeOK
<1> QED
  BY <1>1, <1>2, RowKept DEF DeadlinePasses

----------------------------------------------------------------------------
(* Agencies. *)

(* A pending row of a free subdomain becomes an agency: its owner had no    *)
(* account, so no other agency is theirs.                                  *)
LEMMA FulfillSteps ==
  ASSUME IInv, NEW s \in Slug, Fulfill(s), Pending(s), tenant[s] = None,
         UNCHANGED <<owner, request, attempt, charged>>,
         due' \subseteq due, acked' \subseteq charged,
         verified' \subseteq Request, verified \subseteq verified',
         signup[s].mode = "trial" => signup[s].by \in verified'
  PROVE  IInv'
<1> DEFINE by == signup[s].by
<1>0. by \in Request /\ owner[by] \in Owner /\ tenant[s] \notin Request
  BY NameAssumption DEF IInv, Rows, TypeOK, Pending
<1>1. /\ tenant' = [tenant EXCEPT ![s] = by]
      /\ users' = users \cup {owner[by]}
      /\ signup' = [signup EXCEPT ![s].state = "provisioned", ![s].token = None, ![s].stale = FALSE]
      /\ owner[by] \notin users
  BY DEF Fulfill, EmailFree
<1>2. /\ tenant'[s] = by
      /\ \A t \in Slug : t # s => tenant'[t] = tenant[t]
  BY <1>1 DEF IInv, TypeOK
<1>3. /\ signup'[s].state = "provisioned" /\ signup'[s].token = None
      /\ signup'[s].by = by /\ signup'[s].mode = signup[s].mode
      /\ \A t \in Slug : t # s => signup'[t] = signup[t]
  BY <1>1 DEF IInv, TypeOK
<1>4. TypeOK'
  <2> DEFINE row == [signup[s] EXCEPT !.state = "provisioned", !.token = None, !.stale = FALSE]
  <2>1. signup \in [Slug -> SignupRecord]
    BY DEF IInv, TypeOK, SignupRecord
  <2>2. row \in SignupRecord
    <3>1. signup[s] \in SignupRecord
      BY <2>1
    <3> HIDE DEF by
    <3>2. [signup[s] EXCEPT !.state = "provisioned"] \in SignupRecord
      BY <3>1 DEF SignupRecord
    <3>3. [[signup[s] EXCEPT !.state = "provisioned"] EXCEPT !.token = None] \in SignupRecord
      BY <3>2 DEF SignupRecord
    <3>4. [[[signup[s] EXCEPT !.state = "provisioned"] EXCEPT !.token = None] EXCEPT !.stale = FALSE]
            \in SignupRecord
      BY <3>3 DEF SignupRecord
    <3> QED
      BY <3>4
  <2>3. signup' = [signup EXCEPT ![s] = row]
    BY <1>1
  <2>4. signup' \in [Slug -> SignupRecord]
    BY <2>1, <2>2, <2>3
  <2>5. tenant' \in [Slug -> Request \cup {None, Staff}] /\ users' \subseteq Owner
    BY <1>0, <1>1 DEF IInv, TypeOK
  <2>6. due' \subseteq Request /\ acked' \subseteq charged'
    BY DEF IInv, TypeOK
  <2> QED
    BY <2>4, <2>5, <2>6 DEF IInv, TypeOK, SignupRecord
<1>5. Requests'
  BY DEF IInv, Requests
<1>6. Rows'
  BY <1>0, <1>3 DEF IInv, Rows
<1>7. Agencies'
  <2>1. SUFFICES ASSUME NEW t \in Slug
                 PROVE  /\ tenant'[t] \in Request <=> signup'[t].state = "provisioned"
                        /\ signup'[t].state = "provisioned" => tenant'[t] = signup'[t].by
                        /\ tenant'[t] \in Request => owner[tenant'[t]] \in users'
                        /\ tenant'[t] \in Request /\ signup'[t].mode = "trial" => tenant'[t] \in verified'
    BY DEF Agencies
  <2>2. CASE t = s
    BY <1>0, <1>1, <1>2, <1>3, <2>2
  <2>3. CASE t # s
    <3>1. tenant'[t] = tenant[t] /\ signup'[t] = signup[t]
      BY <1>2, <1>3, <2>3
    <3>2. users \subseteq users'
      BY <1>1
    <3>3. /\ tenant[t] \in Request <=> signup[t].state = "provisioned"
          /\ signup[t].state = "provisioned" => tenant[t] = signup[t].by
          /\ tenant[t] \in Request => owner[tenant[t]] \in users
          /\ tenant[t] \in Request /\ signup[t].mode = "trial" => tenant[t] \in verified
      BY DEF IInv, Agencies
    <3> QED
      BY <3>1, <3>2, <3>3
  <2> QED
    BY <2>2, <2>3
<1>8. OneAgencyPerOwner'
  <2>1. \A t \in Slug : tenant[t] \in Request => owner[tenant[t]] # owner[by]
    BY <1>1 DEF IInv, Agencies
  <2>2. ASSUME NEW t \in Slug, NEW u \in Slug, t # u, {tenant'[t], tenant'[u]} \subseteq Request
        PROVE  owner'[tenant'[t]] # owner'[tenant'[u]]
    <3>1. CASE t = s
      BY <1>2, <2>1, <2>2, <3>1
    <3>2. CASE u = s
      BY <1>2, <2>1, <2>2, <3>2
    <3>3. CASE t # s /\ u # s
      BY <1>2, <2>2, <3>3 DEF IInv, OneAgencyPerOwner
    <3> QED
      BY <3>1, <3>2, <3>3
  <2> QED
    BY <2>2 DEF OneAgencyPerOwner
<1> QED
  BY <1>4, <1>5, <1>6, <1>7, <1>8 DEF IInv

LEMMA ConfirmSteps == ASSUME IInv, NEW r \in Request, ConfirmVerification(r) PROVE IInv'
<1>1. PICK s \in Slug : /\ signup[s].token = r /\ signup[s].mode = "trial" /\ Live(s)
                       /\ tenant[s] = None /\ Fulfill(s)
  BY DEF ConfirmVerification
<1>2. signup[s].by = r /\ Pending(s)
  BY <1>1, NameAssumption DEF IInv, Rows, Live
<1>3. verified' = verified \cup {r} /\ UNCHANGED <<owner, request, attempt, charged, due, acked>>
  BY DEF ConfirmVerification, payments
<1> QED
  BY <1>1, <1>2, <1>3, FulfillSteps DEF IInv, TypeOK

LEMMA CompleteSteps == ASSUME IInv, NEW r \in Request, CompletePaid(r) PROVE IInv'
<1> DEFINE s == request[r].slug
<1>0. /\ r \in due /\ r \in charged /\ s \in Slug
      /\ due' = due \ {r}
      /\ UNCHANGED <<owner, request, verified, attempt, charged>>
  BY DEF CompletePaid, IInv, Requests
<1>1. acked' \subseteq charged
  BY <1>0 DEF CompletePaid, IInv, TypeOK
<1>2. Requests'
  BY <1>0 DEF IInv, Requests
<1>3. CASE UNCHANGED <<signup, tenant, users>>
  <2>1. TypeOK'
    BY <1>0, <1>1, <1>3 DEF IInv, TypeOK
  <2> QED
    BY <1>0, <1>2, <1>3, <2>1, Apart DEF agencies
<1>4. ASSUME Pending(s), UNCHANGED <<tenant, users>>,
             \/ signup' = [signup EXCEPT ![s].state = "expired", ![s].token = None]
             \/ signup' = [signup EXCEPT ![s].state = "failed"]
      PROVE  IInv'
  <2>1. /\ signup'[s].state \in {"expired", "failed"}
        /\ signup'[s].token \in {signup[s].token, None}
        /\ signup'[s].by = signup[s].by
        /\ \A t \in Slug : t # s => signup'[t] = signup[t]
    BY <1>0, <1>4 DEF IInv, TypeOK
  <2>2. signup' \in [Slug -> SignupRecord]
    <3>1. signup \in [Slug -> SignupRecord]
      BY DEF IInv, TypeOK, SignupRecord
    <3>2. /\ [signup[s] EXCEPT !.state = "expired", !.token = None] \in SignupRecord
          /\ [signup[s] EXCEPT !.state = "failed"] \in SignupRecord
      BY <1>0, <3>1 DEF SignupRecord
    <3>3. CASE signup' = [signup EXCEPT ![s].state = "expired", ![s].token = None]
      <4>1. signup' = [signup EXCEPT ![s] = [signup[s] EXCEPT !.state = "expired", !.token = None]]
        BY <3>3
      <4> QED
        BY <3>1, <3>2, <4>1
    <3>4. CASE signup' = [signup EXCEPT ![s].state = "failed"]
      BY <3>1, <3>2, <3>4
    <3> QED
      BY <1>4, <3>3, <3>4
  <2>3. TypeOK'
    BY <1>0, <1>1, <1>4, <2>2 DEF IInv, TypeOK, SignupRecord
  <2>4. Rows'
    BY <1>0, <1>4, <2>1 DEF IInv, Rows, Pending
  <2>5. Agencies' /\ OneAgencyPerOwner'
    BY <1>0, <1>4, <2>1 DEF IInv, Agencies, OneAgencyPerOwner, Pending
  <2> QED
    BY <1>2, <2>3, <2>4, <2>5 DEF IInv
<1>5. CASE Payable(s) /\ tenant[s] = None /\ Fulfill(s)
  BY <1>0, <1>1, <1>5, FulfillSteps DEF Payable, IInv, TypeOK
<1> QED
  BY <1>0, <1>3, <1>4, <1>5 DEF CompletePaid, Payable

(* Agencies and accounts that no signup made. *)
LEMMA OtherSteps ==
  ASSUME IInv, (\E s \in Slug : CreateTenant(s)) \/ (\E o \in Owner : AcceptInvite(o))
  PROVE  IInv'
<1>1. ASSUME NEW s \in Slug, CreateTenant(s) PROVE IInv'
  <2>1. TypeOK' /\ Requests' /\ Rows'
    BY <1>1 DEF CreateTenant, IInv, TypeOK, Requests, Rows, payments
  <2>2. /\ tenant'[s] = Staff /\ tenant[s] = None
        /\ \A t \in Slug : t # s => tenant'[t] = tenant[t]
        /\ UNCHANGED <<owner, signup, users, verified>>
    BY <1>1 DEF CreateTenant, IInv, TypeOK
  <2>3. Agencies' /\ OneAgencyPerOwner'
    BY <2>2, NameAssumption DEF IInv, Agencies, OneAgencyPerOwner
  <2> QED
    BY <2>1, <2>3 DEF IInv
<1>2. ASSUME NEW o \in Owner, AcceptInvite(o) PROVE IInv'
  <2>1. TypeOK' /\ Requests' /\ Rows'
    BY <1>2 DEF AcceptInvite, IInv, TypeOK, Requests, Rows, payments
  <2>2. Agencies' /\ OneAgencyPerOwner'
    BY <1>2 DEF AcceptInvite, IInv, Agencies, OneAgencyPerOwner
  <2> QED
    BY <2>1, <2>2 DEF IInv
<1> QED
  BY <1>1, <1>2

----------------------------------------------------------------------------
LEMMA NextInvariant == IInv /\ [Next]_vars => IInv'
<1> SUFFICES ASSUME IInv, [Next]_vars PROVE IInv'
  OBVIOUS
<1>1. CASE UNCHANGED vars
  <2>1. TypeOK' /\ Requests'
    BY <1>1 DEF vars, agencies, payments, IInv, TypeOK, Requests
  <2> QED
    BY <1>1, <2>1, Apart DEF vars
<1>2. CASE Next
  <2>1. ASSUME NEW r \in Request, NEW s \in Slug, NEW mode \in {"trial", "paid"}, StartCheck(r, s, mode)
        PROVE  IInv'
    BY <2>1, CheckSteps
  <2>2. ASSUME NEW r \in Request,
               \/ Reserve(r) \/ SendVerification(r) \/ OpenSession(r) \/ StoreAttempt(r)
               \/ WriteTranId(r) \/ StartFails(r)
        PROVE  IInv'
    BY <2>2, ReserveSteps, StartSteps, StoreSteps, TranIdSteps
  <2>3. ASSUME NEW r \in Request,
               \/ Pay(r) \/ FailedCallback(r) \/ SuccessCallback(r) \/ CallbackDies(r)
        PROVE  IInv'
    BY <2>3, GatewaySteps
  <2>4. ASSUME NEW r \in Request, ConfirmVerification(r) \/ CompletePaid(r) PROVE IInv'
    BY <2>4, ConfirmSteps, CompleteSteps
  <2>5. ASSUME NEW s \in Slug, DeadlinePasses(s) PROVE IInv'
    BY <2>5, DeadlineSteps
  <2> QED
    BY <1>2, <2>1, <2>2, <2>3, <2>4, <2>5, OtherSteps DEF Next
<1> QED
  BY <1>1, <1>2

LEMMA Invariant == Spec => []IInv
  BY InitInvariant, NextInvariant, PTL DEF Spec

(* The states of requests, rows, agencies and attempts have their types,    *)
(* and the gateway is only ever answered for a payment that was made.      *)
THEOREM TypeCorrect == Spec => []TypeOK
<1>1. IInv => TypeOK
  BY DEF IInv
<1> QED
  BY <1>1, Invariant, PTL

(* However many signups and invitations of one email run at once, at most   *)
(* one of them makes an agency: EmailFree is looked at where it is written. *)
THEOREM OneEach == Spec => []OneAgencyPerOwner
<1>1. IInv => OneAgencyPerOwner
  BY DEF IInv
<1> QED
  BY <1>1, Invariant, PTL

(* The agency of a subdomain and its signup row are of one request: Reserve *)
(* after a late check, expiry and completePaid never write a row in use.   *)
THEOREM RowsMatch == Spec => []AgencyMatchesSignup
<1>1. IInv => AgencyMatchesSignup
  BY DEF IInv, Agencies, AgencyMatchesSignup
<1> QED
  BY <1>1, Invariant, PTL

(* Trial agencies are verified by their own token: a row found by a token   *)
(* is of the request the token was made for, and payments pass it by.      *)
THEOREM TrialsVerified == Spec => []TrialIsVerified
<1>1. IInv => TrialIsVerified
  BY DEF IInv, Agencies, TrialIsVerified
<1> QED
  BY <1>1, Invariant, PTL

(* No redirect, repeat or late start takes back a recorded success. *)
THEOREM SuccessStays == Spec => SuccessIsFinal
<1>1. IInv /\ [Next]_vars =>
        [\A r \in Request : attempt[r] = "success" => attempt'[r] = "success"]_vars
  <2> SUFFICES ASSUME IInv, Next, NEW q \in Request, attempt[q] = "success"
               PROVE  attempt'[q] = "success"
    OBVIOUS
  <2>1. ASSUME NEW r \in Request, StoreAttempt(r) PROVE attempt'[q] = "success"
    <3>1. r # q
      BY <2>1 DEF StoreAttempt, IInv, Requests
    <3> QED
      BY <2>1, <3>1 DEF StoreAttempt, IInv, TypeOK
  <2>2. ASSUME NEW r \in Request, FailedCallback(r) \/ SuccessCallback(r) PROVE attempt'[q] = "success"
    BY <2>2 DEF FailedCallback, SuccessCallback, Open, IInv, TypeOK
  <2>3. ASSUME NEW r \in Request,
               \/ \E s \in Slug, mode \in {"trial", "paid"} : StartCheck(r, s, mode)
               \/ Reserve(r) \/ SendVerification(r) \/ OpenSession(r) \/ WriteTranId(r)
               \/ StartFails(r) \/ ConfirmVerification(r) \/ Pay(r) \/ CallbackDies(r)
               \/ CompletePaid(r)
        PROVE  attempt' = attempt
    BY <2>3 DEF StartCheck, Reserve, SendVerification, OpenSession, WriteTranId, StartFails,
                ConfirmVerification, Pay, CallbackDies, CompletePaid, payments
  <2>4. ASSUME NEW s \in Slug, DeadlinePasses(s) \/ CreateTenant(s) PROVE attempt' = attempt
    BY <2>4 DEF DeadlinePasses, CreateTenant, payments
  <2>5. ASSUME NEW o \in Owner, AcceptInvite(o) PROVE attempt' = attempt
    BY <2>5 DEF AcceptInvite, payments
  <2> QED
    BY <2>1, <2>2, <2>3, <2>4, <2>5 DEF Next
<1> QED
  BY <1>1, Invariant, PTL DEF Spec, SuccessIsFinal
=============================================================================
