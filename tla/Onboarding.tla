---------------------------- MODULE Onboarding ----------------------------
(***************************************************************************)
(* Self-serve signup of agencies: a request reserves a subdomain, then an   *)
(* emailed token (trial) or a payment (paid) creates the agency.  Source:   *)
(* backend/src/platform/onboarding.service.ts and the platform side of      *)
(* backend/src/payments.                                                    *)
(*                                                                         *)
(* The first transaction of start reads before it locks, and the advisory   *)
(* lock of lockSlug is taken on a connection of its own, so it is gone      *)
(* before the next statement: the checks (StartCheck) and the write        *)
(* (Reserve) are two steps.  The other transactions lock the signup row    *)
(* first and are one action each.  There is at most one signup row per     *)
(* subdomain, as a later request reuses it.                                *)
(***************************************************************************)
EXTENDS FiniteSets

CONSTANTS
    Slug,     \* subdomains
    Owner,    \* email addresses
    Request,  \* calls of start, each with the token or payment attempt it makes
    Staff,    \* the creator of agencies that did not sign up themselves
    None

ASSUME NameAssumption == None \notin Request \cup Slug \cup {Staff} /\ Staff \notin Request

VARIABLES
    owner,     \* who makes a request
    request,   \* how far start has got
    signup,    \* the signup row of a subdomain
    tenant,    \* the signup request an agency was made from
    users,     \* email addresses with an account
    verified,  \* trial requests whose token was confirmed
    attempt,   \* the platform payment attempt of a request
    charged,   \* requests whose customer has paid at the gateway
    due,       \* callbacks between the commit of a success and completePaid
    acked      \* requests whose success the gateway has been answered

agencies == <<tenant, users, verified>>
payments == <<attempt, charged, due, acked>>
vars == <<owner, request, signup, agencies, payments>>

Stage == {"new", "checked", "reserved", "session", "open", "answered", "failed"}
NewRequest == [stage |-> "new", slug |-> None, mode |-> "trial", sawStale |-> FALSE]
NoSignup ==
    [state |-> "none", by |-> None, mode |-> "trial", token |-> None, tranId |-> None, stale |-> FALSE]

TypeOK ==
    /\ owner \in [Request -> Owner]
    /\ request \in [Request -> [stage : Stage, slug : Slug \cup {None}, mode : {"trial", "paid"},
                                sawStale : BOOLEAN]]
    /\ signup \in [Slug -> [state : {"none", "pending", "provisioned", "failed", "expired"},
                            by : Request \cup {None}, mode : {"trial", "paid"},
                            token : Request \cup {None}, tranId : Request \cup {None},
                            stale : BOOLEAN]]
    /\ tenant \in [Slug -> Request \cup {None, Staff}]
    /\ users \subseteq Owner
    /\ verified \subseteq Request
    /\ attempt \in [Request -> {"none", "pending", "failed", "success"}]
    /\ charged \subseteq Request /\ due \subseteq Request /\ acked \subseteq charged

Init ==
    /\ owner \in [Request -> Owner]
    /\ request = [r \in Request |-> NewRequest]
    /\ signup = [s \in Slug |-> NoSignup]
    /\ tenant = [s \in Slug |-> None]
    /\ users = {}
    /\ verified = {}
    /\ attempt = [r \in Request |-> "none"]
    /\ charged = {}
    /\ due = {}
    /\ acked = {}

Goto(r, stage) == request' = [request EXCEPT ![r].stage = stage]

Pending(s) == signup[s].state = "pending"
Live(s) == Pending(s) /\ ~signup[s].stale
Stale(s) == Pending(s) /\ signup[s].stale

----------------------------------------------------------------------------
(* start. *)

(* A stale reservation goes on to be expired by the same transaction; any   *)
(* other must be free of an agency and of a live reservation.              *)
StartCheck(r, s, mode) ==
    /\ request[r].stage = "new"
    /\ owner[r] \notin users
    /\ Stale(s) \/ (tenant[s] = None /\ ~Live(s))
    /\ request' = [request EXCEPT ![r] =
                      [stage |-> "checked", slug |-> s, mode |-> mode, sawStale |-> Stale(s)]]
    /\ UNCHANGED <<owner, signup, agencies, payments>>

\* Mutant of Taken: the row is written without another look.
NotTaken(r) == FALSE

(* Having expired the row, whatever it says by now, the transaction looks   *)
(* for an agency; having only read it, for a provisioned row.              *)
Taken(r) ==
    IF request[r].sawStale THEN tenant[request[r].slug] # None
    ELSE signup[request[r].slug].state = "provisioned"

Reserve(r) ==
    /\ request[r].stage = "checked"
    /\ IF Taken(r)
       THEN Goto(r, "failed") /\ UNCHANGED signup
       ELSE /\ Goto(r, "reserved")
            /\ signup' = [signup EXCEPT ![request[r].slug] =
                             [state |-> "pending", by |-> r, mode |-> request[r].mode,
                              token |-> IF request[r].mode = "trial" THEN r ELSE None,
                              tranId |-> None, stale |-> FALSE]]
    /\ UNCHANGED <<owner, agencies, payments>>

(* The token is mailed. *)
SendVerification(r) ==
    /\ request[r].stage = "reserved" /\ request[r].mode = "trial"
    /\ Goto(r, "answered")
    /\ UNCHANGED <<owner, signup, agencies, payments>>

(* The gateway opens a checkout session; only then is the attempt stored,   *)
(* and only then its number written to the signup row.                     *)
OpenSession(r) ==
    /\ request[r].stage = "reserved" /\ request[r].mode = "paid"
    /\ Goto(r, "session")
    /\ UNCHANGED <<owner, signup, agencies, payments>>

StoreAttempt(r) ==
    /\ request[r].stage = "session"
    /\ Goto(r, "open")
    /\ attempt' = [attempt EXCEPT ![r] = "pending"]
    /\ UNCHANGED <<owner, signup, agencies, charged, due, acked>>

WriteTranId(r) ==
    /\ request[r].stage = "open"
    /\ Goto(r, "answered")
    /\ signup' = [signup EXCEPT ![request[r].slug].tranId = r]
    /\ UNCHANGED <<owner, agencies, payments>>

(* The process dies, the gateway or the mail server refuses. *)
StartFails(r) ==
    /\ request[r].stage \in {"checked", "reserved", "session", "open"}
    /\ Goto(r, "failed")
    /\ UNCHANGED <<owner, signup, agencies, payments>>

DeadlinePasses(s) ==
    /\ Live(s)
    /\ signup' = [signup EXCEPT ![s].stale = TRUE]
    /\ UNCHANGED <<owner, request, agencies, payments>>

----------------------------------------------------------------------------
(* Agencies are made. *)

\* Mutant of EmailFree: the email is only looked at when the request comes in.
EmailNotChecked(s) == TRUE

EmailFree(s) == owner[signup[s].by] \notin users

(* The agency, its owner and the row, or nothing if the email is taken. *)
Fulfill(s) ==
    /\ EmailFree(s)
    /\ tenant' = [tenant EXCEPT ![s] = signup[s].by]
    /\ users' = users \cup {owner[signup[s].by]}
    /\ signup' = [signup EXCEPT ![s].state = "provisioned", ![s].token = None, ![s].stale = FALSE]

(* The link in the mail: the row is found by its token. *)
ConfirmVerification(r) ==
    /\ request[r].stage = "answered" /\ request[r].mode = "trial"
    /\ \E s \in Slug :
          /\ signup[s].token = r /\ signup[s].mode = "trial" /\ Live(s)
          /\ tenant[s] = None
          /\ Fulfill(s)
    /\ verified' = verified \cup {r}
    /\ UNCHANGED <<owner, request, payments>>

(* Staff make one for a subdomain, reserved or not. *)
CreateTenant(s) ==
    /\ tenant[s] = None
    /\ tenant' = [tenant EXCEPT ![s] = Staff]
    /\ UNCHANGED <<owner, request, signup, users, verified, payments>>

(* An invited member of some agency takes up the account. *)
AcceptInvite(o) ==
    /\ o \notin users
    /\ users' = users \cup {o}
    /\ UNCHANGED <<owner, request, signup, tenant, verified, payments>>

----------------------------------------------------------------------------
(* Payment: the customer pays where the answer sent them, and the gateway   *)
(* repeats its callback until it is answered.                              *)

Pay(r) ==
    /\ request[r].stage = "answered" /\ request[r].mode = "paid" /\ r \notin charged
    /\ charged' = charged \cup {r}
    /\ UNCHANGED <<owner, request, signup, agencies, attempt, due, acked>>

\* Mutant of Open: a redirect that comes late overwrites a success.
Stored(r) == attempt[r] # "none"

Open(r) == attempt[r] \in {"pending", "failed"}

(* A failed or cancelled redirect, or a success that cannot be verified. *)
FailedCallback(r) ==
    /\ Open(r)
    /\ attempt' = [attempt EXCEPT ![r] = "failed"]
    /\ UNCHANGED <<owner, request, signup, agencies, charged, due, acked>>

\* Mutant of Verified: the redirect is believed without asking the gateway.
Believed(r) == TRUE

Verified(r) == r \in charged

\* Mutant of Answerable: the repeat of a recorded success goes no further.
Unrecorded(r) == Open(r)

Answerable(r) == attempt[r] # "none"

(* A verified success, also after a failed redirect, or a repeated one,     *)
(* answered before or not: recorded once, but completePaid follows always. *)
SuccessCallback(r) ==
    /\ Answerable(r) /\ Verified(r) /\ r \notin due
    /\ attempt' = [attempt EXCEPT ![r] = "success"]
    /\ due' = due \cup {r}
    /\ UNCHANGED <<owner, request, signup, agencies, charged, acked>>

(* The process dies before completePaid, or loses the answer. *)
CallbackDies(r) ==
    /\ r \in due
    /\ due' = due \ {r}
    /\ UNCHANGED <<owner, request, signup, agencies, attempt, charged, acked>>

\* Mutant of Payable: any pending row will do.
AnyPending(s) == Pending(s)

Payable(s) == Pending(s) /\ signup[s].mode = "paid"

(* completePaid, of the row the attempt points to, whoever has it now.  A   *)
(* taken email throws: nothing is written and the gateway is not answered. *)
CompletePaid(r) ==
    LET s == request[r].slug IN
    /\ r \in due
    /\ due' = due \ {r}
    /\ \/ /\ ~Payable(s)
          /\ acked' = acked \cup {r}
          /\ UNCHANGED <<signup, tenant, users>>
       \/ /\ Payable(s) /\ Stale(s)
          /\ signup' = [signup EXCEPT ![s].state = "expired", ![s].token = None]
          /\ acked' = acked \cup {r}
          /\ UNCHANGED <<tenant, users>>
       \/ /\ Payable(s) /\ Live(s) /\ tenant[s] # None
          /\ signup' = [signup EXCEPT ![s].state = "failed"]
          /\ acked' = acked \cup {r}
          /\ UNCHANGED <<tenant, users>>
       \/ /\ Payable(s) /\ Live(s) /\ tenant[s] = None
          /\ Fulfill(s)
          /\ acked' = acked \cup {r}
       \/ /\ Payable(s) /\ Live(s) /\ tenant[s] = None /\ ~EmailFree(s)
          /\ UNCHANGED <<signup, tenant, users, acked>>
    /\ UNCHANGED <<owner, request, verified, attempt, charged>>

----------------------------------------------------------------------------
Next ==
    \/ \E r \in Request :
          \/ \E s \in Slug, mode \in {"trial", "paid"} : StartCheck(r, s, mode)
          \/ Reserve(r)
          \/ SendVerification(r)
          \/ OpenSession(r)
          \/ StoreAttempt(r)
          \/ WriteTranId(r)
          \/ StartFails(r)
          \/ ConfirmVerification(r)
          \/ Pay(r)
          \/ FailedCallback(r)
          \/ SuccessCallback(r)
          \/ CallbackDies(r)
          \/ CompletePaid(r)
    \/ \E s \in Slug : DeadlinePasses(s) \/ CreateTenant(s)
    \/ \E o \in Owner : AcceptInvite(o)

Spec == Init /\ [][Next]_vars

(* The gateway repeats a success until it is answered, not every process    *)
(* dies in the middle, and time passes.                                    *)
FairSpec ==
    /\ Spec
    /\ \A r \in Request : WF_vars(SuccessCallback(r)) /\ SF_vars(CompletePaid(r))
    /\ \A s \in Slug : WF_vars(DeadlinePasses(s))

----------------------------------------------------------------------------
(* An email address owns at most one agency, though two requests of it may  *)
(* pass the first check, on different subdomains and by different ways.    *)
OneAgencyPerOwner ==
    \A s, t \in Slug :
        s # t /\ {tenant[s], tenant[t]} \subseteq Request =>
            owner[tenant[s]] # owner[tenant[t]]

(* The row of an agency that signed up is provisioned and stays with the    *)
(* request it was made from: no late start, expiry or payment reopens it.  *)
AgencyMatchesSignup ==
    \A s \in Slug, r \in Request :
        tenant[s] = r <=> signup[s].state = "provisioned" /\ signup[s].by = r

(* A trial agency exists only after the token of that very request came     *)
(* back, whatever payments for earlier reservations of the subdomain do.   *)
TrialIsVerified ==
    \A s \in Slug, r \in Request :
        tenant[s] = r /\ signup[s].mode = "trial" => r \in verified

(* Callbacks come late, twice and out of order: a success is never undone.  *)
SuccessIsFinal ==
    [][\A r \in Request : attempt[r] = "success" => attempt'[r] = "success"]_vars

(* A customer who has paid is not left hanging: in the end the success is   *)
(* recorded and the gateway answered, even if the process dies between     *)
(* the two or the owner's email was taken meanwhile.                       *)
PaymentIsAnswered == \A r \in Request : r \in charged ~> (attempt[r] = "success" /\ r \in acked)

(* onboarding.controller.ts: paid reserves the subdomain, and provisioning  *)
(* runs after payment success.                                             *)
PaidAgencyWasPaidFor ==
    \A s \in Slug, r \in Request :
        tenant[s] = r /\ signup[s].mode = "paid" => r \in charged
=============================================================================
