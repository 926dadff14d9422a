------------------------------ MODULE Sessions ------------------------------
(***************************************************************************)
(* How a browser stays signed in: tabs that share an access token (local   *)
(* storage) and a refresh cookie, and the one refresh token the server     *)
(* keeps of an account.  Source: frontend/src/lib/session.ts, api.ts and    *)
(* auth.ts, backend/src/identity.                                          *)
(*                                                                         *)
(* A refresh token is named by the second it was signed in: tokens of one  *)
(* account signed in the same second are the same string.  The server reads *)
(* the row, signs, hashes and writes without a lock, so signing (Serve) and *)
(* writing (Write) are two steps.                                          *)
(***************************************************************************)
EXTENDS Naturals, FiniteSets

CONSTANTS
    Tab,        \* tabs of one browser on one site
    Call,       \* authenticated requests of the pages in them
    TabOf,      \* the tab that makes a call
    MaxSecond,  \* bound on the seconds in which tokens are signed
    MaxForm     \* bound on the forms submitted in the browser

ASSUME TabAssumption == TabOf \in [Call -> Tab]
ASSUME BoundAssumption == MaxSecond \in Nat \ {0} /\ MaxForm \in Nat

Second == 1 .. MaxSecond
Token == 0 .. MaxSecond

Form == {"signin", "invite", "signout"}
Kind == Form \cup {"refresh"}

VARIABLES
    second,     \* the current second
    stored,     \* the refresh token whose hash is in the users row
    cookie,     \* wufud_refresh, 0 if there is none
    access,     \* local storage holds an access token
    armed,      \* tabs in which a refresh timer may be set
    flight,     \* requests to the identity endpoints, per tab and kind
    orphans,    \* tokens the server signed for a page that is gone
    forms,      \* number of forms submitted
    call,       \* the calls, and whether each carries an access token
    executed,   \* how often the server has carried out a call
    disturbed,  \* a session may end now without a sign-out (history)
    out         \* signed out, with nothing else under way (history)

server == <<second, stored, orphans>>
browser == <<cookie, access, armed>>
calls == <<call, executed>>
history == <<disturbed, out>>
vars == <<server, browser, flight, forms, calls, history>>

Landed == [at |-> "none", token |-> 0]
NewCall == [at |-> "new", carries |-> FALSE, again |-> FALSE]

TypeOK ==
    /\ second \in Second
    /\ stored \in Token /\ cookie \in Token /\ orphans \subseteq Token
    /\ access \in BOOLEAN
    /\ armed \subseteq Tab
    /\ flight \in [Tab -> [Kind -> [at : {"none", "sent", "signed", "answered", "refused"}, token : Token]]]
    /\ forms \in 0 .. MaxForm
    /\ call \in [Call -> [at : {"new", "sent", "waiting", "done", "failed"},
                          carries : BOOLEAN, again : BOOLEAN]]
    /\ executed \in [Call -> Nat]
    /\ disturbed \in BOOLEAN /\ out \in BOOLEAN

(* The page was opened after a sign-in in the first second. *)
Init ==
    /\ second = 1 /\ stored = 1 /\ cookie = 1 /\ orphans = {}
    /\ access = TRUE
    /\ armed = Tab
    /\ flight = [t \in Tab |-> [k \in Kind |-> Landed]]
    /\ forms = 0
    /\ call = [c \in Call |-> NewCall]
    /\ executed = [c \in Call |-> 0]
    /\ disturbed = FALSE /\ out = FALSE

At(t, k) == flight[t][k].at
Send(t, k, token) == flight' = [flight EXCEPT ![t][k] = [at |-> "sent", token |-> token]]
Land(t, k) == flight' = [flight EXCEPT ![t][k] = Landed]

(* Requests that may still change the cookie or the users row. *)
UnderWay(t, k) == At(t, k) \in {"sent", "signed", "answered"}

----------------------------------------------------------------------------
(* Time. *)

Tick ==
    /\ second < MaxSecond
    /\ second' = second + 1
    /\ UNCHANGED <<stored, orphans, browser, flight, forms, calls, history>>

----------------------------------------------------------------------------
(* The server. *)

(* Another device signs in to the account. *)
SignInElsewhere ==
    /\ stored' = second
    /\ disturbed' = TRUE
    /\ UNCHANGED <<second, orphans, browser, flight, forms, calls, out>>

(* A refresh is checked against the row; a form gets what it asked for, or  *)
(* is refused (wrong password, used invitation).  A signed token of an     *)
(* invitation or the answer to a sign-out is not stored at all.            *)
Accepts(t, k) == k = "refresh" => flight[t][k].token # 0 /\ flight[t][k].token = stored

\* Mutant of Stores: a refresh answers a new token and keeps the old hash.
StoresSignIn(k) == k = "signin"

Stores(k) == k \in {"refresh", "signin"}

Overlaps(t, k) ==
    orphans # {} \/ \E u \in Tab, l \in Kind : <<u, l>> # <<t, k>> /\ At(u, l) \in {"signed", "answered"}

Serve(t, k) ==
    /\ At(t, k) = "sent"
    /\ Accepts(t, k)
    /\ flight' = [flight EXCEPT ![t][k] = [at |-> IF Stores(k) THEN "signed" ELSE "answered",
                                           token |-> IF k = "signout" THEN 0 ELSE second]]
    /\ disturbed' = (disturbed \/ Overlaps(t, k))
    /\ UNCHANGED <<server, browser, forms, calls, out>>

(* A refresh that is not accepted, or one that fails before its token is    *)
(* stored: whatever is thrown is answered as an expired token.             *)
Refuse(t) ==
    /\ At(t, "refresh") = "sent"
    /\ flight' = [flight EXCEPT ![t]["refresh"].at = "refused"]
    /\ UNCHANGED <<server, browser, forms, calls, history>>

Write(t, k) ==
    /\ At(t, k) = "signed"
    /\ stored' = flight[t][k].token
    /\ flight' = [flight EXCEPT ![t][k].at = "answered"]
    /\ UNCHANGED <<second, orphans, browser, forms, calls, history>>

WriteOrphan(token) ==
    /\ token \in orphans
    /\ orphans' = orphans \ {token}
    /\ stored' = token
    /\ UNCHANGED <<second, browser, flight, forms, calls, history>>

----------------------------------------------------------------------------
(* refreshAccessToken. *)

(* The promise refreshInFlight is shared by the callers in one tab. *)
StartRefresh(t) ==
    IF At(t, "refresh") = "none" THEN Send(t, "refresh", cookie) ELSE UNCHANGED flight

(* A timer fires, or the tab becomes visible and the token is near its end. *)
KeepFresh(t) ==
    /\ t \in armed
    /\ armed' = IF access THEN armed ELSE armed \ {t}
    /\ StartRefresh(t)
    /\ UNCHANGED <<server, cookie, access, forms, calls, history>>

WaitingIn(t) == {c \in Call : TabOf[c] = t /\ call[c].at = "waiting"}

Resend(t) ==
    call' = [c \in Call |-> IF c \in WaitingIn(t)
                            THEN [at |-> "sent", carries |-> TRUE, again |-> TRUE] ELSE call[c]]

FailWaiting(t) ==
    call' = [c \in Call |-> IF c \in WaitingIn(t) THEN [call[c] EXCEPT !.at = "failed"] ELSE call[c]]

(* storeAccessToken, after the browser has taken the cookie; any page       *)
(* loaded from now on sets its timer.                                      *)
SignedIn(token) ==
    /\ cookie' = token
    /\ access' = TRUE
    /\ armed' = Tab

(* clearStoredAccessToken stops the timer of its own tab. *)
SignedOut(t) ==
    /\ access' = FALSE
    /\ armed' = armed \ {t}

DeliverRefresh(t) ==
    /\ At(t, "refresh") = "answered"
    /\ SignedIn(flight[t]["refresh"].token)
    /\ Resend(t)
    /\ Land(t, "refresh")
    /\ UNCHANGED <<server, forms, executed, history>>

(* Calls that waited clear the token that is stored by now; the timer does  *)
(* nothing.                                                                *)
RefreshRefused(t) ==
    /\ At(t, "refresh") = "refused"
    /\ IF WaitingIn(t) # {}
       THEN SignedOut(t)
       ELSE UNCHANGED <<access, armed>>
    /\ FailWaiting(t)
    /\ Land(t, "refresh")
    /\ UNCHANGED <<server, cookie, forms, executed, history>>

\* Mutant of Settles: the callers are not told of a refresh that failed.
Hangs(t) == Land(t, "refresh") /\ UNCHANGED call

Settles(t) == Land(t, "refresh") /\ FailWaiting(t)

----------------------------------------------------------------------------
(* Forms: sign in (or register), accept an invitation, sign out. *)

Submit(t, k) ==
    /\ k \in Form /\ forms < MaxForm /\ At(t, k) = "none"
    /\ forms' = forms + 1
    /\ Send(t, k, 0)
    /\ IF k = "signout"
       THEN SignedOut(t) /\ UNCHANGED out
       ELSE out' = FALSE /\ UNCHANGED <<access, armed>>
    /\ UNCHANGED <<server, cookie, calls, disturbed>>

Alone(t, k) == orphans = {} /\ \A u \in Tab, l \in Kind : UnderWay(u, l) => <<u, l>> = <<t, k>>

DeliverSignIn(t) ==
    LET token == flight[t]["signin"].token IN
    /\ At(t, "signin") = "answered"
    /\ SignedIn(token)
    /\ Land(t, "signin")
    /\ disturbed' = (disturbed /\ ~(Alone(t, "signin") /\ token = stored))
    /\ UNCHANGED <<server, forms, calls, out>>

DeliverInvite(t) ==
    /\ At(t, "invite") = "answered"
    /\ SignedIn(flight[t]["invite"].token)
    /\ Land(t, "invite")
    /\ disturbed' = TRUE
    /\ UNCHANGED <<server, forms, calls, out>>

\* Mutant of CookieAfterSignOut: the cookie stays.
CookieKept == cookie

CookieAfterSignOut == 0

DeliverSignOut(t) ==
    /\ At(t, "signout") = "answered"
    /\ cookie' = CookieAfterSignOut
    /\ Land(t, "signout")
    /\ out' = (~access /\ Alone(t, "signout"))
    /\ UNCHANGED <<server, access, armed, forms, calls, disturbed>>

(* A wrong password, an invitation already used. *)
FormRefused(t, k) ==
    /\ k \in {"signin", "invite"} /\ At(t, k) = "sent"
    /\ Land(t, k)
    /\ UNCHANGED <<server, browser, forms, calls, history>>

(* The connection breaks before the server has the request or after it has  *)
(* signed, written or refused.  What it has signed it writes all the same.  *)
Lose(t, k) ==
    /\ At(t, k) # "none"
    /\ orphans' = IF At(t, k) = "signed" THEN orphans \cup {flight[t][k].token} ELSE orphans
    /\ disturbed' = (disturbed \/ At(t, k) \in {"signed", "answered"})
    /\ IF k = "refresh" THEN Settles(t) ELSE Land(t, k) /\ UNCHANGED call
    /\ UNCHANGED <<second, stored, browser, forms, executed, out>>

----------------------------------------------------------------------------
(* api(). *)

Ask(c) ==
    /\ call[c].at = "new"
    /\ call' = [call EXCEPT ![c] = [at |-> "sent", carries |-> access, again |-> FALSE]]
    /\ UNCHANGED <<server, browser, flight, forms, executed, history>>

(* Only a call with an access token is carried out; the token may have     *)
(* expired before or on the way, so any call may be answered with a 401.   *)
Execute(c) ==
    /\ call[c].at = "sent" /\ call[c].carries
    /\ call' = [call EXCEPT ![c].at = "done"]
    /\ executed' = [executed EXCEPT ![c] = @ + 1]
    /\ UNCHANGED <<server, browser, flight, forms, history>>

\* Mutant of AfterLoss: a call whose answer was lost is sent again.
SentAgain(c) ==
    IF call[c].again THEN [call[c] EXCEPT !.at = "failed"] ELSE [call[c] EXCEPT !.again = TRUE]

AfterLoss(c) == [call[c] EXCEPT !.at = "failed"]

LoseCall(c) ==
    /\ call[c].at = "sent"
    /\ call' = [call EXCEPT ![c] = AfterLoss(c)]
    /\ UNCHANGED <<server, browser, flight, forms, executed, history>>

LoseAnswer(c) ==
    /\ call[c].at = "sent" /\ call[c].carries
    /\ call' = [call EXCEPT ![c] = AfterLoss(c)]
    /\ executed' = [executed EXCEPT ![c] = @ + 1]
    /\ UNCHANGED <<server, browser, flight, forms, history>>

(* After a 401 one more attempt with a new token, if the call had one and   *)
(* is not that attempt already.                                            *)
ShouldRetry(c) == call[c].carries /\ ~call[c].again

RetryWithRefresh(c) ==
    /\ call[c].at = "sent" /\ ShouldRetry(c)
    /\ call' = [call EXCEPT ![c].at = "waiting"]
    /\ StartRefresh(TabOf[c])
    /\ UNCHANGED <<server, browser, forms, executed, history>>

GiveUp(c) ==
    /\ call[c].at = "sent" /\ ~ShouldRetry(c)
    /\ call' = [call EXCEPT ![c].at = "failed"]
    /\ UNCHANGED <<server, browser, flight, forms, executed, history>>

----------------------------------------------------------------------------
Next ==
    \/ Tick
    \/ SignInElsewhere
    \/ \E token \in Token : WriteOrphan(token)
    \/ \E t \in Tab :
          \/ \E k \in Kind :
                \/ Serve(t, k)
                \/ Write(t, k)
                \/ Lose(t, k)
                \/ Submit(t, k)
                \/ FormRefused(t, k)
          \/ Refuse(t)
          \/ KeepFresh(t)
          \/ DeliverRefresh(t)
          \/ RefreshRefused(t)
          \/ DeliverSignIn(t)
          \/ DeliverInvite(t)
          \/ DeliverSignOut(t)
    \/ \E c \in Call :
          \/ Ask(c)
          \/ Execute(c)
          \/ RetryWithRefresh(c)
          \/ GiveUp(c)
          \/ LoseCall(c)
          \/ LoseAnswer(c)

Spec == Init /\ [][Next]_vars

(* The server answers what reaches it and the browser settles its promises; *)
(* that somebody does something is not assumed.                            *)
FairSpec ==
    /\ Spec
    /\ \A t \in Tab :
          /\ WF_vars(Serve(t, "refresh") \/ Refuse(t) \/ Write(t, "refresh"))
          /\ WF_vars(DeliverRefresh(t) \/ RefreshRefused(t) \/ Lose(t, "refresh"))
    /\ \A c \in Call : WF_vars(Execute(c) \/ RetryWithRefresh(c) \/ GiveUp(c) \/ LoseCall(c))

----------------------------------------------------------------------------
(* Safety and liveness. *)

(* The browser's refresh cookie is the one the server will accept, or the   *)
(* answer that replaces it is on its way, unless one of four things has     *)
(* happened since the last undisturbed sign-in: another device signed in,  *)
(* an answer was lost, exchanges overlapped, or an invitation was accepted. *)
SessionEndsForAReason ==
    cookie # 0 /\ ~disturbed =>
        cookie = stored \/ \E t \in Tab, k \in Kind : At(t, k) = "answered" /\ flight[t][k].token = stored

(* A sign-out with nothing else under way lasts until somebody signs in:    *)
(* no timer of another tab and no call answered late brings the session     *)
(* back.                                                                   *)
SignOutSticks == out => ~access /\ cookie = 0

(* A call is carried out at most once though it may be sent twice; one that *)
(* was answered has been, and one still to be sent again has not.          *)
CarriedOutOnce ==
    \A c \in Call :
        /\ executed[c] <= 1
        /\ call[c].at = "done" => executed[c] = 1
        /\ call[c].at \in {"new", "sent", "waiting"} => executed[c] = 0

(* No call waits for ever, whatever happens to the refresh it waits for. *)
CallsEnd == \A c \in Call : call[c].at # "new" ~> call[c].at \in {"done", "failed"}
=============================================================================
