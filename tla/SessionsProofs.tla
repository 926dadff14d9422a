--------------------------- MODULE SessionsProofs ---------------------------
(* Proofs about Sessions, for any number of tabs, calls, seconds and forms. *)
EXTENDS Sessions, TLAPS

InAnswer(t, k) == At(t, k) \in {"signed", "answered"}

(* What a sign-out leaves: nothing under way can bring a token back.        *)
OutInv ==
    out => /\ ~access /\ cookie = 0
           /\ \A t \in Tab : \A k \in {"signin", "invite"} : ~UnderWay(t, k)
           /\ \A t \in Tab : /\ ~InAnswer(t, "refresh")
                             /\ At(t, "refresh") = "sent" => flight[t]["refresh"].token = 0

(* Only tokens of refreshes and sign-ins are on their way to the row. *)
SignedInv == \A t \in Tab, k \in Kind : At(t, k) = "signed" => Stores(k)

(* Undisturbed, one exchange at a time is beyond the server's check, and    *)
(* the cookie is behind the row only while its answer is coming back.       *)
QuietInv ==
    ~disturbed =>
        /\ orphans = {}
        /\ \A t, u \in Tab : \A k, l \in Kind : InAnswer(t, k) /\ InAnswer(u, l) => t = u /\ k = l
        /\ \A t \in Tab, k \in Kind : At(t, k) = "answered" /\ Stores(k) => flight[t][k].token = stored
        /\ (\A t \in Tab, k \in Kind : Stores(k) => At(t, k) # "answered") => cookie \in {0, stored}

Exchange == [at : {"none", "sent", "signed", "answered", "refused"}, token : Token]
Flights == [Tab -> [Kind -> Exchange]]
Calls == [Call -> [at : {"new", "sent", "waiting", "done", "failed"}, carries : BOOLEAN, again : BOOLEAN]]

----------------------------------------------------------------------------
(* An exchange that starts or ends. *)
LEMMA FlightUpdate ==
  ASSUME flight \in Flights, NEW t \in Tab, NEW k \in Kind, NEW r \in Exchange
  PROVE  [flight EXCEPT ![t][k] = r] \in Flights
  BY DEF Flights

LEMMA LandType == ASSUME TypeOK, NEW t \in Tab, NEW k \in Kind, Land(t, k) PROVE flight' \in Flights
<1>1. Landed \in Exchange
  BY BoundAssumption DEF Landed, Exchange, Token
<1> QED
  BY <1>1, FlightUpdate DEF TypeOK, Flights, Exchange, Land

LEMMA SendType ==
  ASSUME TypeOK, NEW t \in Tab, NEW k \in Kind, NEW token \in Token, Send(t, k, token)
  PROVE  flight' \in Flights
<1>1. [at |-> "sent", token |-> token] \in Exchange
  BY DEF Exchange
<1> QED
  BY <1>1, FlightUpdate DEF TypeOK, Flights, Exchange, Send

LEMMA StartType == ASSUME TypeOK, NEW t \in Tab, StartRefresh(t) PROVE flight' \in Flights
<1>1. "refresh" \in Kind /\ cookie \in Token /\ flight \in Flights
  BY DEF Kind, TypeOK, Flights, Exchange
<1> QED
  BY <1>1, SendType DEF StartRefresh

(* The calls that waited for a refresh. *)
LEMMA ResendType == ASSUME TypeOK, NEW t \in Tab, Resend(t) PROVE call' \in Calls
  BY DEF TypeOK, Resend, Calls

LEMMA FailType == ASSUME TypeOK, NEW t \in Tab, FailWaiting(t) PROVE call' \in Calls
<1>1. ASSUME NEW c \in Call PROVE [call[c] EXCEPT !.at = "failed"] \in
         [at : {"new", "sent", "waiting", "done", "failed"}, carries : BOOLEAN, again : BOOLEAN]
  BY DEF TypeOK
<1> QED
  BY <1>1 DEF TypeOK, FailWaiting, Calls

(* The initial states are typed. *)
LEMMA TypeInit == Init => TypeOK
<1> SUFFICES ASSUME Init PROVE TypeOK
  OBVIOUS
<1> USE BoundAssumption DEF Init
<1>1. second \in Second /\ stored \in Token /\ cookie \in Token /\ orphans \subseteq Token
  BY DEF Second, Token
<1>2. flight \in [Tab -> [Kind -> [at : {"none", "sent", "signed", "answered", "refused"}, token : Token]]]
  BY DEF Landed, Token
<1>3. call \in [Call -> [at : {"new", "sent", "waiting", "done", "failed"}, carries : BOOLEAN, again : BOOLEAN]]
  BY DEF NewCall
<1>4. executed \in [Call -> Nat] /\ armed \subseteq Tab /\ forms \in 0 .. MaxForm
  OBVIOUS
<1> QED
  BY <1>1, <1>2, <1>3, <1>4 DEF TypeOK

(* Every step keeps the types. *)
LEMMA TypeNext == TypeOK /\ [Next]_vars => TypeOK'
<1> SUFFICES ASSUME TypeOK, [Next]_vars PROVE TypeOK'
  OBVIOUS
<1> USE BoundAssumption, TabAssumption
<1> USE DEF TypeOK, server, browser, calls, history
<1>1. CASE UNCHANGED vars
  BY <1>1 DEF vars
<1>2. CASE Tick
  BY <1>2 DEF Tick, Second
<1>3. CASE SignInElsewhere
  BY <1>3 DEF SignInElsewhere, Second, Token
<1>4. CASE \E token \in Token : WriteOrphan(token)
  BY <1>4 DEF WriteOrphan, Second, Token
<1>5. ASSUME NEW t \in Tab, NEW k \in Kind, Serve(t, k) PROVE TypeOK'
  BY <1>5 DEF Serve, Second, Token
<1>6. ASSUME NEW t \in Tab, NEW k \in Kind, Write(t, k) PROVE TypeOK'
  BY <1>6 DEF Write
<1>7. ASSUME NEW t \in Tab, NEW k \in Kind, Lose(t, k) PROVE TypeOK'
  <2>1. flight' \in Flights
    BY <1>7, LandType DEF Lose, Settles
  <2>2. call' \in Calls
    BY <1>7, FailType DEF Lose, Settles, Calls
  <2>3. orphans' \subseteq Token
    <3>1. flight[t][k].token \in Token
      OBVIOUS
    <3> QED
      BY <1>7, <3>1 DEF Lose
  <2> QED
    BY <1>7, <2>1, <2>2, <2>3 DEF Lose, Flights, Exchange, Calls
<1>8. ASSUME NEW t \in Tab, NEW k \in Kind, Submit(t, k) PROVE TypeOK'
  <2>1. flight' \in Flights
    BY <1>8, SendType DEF Submit, Token
  <2>2. forms' \in 0 .. MaxForm
    BY <1>8 DEF Submit
  <2>3. access' \in BOOLEAN /\ armed' \subseteq Tab /\ out' \in BOOLEAN
    BY <1>8 DEF Submit, SignedOut
  <2> QED
    BY <1>8, <2>1, <2>2, <2>3 DEF Submit, Flights, Exchange
<1>9. ASSUME NEW t \in Tab, NEW k \in Kind, FormRefused(t, k) PROVE TypeOK'
  BY <1>9 DEF FormRefused, Land, Landed, Token
<1>10. ASSUME NEW t \in Tab, Refuse(t) PROVE TypeOK'
  <2>1. [flight[t]["refresh"] EXCEPT !.at = "refused"] \in Exchange /\ "refresh" \in Kind
    BY DEF Exchange, Kind
  <2>2. flight' = [flight EXCEPT ![t]["refresh"] = [flight[t]["refresh"] EXCEPT !.at = "refused"]]
    BY <1>10 DEF Refuse
  <2>3. flight' \in Flights
    BY <2>1, <2>2, FlightUpdate DEF Flights, Exchange
  <2> QED
    BY <1>10, <2>3 DEF Refuse, Flights, Exchange
<1>11. ASSUME NEW t \in Tab, KeepFresh(t) PROVE TypeOK'
  <2>1. flight' \in Flights
    BY <1>11, StartType DEF KeepFresh
  <2> QED
    BY <1>11, <2>1 DEF KeepFresh, Flights, Exchange
<1>12. ASSUME NEW t \in Tab, DeliverRefresh(t) PROVE TypeOK'
  <2>1. flight' \in Flights /\ call' \in Calls
    BY <1>12, LandType, ResendType DEF DeliverRefresh, Kind
  <2>2. flight[t]["refresh"].token \in Token
    BY DEF Kind
  <2> QED
    BY <1>12, <2>1, <2>2 DEF DeliverRefresh, SignedIn, Flights, Exchange, Calls
<1>13. ASSUME NEW t \in Tab, RefreshRefused(t) PROVE TypeOK'
  <2>1. flight' \in Flights /\ call' \in Calls
    BY <1>13, LandType, FailType DEF RefreshRefused, Kind
  <2> QED
    BY <1>13, <2>1 DEF RefreshRefused, SignedOut, Flights, Exchange, Calls
<1>14. ASSUME NEW t \in Tab, DeliverSignIn(t) PROVE TypeOK'
  BY <1>14 DEF DeliverSignIn, SignedIn, Land, Landed, Token, Kind, Form
<1>15. ASSUME NEW t \in Tab, DeliverInvite(t) PROVE TypeOK'
  BY <1>15 DEF DeliverInvite, SignedIn, Land, Landed, Token, Kind, Form
<1>16. ASSUME NEW t \in Tab, DeliverSignOut(t) PROVE TypeOK'
  BY <1>16 DEF DeliverSignOut, CookieAfterSignOut, Land, Landed, Token, Kind, Form
<1>17. ASSUME NEW c \in Call, Ask(c) PROVE TypeOK'
  BY <1>17 DEF Ask
<1>18. ASSUME NEW c \in Call, Execute(c) PROVE TypeOK'
  BY <1>18 DEF Execute
<1>19. ASSUME NEW c \in Call, RetryWithRefresh(c) PROVE TypeOK'
  <2>1. flight' \in Flights
    BY <1>19, StartType DEF RetryWithRefresh
  <2> QED
    BY <1>19, <2>1 DEF RetryWithRefresh, Flights, Exchange
<1>20. ASSUME NEW c \in Call, GiveUp(c) PROVE TypeOK'
  BY <1>20 DEF GiveUp
<1>21. ASSUME NEW c \in Call, LoseCall(c) PROVE TypeOK'
  BY <1>21 DEF LoseCall, AfterLoss
<1>22. ASSUME NEW c \in Call, LoseAnswer(c) PROVE TypeOK'
  BY <1>22 DEF LoseAnswer, AfterLoss
<1> QED
  BY <1>1, <1>2, <1>3, <1>4, <1>5, <1>6, <1>7, <1>8, <1>9, <1>10, <1>11, <1>12, <1>13, <1>14,
     <1>15, <1>16, <1>17, <1>18, <1>19, <1>20, <1>21, <1>22 DEF Next

(* Types hold throughout: tokens are of seconds that have been, a tab has   *)
(* one exchange of each kind.                                              *)
THEOREM TypeCorrect == Spec => []TypeOK
<1>1. Init => TypeOK
  BY TypeInit
<1>2. TypeOK /\ [Next]_vars => TypeOK'
  BY TypeNext
<1> QED
  BY <1>1, <1>2, PTL DEF Spec

----------------------------------------------------------------------------
(* Calls. *)

(* What one call must be for CarriedOutOnce. *)
Once(c) ==
    /\ executed[c] <= 1
    /\ call[c].at = "done" => executed[c] = 1
    /\ call[c].at \in {"new", "sent", "waiting"} => executed[c] = 0

(* A step that leaves executed alone and finishes or resends waiting calls. *)
LEMMA WaitingSettled ==
  ASSUME TypeOK, NEW t \in Tab, NEW c \in Call, Once(c), UNCHANGED executed,
         Resend(t) \/ FailWaiting(t) \/ UNCHANGED call
  PROVE  Once(c)'
<1>1. CASE Resend(t)
  BY <1>1 DEF Resend, WaitingIn, Once, TypeOK
<1>2. CASE FailWaiting(t)
  BY <1>2 DEF FailWaiting, WaitingIn, Once, TypeOK
<1>3. CASE UNCHANGED call
  BY <1>3 DEF Once
<1> QED
  BY <1>1, <1>2, <1>3

(* A call's own step. *)
LEMMA OwnStep ==
  ASSUME TypeOK, NEW d \in Call, NEW c \in Call, Once(c),
         Ask(d) \/ Execute(d) \/ RetryWithRefresh(d) \/ GiveUp(d) \/ LoseCall(d) \/ LoseAnswer(d)
  PROVE  Once(c)'
<1> USE DEF TypeOK, Once
<1>1. CASE Ask(d)
  BY <1>1 DEF Ask
<1>2. CASE Execute(d)
  BY <1>2 DEF Execute
<1>3. CASE RetryWithRefresh(d)
  BY <1>3 DEF RetryWithRefresh
<1>4. CASE GiveUp(d)
  BY <1>4 DEF GiveUp
<1>5. CASE LoseCall(d)
  BY <1>5 DEF LoseCall, AfterLoss
<1>6. CASE LoseAnswer(d)
  BY <1>6 DEF LoseAnswer, AfterLoss
<1> QED
  BY <1>1, <1>2, <1>3, <1>4, <1>5, <1>6

LEMMA OnceNext == TypeOK /\ CarriedOutOnce /\ [Next]_vars => CarriedOutOnce'
<1> SUFFICES ASSUME TypeOK, CarriedOutOnce, [Next]_vars, NEW c \in Call PROVE Once(c)'
  BY DEF CarriedOutOnce, Once
<1> Once(c)
  BY DEF CarriedOutOnce, Once
<1>1. CASE UNCHANGED <<call, executed>>
  BY <1>1 DEF Once
<1>2. ASSUME NEW d \in Call,
             Ask(d) \/ Execute(d) \/ RetryWithRefresh(d) \/ GiveUp(d) \/ LoseCall(d) \/ LoseAnswer(d)
      PROVE  Once(c)'
  BY <1>2, OwnStep
<1>3. ASSUME NEW t \in Tab, DeliverRefresh(t) \/ RefreshRefused(t) \/ \E k \in Kind : Lose(t, k)
      PROVE  Once(c)'
  <2>1. UNCHANGED executed
    BY <1>3 DEF DeliverRefresh, RefreshRefused, Lose
  <2>2. Resend(t) \/ FailWaiting(t) \/ UNCHANGED call
    BY <1>3 DEF DeliverRefresh, RefreshRefused, Lose, Settles
  <2> QED
    BY <2>1, <2>2, WaitingSettled
<1>4. Next \/ UNCHANGED vars => \/ UNCHANGED <<call, executed>>
                              \/ \E d \in Call : Ask(d) \/ Execute(d) \/ RetryWithRefresh(d) \/ GiveUp(d)
                                                 \/ LoseCall(d) \/ LoseAnswer(d)
                              \/ \E t \in Tab : DeliverRefresh(t) \/ RefreshRefused(t) \/ \E k \in Kind : Lose(t, k)
  BY DEF Next, vars, calls, Tick, SignInElsewhere, WriteOrphan, Serve, Write, Submit, FormRefused, Refuse,
         KeepFresh, DeliverSignIn, DeliverInvite, DeliverSignOut
<1> QED
  BY <1>1, <1>2, <1>3, <1>4

(* No call is carried out twice, whatever is lost, refreshed and sent       *)
(* again: shouldRetryWithRefresh of api.ts asks for a 401 and one retry.   *)
THEOREM NothingTwice == Spec => []CarriedOutOnce
<1>1. Init => CarriedOutOnce
  BY DEF Init, CarriedOutOnce, NewCall
<1> QED
  BY <1>1, TypeCorrect, OnceNext, PTL DEF Spec

----------------------------------------------------------------------------
(* One exchange moves at a time. *)

Only(t, k) == \A u \in Tab, l \in Kind : <<u, l>> # <<t, k>> => flight'[u][l] = flight[u][l]

LEMMA Slot ==
  ASSUME TypeOK, NEW t \in Tab, NEW k \in Kind, NEW r, flight' = [flight EXCEPT ![t][k] = r]
  PROVE  flight'[t][k] = r /\ Only(t, k)
  BY DEF TypeOK, Only

LEMMA LandSlot ==
  ASSUME TypeOK, NEW t \in Tab, NEW k \in Kind, Land(t, k)
  PROVE  flight'[t][k] = Landed /\ Only(t, k)
  BY Slot DEF Land

LEMMA StartSlot ==
  ASSUME TypeOK, NEW t \in Tab, StartRefresh(t)
  PROVE  /\ Only(t, "refresh")
         /\ \/ flight'[t]["refresh"] = [at |-> "sent", token |-> cookie]
            \/ flight'[t]["refresh"] = flight[t]["refresh"]
<1>1. "refresh" \in Kind
  BY DEF Kind
<1>2. CASE At(t, "refresh") = "none"
  BY <1>1, <1>2, Slot DEF StartRefresh, Send
<1>3. CASE At(t, "refresh") # "none"
  BY <1>3 DEF StartRefresh, Only
<1> QED
  BY <1>2, <1>3

(* A step that begins, ends or leaves alone an exchange the server has not  *)
(* accepted, or ends one whose answer is lost.                             *)
Moves(t, k) ==
    /\ Only(t, k)
    /\ \/ flight'[t][k].at \in {"none", "refused"}
       \/ k = "refresh" /\ flight'[t][k] = [at |-> "sent", token |-> cookie]
       \/ flight'[t][k] = flight[t][k]
    /\ UNCHANGED <<cookie, stored>>
    /\ access' => access
    /\ ~out' \/ UNCHANGED out

(* The answer of an exchange is lost only in a disturbance. *)
Settled(t, k) ==
    \/ disturbed'
    \/ UNCHANGED <<disturbed, orphans>> /\ (InAnswer(t, k) => flight'[t][k] = flight[t][k])

LEMMA LoseMoves == ASSUME TypeOK, NEW t \in Tab, NEW k \in Kind, Lose(t, k) PROVE Moves(t, k) /\ Settled(t, k)
<1>1. flight'[t][k] = Landed /\ Only(t, k)
  BY LandSlot DEF Lose, Settles
<1>2. \/ disturbed'
      \/ UNCHANGED <<disturbed, orphans>> /\ ~InAnswer(t, k)
  <2>1. CASE InAnswer(t, k)
    BY <2>1 DEF Lose, InAnswer, TypeOK
  <2>2. CASE ~InAnswer(t, k)
    <3>1. orphans' = orphans
      BY <2>2 DEF Lose, InAnswer
    <3>2. disturbed' = (disturbed \/ FALSE)
      BY <2>2, Zenon DEF Lose, InAnswer
    <3>3. disturbed' = disturbed
      BY <3>2 DEF TypeOK
    <3> QED
      BY <2>2, <3>1, <3>3
  <2> QED
    BY <2>1, <2>2
<1> QED
  BY <1>1, <1>2 DEF Lose, Moves, Settled, Landed, browser

LEMMA FormMoves == ASSUME TypeOK, NEW t \in Tab, NEW k \in Kind, FormRefused(t, k) PROVE Moves(t, k) /\ Settled(t, k)
  BY LandSlot DEF FormRefused, Moves, Settled, Landed, browser, server, history, InAnswer

LEMMA RefuseMoves == ASSUME TypeOK, NEW t \in Tab, Refuse(t) PROVE Moves(t, "refresh") /\ Settled(t, "refresh")
<1>1. /\ flight' = [flight EXCEPT ![t]["refresh"] = [flight[t]["refresh"] EXCEPT !.at = "refused"]]
      /\ "refresh" \in Kind
  BY DEF Refuse, Kind
<1>2. /\ flight'[t]["refresh"] = [flight[t]["refresh"] EXCEPT !.at = "refused"]
      /\ Only(t, "refresh")
  BY <1>1, Slot
<1>3. flight'[t]["refresh"].at = "refused"
  BY <1>1, <1>2 DEF TypeOK
<1> QED
  BY <1>2, <1>3 DEF Refuse, Moves, Settled, browser, server, history, InAnswer, At

LEMMA RefusedMoves ==
  ASSUME TypeOK, NEW t \in Tab, RefreshRefused(t) PROVE Moves(t, "refresh") /\ Settled(t, "refresh")
<1>1. flight'[t]["refresh"] = Landed /\ Only(t, "refresh")
  BY LandSlot DEF RefreshRefused, Kind
<1> QED
  BY <1>1 DEF RefreshRefused, SignedOut, Moves, Settled, Landed, server, history, InAnswer

LEMMA StartMoves ==
  ASSUME TypeOK, NEW t \in Tab, StartRefresh(t), UNCHANGED <<server, cookie, access, history>>
  PROVE  Moves(t, "refresh") /\ Settled(t, "refresh")
<1>1. At(t, "refresh") # "none" => flight'[t]["refresh"] = flight[t]["refresh"]
  BY DEF StartRefresh
<1> QED
  BY <1>1, StartSlot DEF Moves, Settled, server, history, InAnswer

(* Every step is such a move, or one of those that are dealt with apart. *)
LEMMA Steps ==
  ASSUME TypeOK, [Next]_vars
  PROVE  \/ UNCHANGED <<flight, cookie, stored, orphans, disturbed, access, out>>
         \/ SignInElsewhere
         \/ \E token \in Token : WriteOrphan(token)
         \/ \E t \in Tab, k \in Kind : Moves(t, k) /\ Settled(t, k)
         \/ \E t \in Tab, k \in Kind : Serve(t, k) \/ Write(t, k) \/ Submit(t, k)
         \/ \E t \in Tab : DeliverRefresh(t) \/ DeliverSignIn(t) \/ DeliverInvite(t) \/ DeliverSignOut(t)
<1> DEFINE Still == UNCHANGED <<flight, cookie, stored, orphans, disturbed, access, out>>
<1> "refresh" \in Kind
  BY DEF Kind
<1>1. CASE UNCHANGED vars \/ Tick
  <2>1. Still
    BY <1>1 DEF vars, server, browser, history, Tick
  <2> QED
    BY <2>1
<1>2. ASSUME NEW c \in Call, Ask(c) \/ Execute(c) \/ GiveUp(c) \/ LoseCall(c) \/ LoseAnswer(c) PROVE Still
  BY <1>2 DEF server, browser, history, Ask, Execute, GiveUp, LoseCall, LoseAnswer
<1>3. ASSUME NEW c \in Call, RetryWithRefresh(c) PROVE \E t \in Tab, k \in Kind : Moves(t, k) /\ Settled(t, k)
  <2>1. TabOf[c] \in Tab
    BY TabAssumption
  <2>2. UNCHANGED <<server, cookie, access, history>> /\ StartRefresh(TabOf[c])
    BY <1>3 DEF RetryWithRefresh, browser
  <2> QED
    BY <2>1, <2>2, StartMoves
<1>4. ASSUME NEW t \in Tab, KeepFresh(t) PROVE Moves(t, "refresh") /\ Settled(t, "refresh")
  BY <1>4, StartMoves DEF KeepFresh
<1> QED
  BY <1>1, <1>2, <1>3, <1>4, LoseMoves, FormMoves, RefuseMoves, RefusedMoves DEF Next

----------------------------------------------------------------------------
(* A sign-out sticks. *)

LEMMA OutMoves ==
  ASSUME TypeOK, OutInv, NEW t \in Tab, NEW k \in Kind, Moves(t, k)
  PROVE  OutInv'
<1> SUFFICES ASSUME out' PROVE OutInv'
  BY DEF OutInv
<1>1. out /\ ~access /\ ~access' /\ cookie = 0 /\ cookie' = 0
  BY DEF OutInv, Moves
<1>2. ASSUME NEW u \in Tab, NEW l \in {"signin", "invite"} PROVE ~UnderWay(u, l)'
  BY <1>1 DEF OutInv, Moves, Only, UnderWay, At, Kind, Form
<1>3. ASSUME NEW u \in Tab
      PROVE  ~InAnswer(u, "refresh")' /\ (At(u, "refresh")' = "sent" => flight'[u]["refresh"].token = 0)
  BY <1>1 DEF OutInv, Moves, Only, InAnswer, At, Kind
<1> QED
  BY <1>1, <1>2, <1>3 DEF OutInv

LEMMA ServeSlot ==
  ASSUME TypeOK, NEW t \in Tab, NEW k \in Kind, Serve(t, k)
  PROVE  /\ Only(t, k)
         /\ flight'[t][k].at = IF Stores(k) THEN "signed" ELSE "answered"
<1> DEFINE r == [at |-> IF Stores(k) THEN "signed" ELSE "answered", token |-> IF k = "signout" THEN 0 ELSE second]
<1>1. flight' = [flight EXCEPT ![t][k] = r]
  BY DEF Serve
<1>2. flight'[t][k] = r /\ Only(t, k)
  BY <1>1, Slot
<1> QED
  BY <1>2

LEMMA WriteSlot ==
  ASSUME TypeOK, NEW t \in Tab, NEW k \in Kind, Write(t, k)
  PROVE  /\ Only(t, k)
         /\ flight'[t][k].at = "answered"
         /\ flight'[t][k].token = flight[t][k].token
<1> DEFINE r == [flight[t][k] EXCEPT !.at = "answered"]
<1>1. flight' = [flight EXCEPT ![t][k] = r]
  BY DEF Write
<1>2. flight'[t][k] = r /\ Only(t, k)
  BY <1>1, Slot
<1>3. r.at = "answered" /\ r.token = flight[t][k].token
  BY DEF TypeOK
<1> QED
  BY <1>2, <1>3

LEMMA OutServes ==
  ASSUME TypeOK, OutInv, NEW t \in Tab, NEW k \in Kind, Serve(t, k) \/ Write(t, k)
  PROVE  OutInv'
<1> SUFFICES ASSUME out PROVE OutInv'
  BY DEF OutInv, Serve, Write, history
<1>1. At(t, k) \in {"sent", "signed"} /\ UNCHANGED <<cookie, access>>
  BY DEF Serve, Write, browser
<1>2. k \notin {"signin", "invite"}
  BY <1>1 DEF OutInv, UnderWay
<1>3. k # "refresh"
  BY <1>1 DEF OutInv, InAnswer, At, Serve, Write, Accepts
<1>4. Only(t, k)
  BY ServeSlot, WriteSlot
<1> QED
  BY <1>1, <1>2, <1>3, <1>4 DEF OutInv, Only, UnderWay, InAnswer, At, Kind, Form, Serve, Write, history

LEMMA OutForms ==
  ASSUME TypeOK, OutInv, NEW t \in Tab, NEW k \in Kind, Submit(t, k)
  PROVE  OutInv'
<1> SUFFICES ASSUME out' PROVE OutInv'
  BY DEF OutInv
<1>1. k = "signout" /\ out /\ cookie' = cookie /\ access' = FALSE
  BY DEF Submit, SignedOut
<1>2. Only(t, k)
  BY Slot DEF Submit, Send
<1> QED
  BY <1>1, <1>2 DEF OutInv, Only, UnderWay, InAnswer, At, Kind, Form

LEMMA OutAnswers ==
  ASSUME TypeOK, OutInv, NEW t \in Tab,
         DeliverRefresh(t) \/ DeliverSignIn(t) \/ DeliverInvite(t) \/ DeliverSignOut(t)
  PROVE  OutInv'
<1>1. CASE ~DeliverSignOut(t)
  BY <1>1 DEF OutInv, UnderWay, InAnswer, DeliverRefresh, DeliverSignIn, DeliverInvite, history
<1>2. CASE DeliverSignOut(t)
  <2> SUFFICES ASSUME out' PROVE OutInv'
    BY DEF OutInv
  <2>1. ~access /\ Alone(t, "signout") /\ access' = access /\ cookie' = 0
    BY <1>2 DEF DeliverSignOut, CookieAfterSignOut
  <2>2. flight'[t]["signout"] = Landed /\ Only(t, "signout")
    BY <1>2, LandSlot DEF DeliverSignOut, Kind, Form
  <2> QED
    BY <2>1, <2>2 DEF OutInv, Only, Alone, UnderWay, InAnswer, At, Kind, Form
<1> QED
  BY <1>1, <1>2

LEMMA OutNext == TypeOK /\ OutInv /\ [Next]_vars => OutInv'
<1> SUFFICES ASSUME TypeOK, OutInv, [Next]_vars PROVE OutInv'
  OBVIOUS
<1>1. CASE UNCHANGED <<flight, cookie, stored, orphans, disturbed, access, out>>
  BY <1>1 DEF OutInv, UnderWay, InAnswer, At
<1>2. CASE SignInElsewhere \/ \E token \in Token : WriteOrphan(token)
  BY <1>2 DEF SignInElsewhere, WriteOrphan, browser, history, OutInv, UnderWay, InAnswer, At
<1> QED
  BY <1>1, <1>2, Steps, OutMoves, OutServes, OutForms, OutAnswers

(* A sign-out with nothing else under way is final until a form is sent:    *)
(* what the timers and calls of other tabs send has no cookie.             *)
THEOREM SignedOutStays == Spec => []SignOutSticks
<1>1. Init => OutInv
  BY DEF Init, OutInv
<1>2. OutInv => SignOutSticks
  BY DEF OutInv, SignOutSticks
<1> QED
  BY <1>1, <1>2, TypeCorrect, OutNext, PTL DEF Spec

----------------------------------------------------------------------------
(* A session ends for a reason. *)

Settling == SignedInv /\ QuietInv

LEMMA QuietMoves ==
  ASSUME TypeOK, Settling, NEW t \in Tab, NEW k \in Kind, Moves(t, k), Settled(t, k)
  PROVE  Settling'
<1>1. SignedInv'
  BY DEF Settling, SignedInv, Moves, Only, At, Stores
<1>2. QuietInv'
  <2> SUFFICES ASSUME ~disturbed' PROVE QuietInv'
    BY DEF QuietInv
  <2>1. UNCHANGED <<disturbed, orphans, cookie, stored>>
    BY DEF Settled, Moves
  <2>2. \A u \in Tab, l \in Kind : InAnswer(u, l)' => flight'[u][l] = flight[u][l]
    BY DEF Moves, Only, InAnswer, At
  <2>3. \A u \in Tab, l \in Kind : InAnswer(u, l) => flight'[u][l] = flight[u][l]
    BY DEF Settled, Moves, Only
  <2> QED
    BY <2>1, <2>2, <2>3 DEF Settling, QuietInv, InAnswer, At
<1> QED
  BY <1>1, <1>2 DEF Settling

LEMMA QuietServes ==
  ASSUME TypeOK, Settling, NEW t \in Tab, NEW k \in Kind, Serve(t, k)
  PROVE  Settling'
<1>1. SignedInv'
  BY ServeSlot DEF Settling, SignedInv, Only, At, Stores
<1>2. ASSUME ~disturbed' PROVE QuietInv'
  <2>1. ~disturbed /\ ~Overlaps(t, k)
    BY <1>2 DEF Serve
  <2>2. orphans = {} /\ orphans' = {} /\ UNCHANGED <<cookie, stored>>
    BY <2>1 DEF Overlaps, Serve, server, browser
  <2>3. \A u \in Tab, l \in Kind : InAnswer(u, l)' => <<u, l>> = <<t, k>>
    BY <2>1, ServeSlot DEF Overlaps, Only, InAnswer, At
  <2>4. \A u \in Tab, l \in Kind : ~InAnswer(u, l)
    BY <2>1 DEF Overlaps, Serve, InAnswer
  <2>5. cookie \in {0, stored}
    BY <2>1, <2>4 DEF Settling, QuietInv, InAnswer
  <2>6. \A u \in Tab, l \in Kind : Stores(l) => At(u, l)' # "answered"
    BY <2>3, ServeSlot DEF InAnswer, At
  <2> QED
    BY <2>2, <2>3, <2>5, <2>6 DEF QuietInv
<1> QED
  BY <1>1, <1>2 DEF Settling, QuietInv

LEMMA QuietWrites ==
  ASSUME TypeOK, Settling, NEW t \in Tab, NEW k \in Kind, Write(t, k)
  PROVE  Settling'
<1>1. SignedInv'
  BY WriteSlot DEF Settling, SignedInv, Only, At, Stores
<1>2. ASSUME ~disturbed' PROVE QuietInv'
  <2>1. ~disturbed /\ UNCHANGED <<cookie, orphans>> /\ stored' = flight[t][k].token /\ At(t, k) = "signed"
    BY <1>2 DEF Write, history, browser
  <2>2. \A u \in Tab, l \in Kind : InAnswer(u, l) => u = t /\ l = k
    BY <2>1 DEF Settling, QuietInv, InAnswer
  <2>3. \A u \in Tab, l \in Kind : InAnswer(u, l)' => u = t /\ l = k
    BY <2>2, WriteSlot DEF Only, InAnswer, At
  <2>4. Stores(k) /\ At(t, k)' = "answered" /\ flight'[t][k].token = stored'
    BY <2>1, WriteSlot DEF Settling, SignedInv, At
  <2> QED
    BY <2>1, <2>3, <2>4 DEF Settling, QuietInv, InAnswer
<1> QED
  BY <1>1, <1>2 DEF Settling, QuietInv

LEMMA QuietForms ==
  ASSUME TypeOK, Settling, NEW t \in Tab, NEW k \in Kind, Submit(t, k)
  PROVE  Settling'
<1>1. flight'[t][k] = [at |-> "sent", token |-> 0] /\ Only(t, k)
  BY Slot DEF Submit, Send
<1>2. At(t, k) = "none" /\ UNCHANGED <<stored, orphans, cookie, disturbed>>
  BY DEF Submit, server
<1>3. SignedInv'
  BY <1>1 DEF Settling, SignedInv, Only, At, Stores
<1>4. \A u \in Tab, l \in Kind : InAnswer(u, l) \/ InAnswer(u, l)' => flight'[u][l] = flight[u][l]
  BY <1>1, <1>2 DEF Only, InAnswer, At
<1>5. QuietInv'
  BY <1>2, <1>4 DEF Settling, QuietInv, InAnswer, At
<1> QED
  BY <1>3, <1>5 DEF Settling

(* The answer that comes in was the only one under way. *)
LEMMA QuietLands ==
  ASSUME TypeOK, SignedInv, NEW t \in Tab, NEW k \in Kind, Land(t, k),
         ~disturbed' =>
            /\ orphans' = {} /\ cookie' \in {0, stored'}
            /\ \A u \in Tab, l \in Kind : InAnswer(u, l) => u = t /\ l = k
  PROVE  Settling'
<1>1. flight'[t][k] = Landed /\ Only(t, k)
  BY LandSlot
<1>2. SignedInv'
  BY <1>1 DEF SignedInv, Only, At, Stores, Landed
<1>3. ASSUME ~disturbed' PROVE QuietInv'
  <2>1. \A u \in Tab, l \in Kind : ~InAnswer(u, l)'
    BY <1>1, <1>3 DEF Only, InAnswer, At, Landed
  <2> QED
    BY <1>3, <2>1 DEF QuietInv, InAnswer
<1> QED
  BY <1>2, <1>3 DEF Settling, QuietInv

LEMMA QuietAnswers ==
  ASSUME TypeOK, Settling, NEW t \in Tab,
         DeliverRefresh(t) \/ DeliverSignIn(t) \/ DeliverInvite(t) \/ DeliverSignOut(t)
  PROVE  Settling'
<1> USE DEF Settling
<1> "refresh" \in Kind /\ "signin" \in Kind /\ "invite" \in Kind /\ "signout" \in Kind
  BY DEF Kind, Form
<1>1. ASSUME NEW k \in Kind, ~disturbed, At(t, k) = "answered"
      PROVE  /\ orphans = {}
             /\ \A u \in Tab, l \in Kind : InAnswer(u, l) => u = t /\ l = k
             /\ Stores(k) => flight[t][k].token = stored
  BY <1>1 DEF QuietInv, InAnswer
<1>2. CASE DeliverRefresh(t)
  BY <1>1, <1>2, QuietLands DEF DeliverRefresh, SignedIn, Stores, server, history
<1>3. CASE DeliverSignIn(t)
  <2>1. CASE ~disturbed
    BY <1>1, <1>3, <2>1, QuietLands DEF DeliverSignIn, SignedIn, Stores, server
  <2>2. CASE Alone(t, "signin") /\ flight[t]["signin"].token = stored
    <3>1. orphans = {} /\ \A u \in Tab, l \in Kind : InAnswer(u, l) => u = t /\ l = "signin"
      BY <2>2 DEF Alone, UnderWay, InAnswer
    <3> QED
      BY <1>3, <2>2, <3>1, QuietLands DEF DeliverSignIn, SignedIn, server
  <2>3. CASE disturbed /\ ~(Alone(t, "signin") /\ flight[t]["signin"].token = stored)
    BY <1>3, <2>3, QuietLands DEF DeliverSignIn
  <2> QED
    BY <2>1, <2>2, <2>3
<1>4. CASE DeliverInvite(t)
  BY <1>4, QuietLands DEF DeliverInvite
<1>5. CASE DeliverSignOut(t)
  BY <1>1, <1>5, QuietLands DEF DeliverSignOut, CookieAfterSignOut, server
<1> QED
  BY <1>2, <1>3, <1>4, <1>5

LEMMA QuietNext == TypeOK /\ Settling /\ [Next]_vars => Settling'
<1> SUFFICES ASSUME TypeOK, Settling, [Next]_vars PROVE Settling'
  OBVIOUS
<1>1. CASE UNCHANGED <<flight, cookie, stored, orphans, disturbed, access, out>>
  BY <1>1 DEF Settling, SignedInv, QuietInv, InAnswer, At
<1>2. CASE SignInElsewhere
  BY <1>2 DEF SignInElsewhere, Settling, SignedInv, QuietInv, At
<1>3. CASE \E token \in Token : WriteOrphan(token)
  BY <1>3 DEF WriteOrphan, history, Settling, SignedInv, QuietInv, At
<1> QED
  BY <1>1, <1>2, <1>3, Steps, QuietMoves, QuietServes, QuietWrites, QuietForms, QuietAnswers

(* A session that no other device, lost answer, overlap or invitation has   *)
(* disturbed keeps a cookie that refresh() of auth.service.ts accepts.      *)
THEOREM SessionsLast == Spec => []SessionEndsForAReason
<1>1. Init => Settling
  BY DEF Init, Settling, SignedInv, QuietInv, InAnswer, At, Landed
<1>2. Settling => SessionEndsForAReason
  <2> SUFFICES ASSUME Settling, ~disturbed, cookie \notin {0, stored}
               PROVE  \E t \in Tab, k \in Kind : At(t, k) = "answered" /\ flight[t][k].token = stored
    BY DEF SessionEndsForAReason
  <2> QED
    BY DEF Settling, QuietInv
<1> QED
  BY <1>1, <1>2, TypeCorrect, QuietNext, PTL DEF Spec
=============================================================================
