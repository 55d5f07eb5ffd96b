------------------------ MODULE WebsocketClientProofs ------------------------
(***************************************************************************)
(* The websocket client for any callers, listeners, signals and lost       *)
(* connections.  There is one connection at a time and the client gives up *)
(* in time (Inv); what is asked over it is asked once, ids are current and *)
(* requests time out (AllInv).  The two parts are apart because the first  *)
(* needs nothing of the requests.                                          *)
(***************************************************************************)
EXTENDS WebsocketClient, FiniteSetTheorems, TLAPS

(* No socket is ever closed by the client, since it makes a new one only   *)
(* when the last has had its close event.                                  *)
State == {"connecting", "open", "closed", "failed"}

LastLives == sockets # <<>> /\ sockets[Len(sockets)] \in {"connecting", "open"}

TypeInv ==
  /\ sockets \in Seq(State)
  /\ connection \in Nat /\ disconnects \in Nat /\ reconnects \in 0..1

(* OneConnection is inductive only with the states in which a new socket   *)
(* is made: the timer has fired, or #connectionPromise is null.            *)
OneInv ==
  /\ \A k \in DOMAIN sockets : sockets[k] \in {"connecting", "open"} => k = Len(sockets)
  /\ LastLives => reconnects = 0 /\ connection # None
  /\ connection = None => reconnects = 0

(* Whenever another attempt is under way or to be made there have not been *)
(* too many.                                                               *)
MayTry == LastLives \/ reconnects > 0 \/ connection = None

(* The k-th socket is the last that has been open, or k is 0 if there is   *)
(* none, and disconnects counts its close event and the failures since.    *)
Counted(k) ==
  /\ k # 0 => Connected(k)
  /\ \A j \in DOMAIN sockets : k < j => ~ Connected(j)
  /\ Len(sockets) - k + (IF k = 0 THEN 0 ELSE 1) = disconnects + (IF LastLives THEN 1 ELSE 0)

CountInv ==
  /\ disconnects <= MaxReconnects + 1
  /\ MayTry => disconnects <= MaxReconnects
  /\ \E k \in 0..Len(sockets) : Counted(k)

Inv == TypeInv /\ OneInv /\ CountInv

LEMMA InitInv == Init => Inv
<1> SUFFICES ASSUME Init PROVE Inv
  OBVIOUS
<1>1. /\ sockets = <<>> /\ connection = 0 /\ disconnects = 0 /\ reconnects = 0
      /\ Len(sockets) = 0 /\ DOMAIN sockets = {} /\ MaxReconnects \in Nat
  BY Options DEF Init, None
<1>2. Counted(0)
  BY <1>1 DEF Counted, LastLives
<1> QED
  BY <1>1, <1>2 DEF Inv, TypeInv, OneInv, CountInv, LastLives, None

(* #webSocket?.close() finds nothing to close when no socket lives.        *)
LEMMA NothingToClose ==
  ASSUME Inv, ~ LastLives
  PROVE  CloseSocket = sockets
<1>1. sockets \in Seq(State) /\ DOMAIN sockets = 1..Len(sockets)
  BY DEF Inv, TypeInv
<1>2. \A k \in DOMAIN sockets : sockets[k] \in State
  BY <1>1
<1>3. \A k \in DOMAIN sockets : ~ (k = Len(sockets) /\ sockets[k] \in Live)
  BY <1>1, <1>2 DEF LastLives, Live, State
<1> QED
  BY <1>1, <1>3 DEF CloseSocket

(* A new connection is attempted.                                          *)
LEMMA NewConnection ==
  ASSUME Inv, ~ LastLives, MayTry,
         sockets' = NewSocket, connection' = Len(sockets) + 1,
         reconnects' = 0, UNCHANGED disconnects
  PROVE  Inv'
<1> DEFINE n == Len(sockets)
<1>1. /\ sockets \in Seq(State) /\ n \in Nat /\ DOMAIN sockets = 1..n
      /\ disconnects \in Nat /\ disconnects <= MaxReconnects /\ MaxReconnects \in Nat
  BY Options DEF Inv, TypeInv, CountInv
<1>2. sockets' = Append(sockets, "connecting")
  BY NothingToClose DEF NewSocket
<1>3. /\ sockets' \in Seq(State) /\ Len(sockets') = n + 1 /\ DOMAIN sockets' = 1..(n + 1)
      /\ sockets'[n + 1] = "connecting"
      /\ \A k \in 1..n : sockets'[k] = sockets[k]
  BY <1>1, <1>2 DEF State
<1>4. LastLives'
  BY <1>1, <1>3 DEF LastLives
<1>5. TypeInv'
  BY <1>1, <1>3 DEF TypeInv
<1>6. \A k \in 1..n : sockets[k] \notin {"connecting", "open"}
  BY <1>1 DEF Inv, OneInv, LastLives
<1>7. OneInv'
  BY <1>1, <1>3, <1>6 DEF OneInv, None
<1>8. CountInv'
  <2>1. PICK k \in 0..n : Counted(k)
    BY DEF Inv, CountInv
  <2>2. k # 0 => Connected(k)'
    BY <1>1, <1>3, <2>1 DEF Counted, Connected
  <2>3. \A j \in 1..(n + 1) : k < j => ~ Connected(j)'
    <3> TAKE j \in 1..(n + 1)
    <3>1. CASE j = n + 1
      BY <1>3, <3>1 DEF Connected
    <3>2. CASE j \in 1..n
      BY <1>1, <1>3, <2>1, <3>2 DEF Counted, Connected
    <3> QED
      BY <1>1, <3>1, <3>2
  <2>4. n - k + (IF k = 0 THEN 0 ELSE 1) = disconnects
    BY <1>1, <2>1 DEF Counted
  <2>5. Counted(k)'
    BY <1>1, <1>3, <1>4, <2>2, <2>3, <2>4 DEF Counted
  <2>6. k \in 0..Len(sockets')
    BY <1>1, <1>3
  <2>7. disconnects' <= MaxReconnects /\ disconnects' <= MaxReconnects + 1
    BY <1>1
  <2> QED
    BY <2>5, <2>6, <2>7 DEF CountInv
<1> QED
  BY <1>5, <1>7, <1>8 DEF Inv

(* Nothing happens to the connection.                                      *)
LEMMA SameConnection ==
  ASSUME Inv, UNCHANGED connectionVars
  PROVE  Inv'
<1>1. LastLives' = LastLives /\ MayTry' = MayTry /\ Len(sockets') = Len(sockets)
  BY DEF connectionVars, LastLives, MayTry
<1>2. \A k : Counted(k)' <=> Counted(k)
  BY <1>1 DEF connectionVars, Counted, Connected
<1>3. TypeInv' /\ OneInv'
  BY <1>1 DEF connectionVars, Inv, TypeInv, OneInv
<1>4. CountInv'
  BY <1>1, <1>2 DEF connectionVars, Inv, CountInv
<1> QED
  BY <1>3, <1>4 DEF Inv

(* makeRequest makes a connection only where there is no promise of one.   *)
LEMMA MakeRequestsInv ==
  ASSUME Inv, NEW ops, MakeRequests(ops), UNCHANGED <<disconnects, reconnects>>
  PROVE  Inv'
<1>1. CASE UNCHANGED <<sockets, connection>>
  BY <1>1, SameConnection DEF connectionVars
<1>2. CASE connection = None /\ sockets' = NewSocket /\ connection' = Len(sockets) + 1
  <2>1. ~ LastLives /\ MayTry /\ reconnects' = 0
    BY <1>2 DEF Inv, OneInv, MayTry
  <2> QED
    BY <1>2, <2>1, NewConnection
<1> QED
  BY <1>1, <1>2 DEF MakeRequests

LEMMA ReconnectInv ==
  ASSUME Inv, Reconnect
  PROVE  Inv'
<1>1. /\ reconnects = 1 /\ reconnects' = 0 /\ UNCHANGED disconnects
      /\ \/ sockets' = CloseSocket /\ connection' = None
         \/ sockets' = NewSocket /\ connection' = Len(sockets) + 1
  BY DEF Reconnect, Inv, TypeInv
<1>2. ~ LastLives /\ MayTry
  BY <1>1 DEF Inv, OneInv, MayTry
<1>3. CASE sockets' = NewSocket /\ connection' = Len(sockets) + 1
  BY <1>1, <1>2, <1>3, NewConnection
<1>4. CASE sockets' = CloseSocket /\ connection' = None
  <2>1. sockets' = sockets
    BY <1>2, <1>4, NothingToClose
  <2> QED
    BY <1>1, <1>2, <1>4, <2>1
       DEF Inv, TypeInv, OneInv, CountInv, MayTry, Counted, Connected, LastLives, None
<1> QED
  BY <1>1, <1>3, <1>4

(* The event of a socket that lives is one of the last socket's.           *)
LEMMA OpenInv ==
  ASSUME Inv, NEW k \in DOMAIN sockets, Open(k)
  PROVE  Inv'
<1> DEFINE n == Len(sockets)
<1>1. /\ sockets[k] = "connecting" /\ sockets' = [sockets EXCEPT ![k] = "open"]
      /\ disconnects' = 0 /\ UNCHANGED <<connection, reconnects>>
  BY DEF Open
<1>2. /\ sockets \in Seq(State) /\ n \in Nat /\ DOMAIN sockets = 1..n
      /\ k = n /\ n > 0 /\ MaxReconnects \in Nat
  BY <1>1, Options DEF Inv, TypeInv, OneInv
<1>3. /\ sockets' \in Seq(State) /\ Len(sockets') = n /\ DOMAIN sockets' = 1..n
      /\ sockets'[n] = "open" /\ \A j \in 1..n : j # n => sockets'[j] = sockets[j]
  BY <1>1, <1>2 DEF State
<1>4. LastLives /\ LastLives'
  BY <1>1, <1>2, <1>3 DEF LastLives
<1>5. TypeInv'
  BY <1>1, <1>3 DEF Inv, TypeInv
<1>6. OneInv'
  BY <1>1, <1>2, <1>3, <1>4 DEF Inv, OneInv
<1>7. Counted(n)'
  BY <1>1, <1>2, <1>3, <1>4 DEF Counted, Connected
<1>8. CountInv'
  BY <1>1, <1>2, <1>3, <1>7 DEF CountInv
<1> QED
  BY <1>5, <1>6, <1>8 DEF Inv

LEMMA CloseInv ==
  ASSUME Inv, NEW k \in DOMAIN sockets, Close(k)
  PROVE  Inv'
<1> DEFINE n == Len(sockets)
<1>1. /\ sockets[k] \in Live
      /\ sockets' = [sockets EXCEPT ![k] = IF @ = "connecting" THEN "failed" ELSE "closed"]
      /\ disconnects' = disconnects + 1 /\ connection' = connection
      /\ reconnects' = reconnects + IF disconnects' <= MaxReconnects THEN 1 ELSE 0
  BY DEF Close, Counts, ConnectionKept
<1>2. /\ sockets \in Seq(State) /\ n \in Nat /\ DOMAIN sockets = 1..n
      /\ sockets[k] \in {"connecting", "open"}
      /\ MaxReconnects \in Nat /\ disconnects \in Nat
  <2>1. sockets \in Seq(State) /\ sockets[k] \in State
    BY DEF Inv, TypeInv
  <2> QED
    BY <1>1, <2>1, Options DEF Inv, TypeInv, Live, State
<1>3. k = n /\ n > 0 /\ LastLives
  BY <1>2 DEF Inv, OneInv, LastLives
<1>4. reconnects = 0 /\ connection # None /\ disconnects <= MaxReconnects
  BY <1>3 DEF Inv, OneInv, CountInv, MayTry
<1>5. /\ sockets' \in Seq(State) /\ Len(sockets') = n /\ DOMAIN sockets' = 1..n
      /\ sockets'[n] = IF sockets[n] = "connecting" THEN "failed" ELSE "closed"
      /\ \A j \in 1..n : j # n => sockets'[j] = sockets[j]
  BY <1>1, <1>2, <1>3 DEF State
<1>6. ~ LastLives'
  BY <1>3, <1>5 DEF LastLives
<1>7. TypeInv'
  BY <1>1, <1>2, <1>4, <1>5 DEF Inv, TypeInv
<1>8. OneInv'
  BY <1>1, <1>2, <1>4, <1>5, <1>6 DEF Inv, OneInv
<1>9. \E m \in 0..n : Counted(m)'
  <2>1. PICK m \in 0..n : Counted(m)
    BY DEF Inv, CountInv
  <2>2. \A j \in 1..n : Connected(j)' <=> Connected(j)
    BY <1>2, <1>3, <1>5 DEF Connected
  <2>3. n - m + (IF m = 0 THEN 0 ELSE 1) = disconnects + 1
    BY <1>3, <2>1 DEF Counted
  <2> QED
    BY <1>1, <1>2, <1>5, <1>6, <2>1, <2>2, <2>3 DEF Counted
<1>10. CountInv'
  BY <1>1, <1>2, <1>4, <1>5, <1>6, <1>9 DEF CountInv, MayTry
<1> QED
  BY <1>7, <1>8, <1>10 DEF Inv

LEMMA NextInv == Inv /\ [Next]_vars => Inv'
<1> SUFFICES ASSUME Inv, [Next]_vars PROVE Inv'
  OBVIOUS
<1>1. ASSUME NEW c \in Calls, Call(c) PROVE Inv'
  BY <1>1, MakeRequestsInv DEF Call
<1>2. ASSUME NEW s \in Subs, Subscribe(s) PROVE Inv'
  BY <1>2, MakeRequestsInv DEF Subscribe
<1>3. ASSUME NEW s \in Subs, Unsubscribe(s) PROVE Inv'
  <2>1. CASE subscriptionId[s] = None
    BY <1>3, <2>1, SameConnection DEF Unsubscribe, connectionVars
  <2>2. CASE subscriptionId[s] # None
    BY <1>3, <2>2, MakeRequestsInv DEF Unsubscribe
  <2> QED
    BY <2>1, <2>2
<1>4. ASSUME NEW x \in Signals, Abort(x) PROVE Inv'
  BY <1>4, SameConnection DEF Abort, RejectAll
<1>5. CASE Answers
  <2>1. UNCHANGED connectionVars
    BY <1>5 DEF Answers, AnswerPlain, AnswerSubscribe, AnswerUnsubscribe, Answered
  <2> QED
    BY <2>1, SameConnection
<1>6. CASE Reconnect
  BY <1>6, ReconnectInv
<1>7. ASSUME NEW k \in DOMAIN sockets, Open(k) \/ Close(k) PROVE Inv'
  BY <1>7, OpenInv, CloseInv
<1>8. ASSUME NEW id \in DOMAIN requests, Timeout(id) PROVE Inv'
  BY <1>8, SameConnection DEF Timeout, RejectAll
<1>9. CASE UNCHANGED vars
  BY <1>9, SameConnection DEF vars
<1> QED
  BY <1>1, <1>2, <1>3, <1>4, <1>5, <1>6, <1>7, <1>8, <1>9 DEF Next, Users, Connects, Dropped

LEMMA SpecInv == Spec => []Inv
BY InitInv, NextInv, PTL DEF Spec

(* Close events, reconnect timers and callers make connections             *)
(* (rpc-websocket-client.ts:96-101, 150-165, 188): whatever their order,   *)
(* one socket lives or one timer runs.                                     *)
THEOREM OneAtATime == Spec => []OneConnection
<1>1. Inv => OneConnection
  <2> SUFFICES ASSUME Inv PROVE OneConnection
    OBVIOUS
  <2> DEFINE L == {k \in DOMAIN sockets : sockets[k] \in Live}
  <2>1. \A k \in DOMAIN sockets : sockets[k] \in State
    BY DEF Inv, TypeInv
  <2>2. \A k \in L : k = Len(sockets)
    BY <2>1 DEF Inv, OneInv, Live, State
  <2>3. CASE LastLives
    <3>1. L = {Len(sockets)} /\ reconnects = 0
      BY <2>2, <2>3 DEF Inv, TypeInv, OneInv, LastLives, Live
    <3>2. Cardinality(L) = 1
      BY <3>1, FS_Singleton
    <3> QED
      BY <3>1, <3>2 DEF OneConnection
  <2>4. CASE ~ LastLives
    <3>1. L = {}
      BY <2>1, <2>2, <2>4 DEF Inv, TypeInv, LastLives, Live, State
    <3>2. Cardinality(L) = 0
      BY <3>1, FS_EmptySet
    <3> QED
      BY <3>2 DEF OneConnection, Inv, TypeInv
  <2> QED
    BY <2>3, <2>4
<1> QED
  BY <1>1, SpecInv, PTL

(* rpc-websocket-client.ts:61, 150-153: for any maxReconnects the client   *)
(* makes that many attempts after it has lost a connection, and one more   *)
(* if it never had one, whoever calls it in between.                       *)
THEOREM GivesUpInTime == Spec => []GivesUp
<1>1. Inv => GivesUp
  <2> SUFFICES ASSUME Inv PROVE GivesUp
    OBVIOUS
  <2>1. PICK k \in 0..Len(sockets) : Counted(k)
    BY DEF Inv, CountInv
  <2>2. /\ Len(sockets) \in Nat /\ DOMAIN sockets = 1..Len(sockets)
        /\ disconnects \in Nat /\ MaxReconnects \in Nat
        /\ disconnects + (IF LastLives THEN 1 ELSE 0) <= MaxReconnects + 1
    <3>1. /\ Len(sockets) \in Nat /\ DOMAIN sockets = 1..Len(sockets)
          /\ disconnects \in Nat /\ MaxReconnects \in Nat
      BY Options DEF Inv, TypeInv
    <3>2. CASE LastLives
      BY <3>1, <3>2 DEF Inv, CountInv, MayTry
    <3>3. CASE ~ LastLives
      BY <3>1, <3>3 DEF Inv, CountInv
    <3> QED
      BY <3>1, <3>2, <3>3
  <2>3. CASE k = 0
    <3>1. Counted(0)
      BY <2>1, <2>3
    <3>2. Len(sockets) = disconnects + (IF LastLives THEN 1 ELSE 0)
      <4> DEFINE m == disconnects + (IF LastLives THEN 1 ELSE 0)
      <4>1. Len(sockets) - 0 + (IF 0 = 0 THEN 0 ELSE 1) = m
        BY <3>1 DEF Counted
      <4> HIDE DEF m
      <4>2. Len(sockets) - 0 + 0 = m
        BY <4>1
      <4>3. Len(sockets) = m
        BY <2>2, <4>2
      <4> QED
        BY <4>3 DEF m
    <3>3. \A j \in 1..Len(sockets) : ~ Connected(j)
      <4> TAKE j \in 1..Len(sockets)
      <4>1. 0 < j
        BY <2>2
      <4> QED
        BY <2>2, <3>1, <4>1 DEF Counted
    <3>4. WereOpen = {} /\ Len(sockets) <= MaxReconnects + 1
      BY <2>2, <3>2, <3>3 DEF WereOpen
    <3> QED
      BY <3>4 DEF GivesUp
  <2>4. CASE k # 0
    <3>1. Len(sockets) - k <= MaxReconnects
      BY <2>1, <2>2, <2>4 DEF Counted
    <3>2. k \in WereOpen
      BY <2>1, <2>2, <2>4 DEF Counted, WereOpen
    <3> QED
      BY <3>1, <3>2 DEF GivesUp
  <2> QED
    BY <2>3, <2>4
<1> QED
  BY <1>1, SpecInv, PTL
-----------------------------------------------------------------------------
(* The requests.                                                           *)
Operations ==
  [kind : {"call"}, who : Calls, id : {None}]
    \cup [kind : {"subscribe", "renew"}, who : Subs, id : {None}]
    \cup [kind : {"unsubscribe"}, who : Subs, id : 1..Cardinality(Subs)]

Requests == [op : Operations, socket : Nat, settled : BOOLEAN, over : BOOLEAN]

RequestTypes ==
  /\ connection \in {None, Len(sockets)}
  /\ waiting \in Seq(Seq(Operations)) /\ Len(waiting) = Len(sockets)
  /\ requests \in Seq(Requests)
  /\ pendingRequests \subseteq DOMAIN requests /\ armed \subseteq DOMAIN requests

UserTypes ==
  /\ subscriptions \in Seq(Subs)
  /\ subscriptionId \in [Subs -> 0..Cardinality(Subs)] /\ subscribed \in [Subs -> BOOLEAN]
  /\ user \in [Calls \cup Subs -> {"new", "asked", "done", "failed"}]
  /\ left \in [Subs -> Nat]

Held == RequestTypes /\ UserTypes

LEMMA Concatenation ==
  ASSUME NEW S, NEW s \in Seq(S), NEW t \in Seq(S)
  PROVE  /\ s \o t \in Seq(S) /\ Len(s) \in Nat /\ Len(t) \in Nat
         /\ DOMAIN s = 1..Len(s) /\ DOMAIN t = 1..Len(t)
         /\ Len(s \o t) = Len(s) + Len(t) /\ DOMAIN (s \o t) = 1..(Len(s) + Len(t))
         /\ \A i \in 1..Len(s) : (s \o t)[i] = s[i]
         /\ \A i \in 1..(Len(s) + Len(t)) : i \notin 1..Len(s) =>
              i - Len(s) \in 1..Len(t) /\ (s \o t)[i] = t[i - Len(s)]
OBVIOUS

LEMMA Replacement ==
  ASSUME NEW S, NEW s \in Seq(S), NEW i \in DOMAIN s, NEW x \in S,
         NEW t, t = [s EXCEPT ![i] = x]
  PROVE  /\ t \in Seq(S) /\ Len(t) = Len(s) /\ DOMAIN t = DOMAIN s
         /\ t[i] = x /\ \A j \in DOMAIN s : j # i => t[j] = s[j]
OBVIOUS

LEMMA Appended ==
  ASSUME NEW S, NEW s \in Seq(S), NEW x \in S, NEW t, t = Append(s, x)
  PROVE  /\ t \in Seq(S) /\ Len(s) \in Nat /\ Len(t) = Len(s) + 1 /\ t # <<>>
         /\ DOMAIN s = 1..Len(s) /\ DOMAIN t = 1..(Len(s) + 1) /\ t[Len(s) + 1] = x
         /\ \A i \in 1..Len(s) : t[i] = s[i]
OBVIOUS

LEMMA ByElements ==
  ASSUME NEW S, NEW n \in Nat, NEW t, t = [i \in 1..n |-> t[i]], \A i \in 1..n : t[i] \in S
  PROVE  t \in Seq(S) /\ Len(t) = n /\ DOMAIN t = 1..n
OBVIOUS

LEMMA Marked ==
  ASSUME NEW r \in Requests
  PROVE  /\ [r EXCEPT !.settled = TRUE] \in Requests
         /\ [r EXCEPT !.settled = TRUE].op = r.op
         /\ [r EXCEPT !.settled = TRUE].socket = r.socket
         /\ [r EXCEPT !.settled = TRUE].over = r.over
         /\ [r EXCEPT !.settled = TRUE].settled = TRUE
         /\ [r EXCEPT !.over = TRUE] \in Requests
         /\ [r EXCEPT !.over = TRUE].op = r.op
         /\ [r EXCEPT !.over = TRUE].socket = r.socket
         /\ [r EXCEPT !.over = TRUE].settled = r.settled
         /\ [r EXCEPT !.over = TRUE].over = TRUE
BY DEF Requests

(* The requests that are entered have the next ids.                        *)
LEMMA SendEffect ==
  ASSUME RequestTypes, NEW ops \in Seq(Operations), NEW k \in Nat, Send(ops, k)
  PROVE  /\ requests' \in Seq(Requests)
         /\ DOMAIN requests = 1..Len(requests) /\ DOMAIN requests' = 1..(Len(requests) + Len(ops))
         /\ Len(ops) \in Nat /\ Len(requests) \in Nat
         /\ \A i \in 1..Len(requests) : requests'[i] = requests[i]
         /\ \A i \in 1..(Len(requests) + Len(ops)) : i \notin 1..Len(requests) =>
              /\ i - Len(requests) \in DOMAIN ops
              /\ requests'[i].op = ops[i - Len(requests)] /\ requests'[i].socket = k
              /\ requests'[i].settled = FALSE /\ requests'[i].over = (sockets'[k] # "open")
         /\ pendingRequests' = pendingRequests \cup {Len(requests) + i : i \in DOMAIN ops}
         /\ armed' = armed \cup {Len(requests) + i : i \in DOMAIN ops}
<1> DEFINE new == [i \in DOMAIN ops |->
                     [op |-> ops[i], socket |-> k, settled |-> FALSE, over |-> sockets'[k] # "open"]]
<1>1. /\ requests \in Seq(Requests) /\ requests' = requests \o new
      /\ DOMAIN ops = 1..Len(ops) /\ Len(ops) \in Nat /\ \A i \in DOMAIN ops : ops[i] \in Operations
  BY DEF RequestTypes, Send
<1>2. \A i \in DOMAIN ops : new[i] \in Requests
  BY <1>1 DEF Requests
<1>3. new \in Seq(Requests) /\ Len(new) = Len(ops)
  BY <1>1, <1>2
<1>4. \A i \in DOMAIN ops : /\ new[i].op = ops[i] /\ new[i].socket = k
                            /\ new[i].settled = FALSE /\ new[i].over = (sockets'[k] # "open")
  OBVIOUS
<1> HIDE DEF new
<1>5. /\ requests' \in Seq(Requests) /\ Len(requests) \in Nat
      /\ DOMAIN requests = 1..Len(requests) /\ DOMAIN requests' = 1..(Len(requests) + Len(ops))
      /\ \A i \in 1..Len(requests) : requests'[i] = requests[i]
      /\ \A i \in 1..(Len(requests) + Len(ops)) : i \notin 1..Len(requests) =>
           i - Len(requests) \in 1..Len(ops) /\ requests'[i] = new[i - Len(requests)]
  BY <1>1, <1>3, Concatenation
<1>6. /\ pendingRequests' = pendingRequests \cup {Len(requests) + i : i \in DOMAIN ops}
      /\ armed' = armed \cup {Len(requests) + i : i \in DOMAIN ops}
  BY DEF Send, Entered, RequestId
<1>7. \A i \in 1..(Len(requests) + Len(ops)) : i \notin 1..Len(requests) =>
        /\ i - Len(requests) \in DOMAIN ops
        /\ requests'[i].op = ops[i - Len(requests)] /\ requests'[i].socket = k
        /\ requests'[i].settled = FALSE /\ requests'[i].over = (sockets'[k] # "open")
  BY <1>1, <1>4, <1>5
<1> QED
  BY <1>1, <1>5, <1>6, <1>7

(* The other steps leave the requests there are, whom they are for and how *)
(* they were sent.                                                         *)
SameRequests ==
  /\ requests' \in Seq(Requests) /\ DOMAIN requests' = DOMAIN requests
  /\ \A i \in DOMAIN requests :
       /\ requests'[i].op = requests[i].op /\ requests'[i].socket = requests[i].socket
       /\ requests[i].over => requests'[i].over
       /\ requests[i].settled => requests'[i].settled

LEMMA AnsweredSame ==
  ASSUME RequestTypes, NEW id, Answered(id)
  PROVE  /\ SameRequests /\ id \in DOMAIN requests
         /\ requests'[id].over
         /\ id \in pendingRequests => requests'[id].settled
         /\ \A i \in DOMAIN requests : i # id => requests'[i] = requests[i]
<1>1. /\ id \in DOMAIN requests /\ requests \in Seq(Requests)
      /\ requests' = [requests EXCEPT ![id].over = TRUE, ![id].settled = @ \/ Settles(id)]
  BY DEF Answered, RequestTypes
<1>2. requests[id] \in Requests
  BY <1>1
<1> DEFINE new == [[requests[id] EXCEPT !.over = TRUE] EXCEPT !.settled = @ \/ Settles(id)]
<1>3. /\ new \in Requests /\ new.op = requests[id].op /\ new.socket = requests[id].socket
      /\ new.over /\ (new.settled <=> requests[id].settled \/ Settles(id))
  BY <1>2 DEF Requests
<1>4. requests' = [requests EXCEPT ![id] = new]
  BY <1>1
<1>5. requests \in Seq(Requests) /\ id \in DOMAIN requests /\ new \in Requests
  BY <1>1, <1>3
<1> HIDE DEF new
<1>6. /\ requests' \in Seq(Requests) /\ DOMAIN requests' = DOMAIN requests
      /\ requests'[id] = new /\ \A i \in DOMAIN requests : i # id => requests'[i] = requests[i]
  BY <1>4, <1>5, Replacement
<1> QED
  BY <1>1, <1>3, <1>6 DEF SameRequests, Settles

LEMMA RejectedSame ==
  ASSUME RequestTypes, NEW ids, RejectAll(ids)
  PROVE  /\ SameRequests
         /\ \A i \in DOMAIN requests : i \in ids => requests'[i].settled
         /\ \A i \in DOMAIN requests : requests'[i].over = requests[i].over
<1>1. /\ requests \in Seq(Requests)
      /\ requests' = [i \in DOMAIN requests |->
           IF i \in Rejects(ids) THEN [requests[i] EXCEPT !.settled = TRUE] ELSE requests[i]]
  BY DEF RejectAll, RequestTypes
<1>2. \A i \in DOMAIN requests : requests[i] \in Requests
  BY <1>1
<1>3. /\ DOMAIN requests = 1..Len(requests) /\ Len(requests) \in Nat
      /\ requests' = [i \in 1..Len(requests) |-> requests'[i]]
  BY <1>1
<1>4. \A i \in 1..Len(requests) : requests'[i] \in Requests
  BY <1>1, <1>2, <1>3, Marked
<1>5. requests' \in Seq(Requests) /\ DOMAIN requests' = DOMAIN requests
  BY <1>3, <1>4, ByElements
<1> QED
  BY <1>1, <1>2, <1>5, Marked DEF SameRequests, Rejects

LEMMA ClosedSame ==
  ASSUME RequestTypes, NEW k, Close(k)
  PROVE  /\ SameRequests
         /\ \A i \in DOMAIN requests : /\ requests'[i].over
                                       /\ requests'[i].settled = requests[i].settled
<1>1. /\ requests \in Seq(Requests)
      /\ requests' = [i \in DOMAIN requests |-> [requests[i] EXCEPT !.over = TRUE]]
  BY DEF Close, RequestTypes
<1>2. \A i \in DOMAIN requests : requests[i] \in Requests
  BY <1>1
<1>3. /\ DOMAIN requests = 1..Len(requests) /\ Len(requests) \in Nat
      /\ requests' = [i \in 1..Len(requests) |-> requests'[i]]
  BY <1>1
<1>4. \A i \in 1..Len(requests) : requests'[i] \in Requests
  BY <1>1, <1>2, <1>3, Marked
<1>5. requests' \in Seq(Requests) /\ DOMAIN requests' = DOMAIN requests
  BY <1>3, <1>4, ByElements
<1> QED
  BY <1>1, <1>2, <1>5, Marked DEF SameRequests
-----------------------------------------------------------------------------
(* What has been asked for.  Awaited is what the next socket to open will  *)
(* send.                                                                   *)
Awaited ==
  IF sockets # <<>> /\ sockets[Len(sockets)] = "connecting" THEN waiting[Len(sockets)] ELSE <<>>

Asks(op) == op.kind \in {"subscribe", "renew"}

(* Two operations that are the same request of the same caller, but for    *)
(* the connection it is made on.                                           *)
Akin(o, p) == o.who = p.who /\ (o.kind = p.kind \/ (Asks(o) /\ Asks(p)))

(* The operations whose callers have begun them.                           *)
Begun ==
  {op \in Operations : /\ op.kind = "call" => user[op.who] # "new"
                       /\ Asks(op) => op.who \in Listed
                       /\ op.kind = "unsubscribe" => left[op.who] # None}

OpsInv ==
  /\ \A i \in DOMAIN requests : requests[i].socket \in WereOpen /\ requests[i].op \in Begun
  /\ \A i \in DOMAIN Awaited : Awaited[i] \in Begun

(* Nothing is requested twice on a connection, and only subscriptions are  *)
(* requested on several.                                                   *)
OnceInv ==
  /\ \A i, j \in DOMAIN requests :
       /\ Akin(requests[i].op, requests[j].op)
       /\ Asks(requests[i].op) => requests[i].socket = requests[j].socket
       => i = j
  /\ \A i, j \in DOMAIN Awaited : Akin(Awaited[i], Awaited[j]) => i = j
  /\ \A i \in DOMAIN requests, j \in DOMAIN Awaited :
       ~ Asks(requests[i].op) => ~ Akin(requests[i].op, Awaited[j])

(* Every listener is in the set once, from its subscribing on.             *)
ListedInv ==
  /\ \A i, j \in DOMAIN subscriptions : subscriptions[i] = subscriptions[j] => i = j
  /\ \A s \in Subs : user[s] = "new" => s \notin Listed /\ left[s] = None
  /\ \A s \in Subs : subscribed[s] => s \in Listed

LastIs(state) == sockets # <<>> /\ sockets[Len(sockets)] = state

(* The next socket to open will ask for every listener, and the one that   *)
(* is open has.                                                            *)
PromiseInv ==
  /\ connection = None => Listed = {}
  /\ LastIs("connecting") =>
       \A s \in Listed : \E i \in DOMAIN Awaited : Asks(Awaited[i]) /\ Awaited[i].who = s
  /\ LastIs("open") => \A s \in Listed : AskedFor(s, Len(sockets)) # {}

(* Whoever has unsubscribed is silenced until the next connection.         *)
LeftInv ==
  \A s \in Subs : /\ left[s] <= Len(sockets)
                  /\ left[s] # None /\ subscribed[s] => left[s] < Len(sockets)

(* Ids are forgotten before the next connection opens, and a request to    *)
(* unsubscribe goes over the connection that its id is of.                 *)
IdInv ==
  /\ \A s \in Subs : subscriptionId[s] # None => subscribed[s]
  /\ connection = None \/ LastIs("connecting") => \A s \in Subs : subscriptionId[s] = None
  /\ \A i \in DOMAIN Awaited : Awaited[i].kind # "unsubscribe"
  /\ \A i \in DOMAIN requests :
       requests[i].op.kind = "unsubscribe" => left[requests[i].op.who] = requests[i].socket

Subscription(n, s) == [id |-> n, who |-> s]

(* What is under way to the server ends the subscription it is about.      *)
ServerInv ==
  /\ \A i \in DOMAIN requests :
       requests[i].op.kind = "unsubscribe" /\ ~ requests[i].over
         => Subscription(requests[i].op.id, requests[i].op.who) \in server
  /\ \A m, n \in server : m.id = n.id => m = n
  /\ LastIs("open") =>
       \A s \in Subs : subscriptionId[s] # None => Subscription(subscriptionId[s], s) \in server

(* How a step leaves what has been asked for: nothing is added, operations *)
(* are added to what the next socket will send, or they are sent.          *)
Unsent == SameRequests /\ Awaited' \in {Awaited, <<>>}

Queued(ops) == UNCHANGED requests /\ Awaited' = Awaited \o ops

Sent(ops) ==
  /\ UNCHANGED connection /\ connection = Len(sockets')
  /\ sockets' # <<>> /\ Connected(Len(sockets))' /\ Awaited' = <<>>
  /\ requests' \in Seq(Requests)
  /\ Len(ops) \in Nat /\ DOMAIN ops = 1..Len(ops) /\ Len(requests) \in Nat
  /\ DOMAIN requests = 1..Len(requests) /\ DOMAIN requests' = 1..(Len(requests) + Len(ops))
  /\ \A i \in 1..Len(requests) : requests'[i] = requests[i]
  /\ \A i \in 1..(Len(requests) + Len(ops)) : i \notin 1..Len(requests) =>
       /\ i - Len(requests) \in DOMAIN ops
       /\ requests'[i].op = ops[i - Len(requests)] /\ requests'[i].socket = Len(sockets')
       /\ requests'[i].settled = FALSE /\ requests'[i].over = (sockets'[Len(sockets')] # "open")
  /\ pendingRequests' = pendingRequests \cup {Len(requests) + i : i \in DOMAIN ops}
  /\ armed' = armed \cup {Len(requests) + i : i \in DOMAIN ops}

LEMMA UnsentSame ==
  ASSUME RequestTypes, UNCHANGED <<sockets, waiting, requests>>
  PROVE  Unsent
BY DEF RequestTypes, Unsent, SameRequests, Awaited

LEMMA SendSent ==
  ASSUME RequestTypes, NEW ops \in Seq(Operations), NEW k \in Nat, Send(ops, k),
         UNCHANGED connection, connection = k, k = Len(sockets'),
         sockets' # <<>>, Connected(Len(sockets))', Awaited' = <<>>
  PROVE  Sent(ops)
<1>1. DOMAIN ops = 1..Len(ops)
  OBVIOUS
<1> QED
  BY <1>1, SendEffect DEF Sent

LEMMA SentTypes ==
  ASSUME RequestTypes, NEW ops, Sent(ops),
         waiting' \in Seq(Seq(Operations)), Len(waiting') = Len(sockets')
  PROVE  RequestTypes'
<1>1. \A i \in DOMAIN ops : Len(requests) + i \in DOMAIN requests'
  BY DEF Sent
<1>2. DOMAIN requests \subseteq DOMAIN requests'
  BY DEF Sent
<1> QED
  BY <1>1, <1>2 DEF RequestTypes, Sent

LEMMA AwaitedTypes ==
  ASSUME Inv, RequestTypes
  PROVE  /\ Awaited \in Seq(Operations)
         /\ DOMAIN sockets = 1..Len(sockets) /\ Len(sockets) \in Nat
         /\ DOMAIN waiting = 1..Len(sockets)
         /\ \A k \in DOMAIN waiting : waiting[k] \in Seq(Operations)
<1>1. /\ DOMAIN sockets = 1..Len(sockets) /\ Len(sockets) \in Nat
      /\ sockets # <<>> => Len(sockets) \in 1..Len(sockets)
  BY DEF Inv, TypeInv
<1>2. waiting \in Seq(Seq(Operations)) /\ DOMAIN waiting = 1..Len(sockets)
  BY DEF RequestTypes
<1>3. \A k \in DOMAIN waiting : waiting[k] \in Seq(Operations)
  BY <1>2
<1> QED
  BY <1>1, <1>2, <1>3 DEF Awaited

(* makeRequest sends on a connection, leaves its operation to the next one *)
(* to open, or finds a promise that will never be resolved.                *)
MakesConnection ==
  /\ connection = None /\ sockets' = Append(sockets, "connecting")
  /\ connection' = Len(sockets')

LEMMA MakeRequestsEffect ==
  ASSUME Inv, RequestTypes, NEW op \in Operations, MakeRequests(<<op>>)
  PROVE  /\ RequestTypes'
         /\ Sent(<<op>>) \/ UNCHANGED <<requests, pendingRequests, armed>>
         /\ \/ UNCHANGED sockets /\ Sent(<<op>>) /\ Awaited = <<>> /\ connection # None
            \/ /\ UNCHANGED <<sockets, connection>> /\ Queued(<<op>>) /\ connection # None
               /\ LastIs("connecting")
            \/ /\ UNCHANGED <<sockets, connection>> /\ Unsent /\ connection # None
               /\ ~ Connected(connection) /\ ~ LastLives
            \/ MakesConnection /\ ~ LastLives /\ Queued(<<op>>) /\ Awaited = <<>>
<1> DEFINE n == Len(sockets)
<1>1. /\ DOMAIN sockets = 1..n /\ n \in Nat /\ sockets \in Seq(State)
      /\ connection \in {None, n} /\ waiting \in Seq(Seq(Operations)) /\ Len(waiting) = n
      /\ DOMAIN waiting = 1..n /\ requests \in Seq(Requests)
      /\ \A k \in DOMAIN waiting : waiting[k] \in Seq(Operations)
      /\ connection # None => n # 0 /\ sockets # <<>>
  BY AwaitedTypes DEF Inv, TypeInv, RequestTypes, None
<1>2. <<op>> \in Seq(Operations) /\ Len(<<op>>) = 1 /\ DOMAIN <<op>> = 1..1 /\ DOMAIN <<op>> = 1..Len(<<op>>)
  OBVIOUS
<1>3. CASE /\ connection # None /\ Connected(connection)
           /\ UNCHANGED <<sockets, connection, waiting>> /\ Send(<<op>>, connection)
  <2>1. connection = n /\ sockets[n] # "connecting"
    BY <1>1, <1>3 DEF Connected
  <2>2. Awaited = <<>> /\ Awaited' = <<>> /\ Connected(Len(sockets))' /\ Len(sockets') = n /\ sockets' # <<>>
    BY <1>1, <1>3, <2>1 DEF Awaited, Connected
  <2>3. Sent(<<op>>)
    <3>1. Send(<<op>>, n) /\ n \in Nat
      BY <1>1, <1>3, <2>1
    <3>2. UNCHANGED connection /\ connection = Len(sockets')
      BY <1>3, <2>1, <2>2
    <3> HIDE DEF n
    <3>3. n = Len(sockets')
      BY <2>2
    <3> QED
      BY <1>2, <2>2, <3>1, <3>2, <3>3, SendSent
  <2>4. RequestTypes'
    BY <1>1, <1>3, <2>3, SentTypes
  <2> QED
    BY <1>3, <2>2, <2>3, <2>4
<1>4. CASE /\ connection # None /\ ~ Connected(connection)
           /\ waiting' = [waiting EXCEPT ![connection] = @ \o <<op>>]
           /\ UNCHANGED <<sockets, connection, requests, pendingRequests, armed>>
  <2>1. connection = n /\ n \in DOMAIN waiting /\ sockets # <<>>
    BY <1>1, <1>4
  <2>2. waiting[n] \o <<op>> \in Seq(Operations) /\ waiting' = [waiting EXCEPT ![n] = waiting[n] \o <<op>>]
    BY <1>1, <1>2, <1>4, <2>1, Concatenation
  <2>3. /\ waiting' \in Seq(Seq(Operations)) /\ Len(waiting') = n
        /\ waiting'[n] = waiting[n] \o <<op>>
    BY <1>1, <2>1, <2>2, Replacement
  <2>4. RequestTypes'
    BY <1>1, <1>4, <2>3 DEF RequestTypes
  <2>5. CASE sockets[n] = "connecting"
    <3>1. Awaited = waiting[n] /\ Awaited' = waiting'[n]
      BY <1>4, <2>1, <2>5 DEF Awaited
    <3> QED
      BY <1>4, <2>1, <2>3, <2>4, <2>5, <3>1 DEF Queued, LastIs
  <2>6. CASE sockets[n] # "connecting"
    <3>1. Awaited = <<>> /\ Awaited' = <<>> /\ ~ LastLives
      BY <1>4, <2>1, <2>6 DEF Awaited, LastLives, Connected
    <3>2. Unsent
      BY <1>1, <1>4, <3>1 DEF Unsent, SameRequests
    <3> QED
      BY <1>4, <2>4, <3>1, <3>2
  <2> QED
    BY <2>5, <2>6
<1>5. CASE /\ connection = None /\ sockets' = NewSocket /\ connection' = Len(sockets) + 1
           /\ waiting' = Append(waiting, <<op>>)
           /\ UNCHANGED <<requests, pendingRequests, armed>>
  <2>1. ~ LastLives
    BY <1>5 DEF Inv, OneInv
  <2>2. sockets' = Append(sockets, "connecting")
    BY <1>5, <2>1, NothingToClose DEF NewSocket
  <2>3. /\ Len(sockets') = n + 1 /\ sockets' # <<>> /\ sockets'[n + 1] = "connecting"
        /\ waiting' \in Seq(Seq(Operations)) /\ Len(waiting') = n + 1 /\ waiting'[n + 1] = <<op>>
    <3>1. /\ sockets' \in Seq(State) /\ Len(sockets') = Len(sockets) + 1 /\ sockets' # <<>>
          /\ sockets'[Len(sockets) + 1] = "connecting"
      <4>1. sockets \in Seq(State) /\ "connecting" \in State
        BY <1>1 DEF State
      <4> QED
        BY <2>2, <4>1, Appended
    <3>2. /\ waiting' \in Seq(Seq(Operations)) /\ Len(waiting') = Len(waiting) + 1
          /\ waiting'[Len(waiting) + 1] = <<op>>
      <4>1. waiting \in Seq(Seq(Operations)) /\ waiting' = Append(waiting, <<op>>)
        BY <1>1, <1>5
      <4> QED
        BY <1>2, <4>1, Appended
    <3> QED
      BY <1>1, <3>1, <3>2
  <2>4. Awaited = <<>> /\ Awaited' = <<op>>
    BY <1>1, <2>1, <2>3 DEF Awaited, LastLives
  <2>5. RequestTypes'
    BY <1>1, <1>5, <2>3 DEF RequestTypes
  <2>6. <<>> \o <<op>> = <<op>>
    OBVIOUS
  <2> QED
    BY <1>5, <2>1, <2>2, <2>3, <2>4, <2>5, <2>6 DEF MakesConnection, Queued
<1> QED
  BY <1>3, <1>4, <1>5 DEF MakeRequests

(* The open event sends what is awaited.                                   *)
LEMMA OpenEffect ==
  ASSUME Inv, RequestTypes, NEW k \in DOMAIN sockets, Open(k)
  PROVE  /\ RequestTypes' /\ Sent(Awaited) /\ Awaited \in Seq(Operations)
         /\ k = Len(sockets) /\ sockets[k] = "connecting" /\ sockets # <<>>
         /\ sockets' = [sockets EXCEPT ![k] = "open"] /\ sockets'[k] = "open"
         /\ Len(sockets') = Len(sockets)
<1> DEFINE n == Len(sockets)
<1>1. /\ DOMAIN sockets = 1..n /\ n \in Nat /\ sockets \in Seq(State)
      /\ sockets[k] = "connecting" /\ sockets' = [sockets EXCEPT ![k] = "open"]
      /\ UNCHANGED connection /\ waiting' = [waiting EXCEPT ![k] = <<>>]
  BY DEF Inv, TypeInv, Open
<1>2. k = n /\ sockets # <<>> /\ connection = n /\ k # 0
  BY <1>1 DEF Inv, OneInv, LastLives, RequestTypes
<1>3. /\ Awaited = waiting[k] /\ waiting[k] \in Seq(Operations) /\ k \in DOMAIN waiting
      /\ waiting \in Seq(Seq(Operations)) /\ Len(waiting) = n
  BY <1>1, <1>2, AwaitedTypes DEF Awaited, RequestTypes
<1>4. /\ Len(sockets') = n /\ sockets'[k] = "open" /\ sockets' # <<>>
  BY <1>1, <1>2
<1>5. Awaited' = <<>> /\ Connected(Len(sockets))'
  BY <1>2, <1>4 DEF Awaited, Connected
<1>6. waiting' \in Seq(Seq(Operations)) /\ Len(waiting') = n
  BY <1>1, <1>3
<1>7. Send(Awaited, k)
  BY <1>3 DEF Open
<1>8. Sent(Awaited)
  BY <1>1, <1>2, <1>3, <1>4, <1>5, <1>7, SendSent
<1>9. RequestTypes'
  BY <1>4, <1>6, <1>8, SentTypes
<1> QED
  BY <1>1, <1>2, <1>3, <1>4, <1>8, <1>9

LEMMA CloseEffect ==
  ASSUME Inv, RequestTypes, NEW k \in DOMAIN sockets, Close(k)
  PROVE  /\ RequestTypes' /\ Unsent
         /\ k = Len(sockets) /\ Len(sockets') = Len(sockets)
         /\ sockets[k] \in {"connecting", "open"} /\ sockets'[k] \in {"failed", "closed"}
         /\ sockets[k] = "open" => sockets'[k] = "closed"
         /\ sockets' = [sockets EXCEPT ![k] = sockets'[k]]
         /\ connection # None /\ UNCHANGED connection
<1> DEFINE n == Len(sockets)
<1>1. /\ DOMAIN sockets = 1..n /\ n \in Nat /\ sockets \in Seq(State)
      /\ sockets[k] \in Live /\ UNCHANGED <<connection, waiting, pendingRequests, armed>>
      /\ sockets' = [sockets EXCEPT ![k] = IF sockets[k] = "connecting" THEN "failed" ELSE "closed"]
  BY DEF Inv, TypeInv, Close, ConnectionKept
<1>2. sockets[k] \in {"connecting", "open"}
  BY <1>1 DEF Live, State
<1>3. k = n /\ sockets # <<>> /\ connection # None
  BY <1>1, <1>2 DEF Inv, OneInv, LastLives
<1>4. /\ Len(sockets') = n /\ sockets'[k] \in {"failed", "closed"}
      /\ sockets[k] = "open" => sockets'[k] = "closed"
      /\ sockets' = [sockets EXCEPT ![k] = sockets'[k]]
  BY <1>1, <1>2, <1>3
<1>5. Awaited' = <<>> /\ SameRequests
  BY <1>3, <1>4, ClosedSame DEF Awaited
<1>6. RequestTypes'
  BY <1>1, <1>4, <1>5 DEF RequestTypes, SameRequests
<1> QED
  BY <1>1, <1>2, <1>3, <1>4, <1>5, <1>6 DEF Unsent

Renewals == [i \in DOMAIN Renew |-> Operation("renew", Renew[i])]

LEMMA ReconnectEffect ==
  ASSUME Inv, Held, Reconnect
  PROVE  /\ RequestTypes' /\ UNCHANGED requests /\ ~ LastLives /\ Awaited = <<>>
         /\ Renewals \in Seq(Operations) /\ DOMAIN Renewals = DOMAIN subscriptions
         /\ \A i \in DOMAIN subscriptions :
              Renewals[i] = [kind |-> "renew", who |-> subscriptions[i], id |-> None]
         /\ \/ /\ subscriptions = <<>> /\ UNCHANGED sockets /\ connection' = None
               /\ Awaited' = <<>>
            \/ /\ subscriptions # <<>> /\ sockets' = Append(sockets, "connecting")
               /\ connection' = Len(sockets') /\ Awaited' = Renewals
<1> DEFINE n == Len(sockets)
<1>1. /\ DOMAIN sockets = 1..n /\ n \in Nat /\ sockets \in Seq(State)
      /\ waiting \in Seq(Seq(Operations)) /\ Len(waiting) = n /\ requests \in Seq(Requests)
      /\ UNCHANGED <<requests, pendingRequests, armed>>
  BY DEF Inv, TypeInv, Reconnect, Held, RequestTypes
<1>2. reconnects # 0
  BY DEF Reconnect, Inv, TypeInv
<1>3. ~ LastLives
  BY <1>2 DEF Inv, OneInv
<1>4. CloseSocket = sockets /\ NewSocket = Append(sockets, "connecting") /\ Awaited = <<>>
  BY <1>3, NothingToClose DEF NewSocket, Awaited, LastLives
<1>5. /\ subscriptions \in Seq(Subs) /\ DOMAIN subscriptions = 1..Len(subscriptions)
      /\ Len(subscriptions) \in Nat /\ \A i \in DOMAIN subscriptions : subscriptions[i] \in Subs
  BY DEF Held, UserTypes
<1>6. \A i \in 1..Len(subscriptions) :
         /\ Renewals[i] = [kind |-> "renew", who |-> subscriptions[i], id |-> None]
         /\ Renewals[i] \in Operations
  BY <1>5 DEF Renewals, Renew, Operation, Operations
<1>7. Renewals = [i \in 1..Len(subscriptions) |-> Renewals[i]]
  BY <1>5 DEF Renewals, Renew
<1>8. /\ Renewals \in Seq(Operations) /\ Len(Renewals) = Len(subscriptions)
      /\ DOMAIN Renewals = 1..Len(subscriptions)
  BY <1>5, <1>6, <1>7, ByElements
<1>9. \/ /\ Renewals = <<>> /\ sockets' = sockets /\ connection' = None /\ UNCHANGED waiting
      \/ /\ Renewals # <<>> /\ sockets' = Append(sockets, "connecting")
         /\ connection' = n + 1 /\ waiting' = Append(waiting, Renewals)
  BY <1>4 DEF Reconnect, Renewals
<1> HIDE DEF Renewals
<1>10. CASE Renewals = <<>> /\ sockets' = sockets /\ connection' = None /\ UNCHANGED waiting
  <2>1. subscriptions = <<>>
    BY <1>5, <1>8, <1>10
  <2>2. RequestTypes' /\ Awaited' = <<>>
    BY <1>1, <1>3, <1>10 DEF Held, RequestTypes, Awaited, LastLives
  <2> QED
    BY <1>1, <1>3, <1>4, <1>5, <1>6, <1>8, <1>10, <2>1, <2>2
<1>11. CASE /\ Renewals # <<>> /\ sockets' = Append(sockets, "connecting")
            /\ connection' = n + 1 /\ waiting' = Append(waiting, Renewals)
  <2>1. subscriptions # <<>>
    BY <1>5, <1>8, <1>11
  <2>2. /\ Len(sockets') = n + 1 /\ sockets' # <<>> /\ sockets'[n + 1] = "connecting"
        /\ waiting' \in Seq(Seq(Operations)) /\ Len(waiting') = n + 1 /\ waiting'[n + 1] = Renewals
    <3>1. /\ sockets' \in Seq(State) /\ Len(sockets') = Len(sockets) + 1 /\ sockets' # <<>>
          /\ sockets'[Len(sockets) + 1] = "connecting"
      <4>1. sockets \in Seq(State) /\ "connecting" \in State
        BY <1>1 DEF State
      <4> QED
        BY <1>11, <4>1, Appended
    <3>2. /\ waiting' \in Seq(Seq(Operations)) /\ Len(waiting') = Len(waiting) + 1
          /\ waiting'[Len(waiting) + 1] = Renewals
      <4>1. waiting \in Seq(Seq(Operations)) /\ waiting' = Append(waiting, Renewals)
        BY <1>1, <1>11
      <4> QED
        BY <1>8, <4>1, Appended
    <3> QED
      BY <1>1, <3>1, <3>2
  <2>3. RequestTypes' /\ Awaited' = Renewals
    BY <1>1, <1>11, <2>2 DEF Held, RequestTypes, Awaited
  <2> QED
    BY <1>1, <1>3, <1>4, <1>5, <1>6, <1>8, <1>11, <2>1, <2>2, <2>3
<1> QED
  BY <1>9, <1>10, <1>11

LEMMA AnsweredEffect ==
  ASSUME RequestTypes, NEW id, Answered(id)
  PROVE  RequestTypes' /\ Unsent /\ UNCHANGED sockets
<1>1. SameRequests
  BY AnsweredSame
<1>2. UNCHANGED <<sockets, connection, waiting, pendingRequests>> /\ armed' \subseteq armed
  BY DEF Answered, connectionVars
<1>3. Awaited' = Awaited
  BY <1>2 DEF Awaited
<1> QED
  BY <1>1, <1>2, <1>3 DEF RequestTypes, SameRequests, Unsent

LEMMA RejectedEffect ==
  ASSUME RequestTypes, NEW ids, RejectAll(ids), armed' \subseteq armed
  PROVE  RequestTypes' /\ Unsent /\ UNCHANGED sockets
<1>1. SameRequests
  BY RejectedSame
<1>2. UNCHANGED <<sockets, connection, waiting>> /\ pendingRequests' \subseteq pendingRequests
  BY DEF RejectAll, connectionVars
<1>3. Awaited' = Awaited
  BY <1>2 DEF Awaited
<1> QED
  BY <1>1, <1>2, <1>3 DEF RequestTypes, SameRequests, Unsent

(* What never goes back: connections, callers that have called, the set of *)
(* listeners and who has left.                                             *)
GrownSockets ==
  /\ DOMAIN sockets \subseteq DOMAIN sockets' /\ Len(sockets) <= Len(sockets')
  /\ WereOpen \subseteq WereOpen'

GrownUsers ==
  /\ \A x \in Calls \cup Subs : user[x] # "new" => user'[x] # "new"
  /\ Listed \subseteq Listed'
  /\ \A s \in Subs : left[s] # None => left'[s] = left[s]

LEMMA AppendGrows ==
  ASSUME Inv, sockets' = Append(sockets, "connecting")
  PROVE  GrownSockets
<1>1. sockets \in Seq(State) /\ "connecting" \in State
  BY DEF Inv, TypeInv, State
<1>2. /\ Len(sockets) \in Nat /\ Len(sockets') = Len(sockets) + 1
      /\ DOMAIN sockets = 1..Len(sockets) /\ DOMAIN sockets' = 1..(Len(sockets) + 1)
      /\ \A k \in 1..Len(sockets) : sockets'[k] = sockets[k]
  BY <1>1, Appended
<1>3. Len(sockets) <= Len(sockets')
  BY <1>2
<1>4. DOMAIN sockets \subseteq DOMAIN sockets'
  BY <1>2
<1> QED
  BY <1>2, <1>3, <1>4 DEF GrownSockets, WereOpen, Connected

LEMMA EventGrows ==
  ASSUME Inv, NEW k \in DOMAIN sockets, NEW x \in {"open", "closed", "failed"},
         sockets' = [sockets EXCEPT ![k] = x], sockets[k] \in {"connecting", "open"},
         sockets[k] = "open" => x = "closed"
  PROVE  GrownSockets
<1>1. sockets \in Seq(State) /\ x \in State /\ Len(sockets) \in Nat
  BY DEF Inv, TypeInv, State
<1>2. /\ Len(sockets') = Len(sockets) /\ DOMAIN sockets' = DOMAIN sockets
      /\ sockets'[k] = x /\ \A j \in DOMAIN sockets : j # k => sockets'[j] = sockets[j]
  BY <1>1, Replacement
<1>3. Len(sockets) <= Len(sockets')
  BY <1>1, <1>2
<1>4. \A j \in DOMAIN sockets : Connected(j) => Connected(j)'
  BY <1>2 DEF Connected
<1> QED
  BY <1>2, <1>3, <1>4 DEF GrownSockets, WereOpen

LEMMA SameGrows ==
  ASSUME Inv, UNCHANGED sockets
  PROVE  GrownSockets
<1>1. Len(sockets) \in Nat
  BY DEF Inv, TypeInv
<1> QED
  BY <1>1 DEF GrownSockets, WereOpen, Connected

LEMMA MakeRequestsHeld ==
  ASSUME Inv, RequestTypes, NEW op \in Operations, MakeRequests(<<op>>)
  PROVE  RequestTypes' /\ GrownSockets
<1>1. RequestTypes' /\ (UNCHANGED sockets \/ sockets' = Append(sockets, "connecting"))
  BY MakeRequestsEffect DEF MakesConnection
<1> QED
  BY <1>1, AppendGrows, SameGrows

LEMMA OfOperation ==
  ASSUME RequestTypes
  PROVE  \A i \in DOMAIN requests :
           /\ requests[i] \in Requests /\ requests[i].op \in Operations
           /\ requests[i].op.who \in Calls \cup Subs
           /\ requests[i].op.kind # "call" => requests[i].op.who \in Subs
           /\ requests[i].op.kind = "call" => requests[i].op.who \in Calls
<1>1. \A i \in DOMAIN requests : requests[i] \in Requests
  BY DEF RequestTypes
<1> QED
  BY <1>1 DEF Requests, Operations

LEMMA NewOperations ==
  /\ \A c \in Calls : Operation("call", c) \in Operations
  /\ \A s \in Subs : Operation("subscribe", s) \in Operations
  /\ \A s \in Subs, n \in 1..Cardinality(Subs) :
       [kind |-> "unsubscribe", who |-> s, id |-> n] \in Operations
BY DEF Operation, Operations

LEMMA ListedAppended ==
  ASSUME UserTypes, NEW s \in Subs, subscriptions' = Append(subscriptions, s)
  PROVE  Listed' = Listed \cup {s}
<1>1. /\ subscriptions \in Seq(Subs) /\ DOMAIN subscriptions = 1..Len(subscriptions)
      /\ Len(subscriptions) \in Nat /\ DOMAIN subscriptions' = 1..(Len(subscriptions) + 1)
      /\ subscriptions'[Len(subscriptions) + 1] = s
      /\ \A i \in 1..Len(subscriptions) : subscriptions'[i] = subscriptions[i]
  BY Appended DEF UserTypes
<1>2. Listed = {subscriptions[i] : i \in 1..Len(subscriptions)}
  BY <1>1 DEF Listed, ToSet
<1>3. Listed' = {subscriptions'[i] : i \in 1..(Len(subscriptions) + 1)}
  BY <1>1 DEF Listed, ToSet
<1>4. \A i \in 1..(Len(subscriptions) + 1) : i \notin 1..Len(subscriptions) => i = Len(subscriptions) + 1
  BY <1>1
<1>5. \A i \in 1..Len(subscriptions) : i \in 1..(Len(subscriptions) + 1)
  BY <1>1
<1>6. Len(subscriptions) + 1 \in 1..(Len(subscriptions) + 1)
  BY <1>1
<1> QED
  BY <1>1, <1>2, <1>3, <1>4, <1>5, <1>6
Kept == Held' /\ GrownSockets /\ GrownUsers

LEMMA CallKept ==
  ASSUME Inv, Held, NEW c \in Calls, Call(c)
  PROVE  Kept
<1>1. RequestTypes' /\ GrownSockets
  BY MakeRequestsHeld, NewOperations DEF Call, Held
<1>2. /\ user' = [user EXCEPT ![c] = "asked"]
      /\ UNCHANGED <<subscriptions, subscriptionId, subscribed, left>>
  BY DEF Call, subscriptionVars
<1>3. UserTypes' /\ GrownUsers
  BY <1>2 DEF Held, UserTypes, GrownUsers, Listed
<1> QED
  BY <1>1, <1>3 DEF Kept, Held

LEMMA SubscribeKept ==
  ASSUME Inv, Held, NEW s \in Subs, Subscribe(s)
  PROVE  Kept
<1>1. RequestTypes' /\ GrownSockets
  BY MakeRequestsHeld, NewOperations DEF Subscribe, Held
<1>2. /\ user' = [user EXCEPT ![s] = "asked"]
      /\ subscribed' = [subscribed EXCEPT ![s] = TRUE]
      /\ subscriptions' = Append(subscriptions, s)
      /\ UNCHANGED <<subscriptionId, left>>
  BY DEF Subscribe
<1>3. Listed' = Listed \cup {s} /\ subscriptions' \in Seq(Subs)
  BY <1>2, ListedAppended, Appended DEF Held, UserTypes
<1>4. UserTypes'
  BY <1>2, <1>3 DEF Held, UserTypes
<1>5. GrownUsers
  BY <1>2, <1>3 DEF Held, UserTypes, GrownUsers
<1> QED
  BY <1>1, <1>4, <1>5 DEF Kept, Held

LEMMA UnsubscribeKept ==
  ASSUME Inv, Held, NEW s \in Subs, Unsubscribe(s)
  PROVE  Kept
<1>1. /\ left[s] = None /\ left' = [left EXCEPT ![s] = Len(sockets)] /\ Len(sockets) \in Nat
      /\ subscribed' = [subscribed EXCEPT ![s] = FALSE]
      /\ subscriptionId' = [subscriptionId EXCEPT ![s] = None]
      /\ UNCHANGED <<subscriptions, user>>
  BY DEF Unsubscribe, Silenced, Inv, TypeInv
<1>2. RequestTypes' /\ GrownSockets
  <2>1. CASE subscriptionId[s] = None
    BY <2>1, SameGrows DEF Unsubscribe, requestVars, Held, RequestTypes
  <2>2. CASE subscriptionId[s] # None
    <3>1. subscriptionId[s] \in 1..Cardinality(Subs)
      BY <2>2 DEF Held, UserTypes, None
    <3> QED
      BY <2>2, <3>1, MakeRequestsHeld, NewOperations DEF Unsubscribe, Held
  <2> QED
    BY <2>1, <2>2
<1>3. None \in 0..Cardinality(Subs)
  BY Options, FS_CardinalityType DEF None
<1>4. UserTypes'
  BY <1>1, <1>3 DEF Held, UserTypes
<1>5. GrownUsers
  BY <1>1 DEF Held, UserTypes, GrownUsers, Listed
<1> QED
  BY <1>2, <1>4, <1>5 DEF Kept, Held

LEMMA AbortKept ==
  ASSUME Inv, Held, NEW x, Abort(x)
  PROVE  Kept /\ Unsent
<1>1. RequestTypes' /\ Unsent /\ GrownSockets
  BY RejectedEffect, SameGrows DEF Abort, Held
<1>2. UserTypes' /\ GrownUsers
  BY DEF Abort, RejectAll, subscriptionVars, Held, UserTypes, GrownUsers, Listed
<1> QED
  BY <1>1, <1>2 DEF Kept, Held

LEMMA TimeoutKept ==
  ASSUME Inv, Held, NEW id, Timeout(id)
  PROVE  Kept /\ Unsent
<1>1. RequestTypes' /\ Unsent /\ GrownSockets
  BY RejectedEffect, SameGrows DEF Timeout, Held
<1>2. UserTypes' /\ GrownUsers
  BY DEF Timeout, RejectAll, subscriptionVars, Held, UserTypes, GrownUsers, Listed
<1> QED
  BY <1>1, <1>2 DEF Kept, Held

LEMMA AnswerKept ==
  ASSUME Inv, Held, NEW id, NEW ok, Answered(id), Tells(id, ok),
         subscriptionId' \in [Subs -> 0..Cardinality(Subs)]
  PROVE  Kept /\ Unsent
<1>1. RequestTypes' /\ Unsent /\ GrownSockets
  BY AnsweredEffect, SameGrows DEF Held
<1>2. requests[id].op.who \in Calls \cup Subs
  BY OfOperation DEF Answered, Held
<1>3. UNCHANGED <<subscriptions, subscribed, left>>
  BY DEF Answered
<1>4. /\ user' \in [Calls \cup Subs -> {"new", "asked", "done", "failed"}]
      /\ \A x \in Calls \cup Subs : user[x] # "new" => user'[x] # "new"
  BY <1>2 DEF Tells, Held, UserTypes
<1>5. UserTypes' /\ GrownUsers
  BY <1>3, <1>4 DEF Held, UserTypes, GrownUsers, Listed
<1> QED
  BY <1>1, <1>5 DEF Kept, Held

LEMMA AnswersKept ==
  ASSUME Inv, Held, Answers
  PROVE  Kept /\ Unsent
<1>1. ASSUME NEW id \in DOMAIN requests, NEW ok \in BOOLEAN, AnswerPlain(id, ok)
      PROVE Kept /\ Unsent
  BY <1>1, AnswerKept DEF AnswerPlain, Held, UserTypes
<1>2. ASSUME NEW id \in DOMAIN requests, AnswerSubscribe(id)
      PROVE Kept /\ Unsent
  <2>1. Answered(id) /\ Tells(id, TRUE)
    BY <1>2 DEF AnswerSubscribe
  <2>2. subscriptionId' \in [Subs -> 0..Cardinality(Subs)]
    <3>1. \A n \in 1..Cardinality(Subs) : n \in 0..Cardinality(Subs)
      BY Options, FS_CardinalityType
    <3>2. PICK n \in 1..Cardinality(Subs) :
            subscriptionId' = IF Settles(id) /\ subscribed[requests[id].op.who]
                              THEN [subscriptionId EXCEPT ![requests[id].op.who] = n]
                              ELSE subscriptionId
      BY <1>2 DEF AnswerSubscribe
    <3> QED
      BY <3>1, <3>2 DEF Held, UserTypes
  <2> QED
    BY <2>1, <2>2, AnswerKept
<1>3. ASSUME NEW id \in DOMAIN requests, AnswerUnsubscribe(id)
      PROVE Kept /\ Unsent
  BY <1>3, AnswerKept DEF AnswerUnsubscribe, Held, UserTypes
<1> QED
  BY <1>1, <1>2, <1>3 DEF Answers

LEMMA ReconnectKept ==
  ASSUME Inv, Held, Reconnect
  PROVE  Kept
<1>1. RequestTypes' /\ GrownSockets
  BY ReconnectEffect, SameGrows, AppendGrows
<1>2. None \in 0..Cardinality(Subs)
  BY Options, FS_CardinalityType DEF None
<1>3. UserTypes' /\ GrownUsers
  BY <1>2 DEF Reconnect, ForgetIds, userVars, Held, UserTypes, GrownUsers, Listed
<1> QED
  BY <1>1, <1>3 DEF Kept, Held

LEMMA EventKept ==
  ASSUME Inv, Held, NEW k \in DOMAIN sockets, Open(k) \/ Close(k)
  PROVE  Kept
<1>1. RequestTypes' /\ GrownSockets
  <2>1. CASE Open(k)
    BY <2>1, OpenEffect, EventGrows DEF Held
  <2>2. CASE Close(k)
    BY <2>2, CloseEffect, EventGrows DEF Held
  <2> QED
    BY <2>1, <2>2
<1>2. UNCHANGED <<subscriptionVars, userVars>>
  BY DEF Open, Close
<1>3. UserTypes' /\ GrownUsers
  BY <1>2 DEF subscriptionVars, userVars, Held, UserTypes, GrownUsers, Listed
<1> QED
  BY <1>1, <1>3 DEF Kept, Held

LEMMA NextKeeps ==
  ASSUME Inv, Held, Next
  PROVE  Kept
<1>1. CASE Users
  BY <1>1, CallKept, SubscribeKept, UnsubscribeKept, AbortKept DEF Users
<1>2. CASE Answers
  BY <1>2, AnswersKept
<1>3. CASE Reconnect
  BY <1>3, ReconnectKept
<1>4. CASE \E k \in DOMAIN sockets : Connects(k) \/ Dropped(k)
  BY <1>4, EventKept DEF Connects, Dropped
<1>5. CASE \E id \in DOMAIN requests : Timeout(id)
  BY <1>5, TimeoutKept
<1> QED
  BY <1>1, <1>2, <1>3, <1>4, <1>5 DEF Next

LEMMA NextKept == Inv /\ Held /\ [Next]_vars => Held'
<1>1. ASSUME Held, UNCHANGED vars PROVE Held'
  BY <1>1 DEF vars, connectionVars, requestVars, subscriptionVars, userVars, Held, RequestTypes,
       UserTypes
<1> QED
  BY <1>1, NextKeeps DEF Kept

LEMMA InitHeld == Init => Held
<1> SUFFICES ASSUME Init PROVE Held
  OBVIOUS
<1>1. sockets = <<>> /\ Len(sockets) = 0 /\ waiting = <<>> /\ Len(waiting) = 0
  BY DEF Init
<1>2. <<>> \in Seq(Seq(Operations)) /\ <<>> \in Seq(Requests) /\ <<>> \in Seq(Subs)
  OBVIOUS
<1>3. None \in 0..Cardinality(Subs) /\ None \in Nat
  BY Options, FS_CardinalityType DEF None
<1>4. RequestTypes
  BY <1>1, <1>2 DEF Init, RequestTypes, None
<1>5. UserTypes
  BY <1>2, <1>3 DEF Init, UserTypes
<1> QED
  BY <1>4, <1>5 DEF Held
-----------------------------------------------------------------------------
LEMMA TimesOutSent ==
  ASSUME Held, SentTimesOut, NEW ops, Sent(ops)
  PROVE  SentTimesOut'
<1> SUFFICES ASSUME NEW i \in DOMAIN requests', ~ requests'[i].settled PROVE i \in armed'
  BY DEF SentTimesOut
<1>1. CASE i \in DOMAIN requests
  BY <1>1 DEF Sent, SentTimesOut
<1>2. CASE i \notin DOMAIN requests
  <2>1. i - Len(requests) \in DOMAIN ops /\ i \in Nat /\ Len(requests) \in Nat
    BY <1>2 DEF Sent
  <2>2. i = Len(requests) + (i - Len(requests))
    BY <2>1
  <2> QED
    BY <2>1, <2>2 DEF Sent
<1> QED
  BY <1>1, <1>2

LEMMA TimesOutSame ==
  ASSUME Held, SentTimesOut, SameRequests,
         \A i \in armed : i \in armed' \/ requests'[i].settled
  PROVE  SentTimesOut'
<1>1. ASSUME NEW i \in DOMAIN requests', ~ requests'[i].settled PROVE i \in armed'
  <2>1. i \in DOMAIN requests /\ (requests[i].settled => requests'[i].settled)
    BY DEF SameRequests
  <2>2. i \in armed
    BY <1>1, <2>1 DEF SentTimesOut
  <2> QED
    BY <1>1, <2>2
<1> QED
  BY <1>1 DEF SentTimesOut

LEMMA TimesOutMakes ==
  ASSUME Inv, Held, SentTimesOut, NEW op \in Operations, MakeRequests(<<op>>)
  PROVE  SentTimesOut'
<1>1. Sent(<<op>>) \/ UNCHANGED <<requests, armed>>
  BY MakeRequestsEffect DEF Held
<1>2. CASE UNCHANGED <<requests, armed>>
  BY <1>2 DEF SentTimesOut
<1> QED
  BY <1>1, <1>2, TimesOutSent

LEMMA TimesOutAnswers ==
  ASSUME Held, SentTimesOut, NEW id, Answered(id)
  PROVE  SentTimesOut'
<1>1. SameRequests /\ (id \in pendingRequests => requests'[id].settled)
  BY AnsweredSame DEF Held
<1>2. \A i \in armed : i \in armed' \/ (i = id /\ id \in pendingRequests)
  BY DEF Answered
<1> QED
  BY <1>1, <1>2, TimesOutSame

LEMMA TimesOutStep == Inv /\ Held /\ SentTimesOut /\ [Next]_vars => SentTimesOut'
<1> SUFFICES ASSUME Inv, Held, SentTimesOut, [Next]_vars PROVE SentTimesOut'
  OBVIOUS
<1>1. ASSUME UNCHANGED <<requests, armed>> PROVE SentTimesOut'
  BY <1>1 DEF SentTimesOut
<1>2. ASSUME NEW c \in Calls, Call(c) PROVE SentTimesOut'
  BY <1>2, TimesOutMakes, NewOperations DEF Call
<1>3. ASSUME NEW s \in Subs, Subscribe(s) PROVE SentTimesOut'
  BY <1>3, TimesOutMakes, NewOperations DEF Subscribe
<1>4. ASSUME NEW s \in Subs, Unsubscribe(s) PROVE SentTimesOut'
  <2>1. CASE subscriptionId[s] = None
    BY <1>1, <1>4, <2>1 DEF Unsubscribe, requestVars
  <2>2. CASE subscriptionId[s] # None
    <3>1. subscriptionId[s] \in 1..Cardinality(Subs)
      BY <2>2 DEF Held, UserTypes, None
    <3> QED
      BY <1>4, <2>2, <3>1, TimesOutMakes, NewOperations DEF Unsubscribe
  <2> QED
    BY <2>1, <2>2
<1>5. ASSUME NEW x \in Signals, Abort(x) PROVE SentTimesOut'
  <2>1. SameRequests /\ armed' = armed
    BY <1>5, RejectedSame DEF Abort, Held
  <2> QED
    BY <2>1, TimesOutSame
<1>6. CASE Answers
  BY <1>6, TimesOutAnswers DEF Answers, AnswerPlain, AnswerSubscribe, AnswerUnsubscribe
<1>7. CASE Reconnect
  BY <1>1, <1>7 DEF Reconnect
<1>8. ASSUME NEW k \in DOMAIN sockets, Open(k) PROVE SentTimesOut'
  BY <1>8, OpenEffect, TimesOutSent DEF Held
<1>9. ASSUME NEW k \in DOMAIN sockets, Close(k) PROVE SentTimesOut'
  <2>1. SameRequests /\ armed' = armed
    BY <1>9, ClosedSame DEF Close, Held
  <2> QED
    BY <2>1, TimesOutSame
<1>10. ASSUME NEW id \in DOMAIN requests, Timeout(id) PROVE SentTimesOut'
  <2>1. /\ SameRequests /\ armed' = armed \ {id}
        /\ \A i \in DOMAIN requests : i \in {id} => requests'[i].settled
    BY <1>10, RejectedSame DEF Timeout, Held
  <2> QED
    BY <2>1, TimesOutSame
<1>11. CASE UNCHANGED vars
  BY <1>1, <1>11 DEF vars, requestVars
<1> QED
  BY <1>2, <1>3, <1>4, <1>5, <1>6, <1>7, <1>8, <1>9, <1>10, <1>11
     DEF Next, Users, Connects, Dropped

LEMMA SpecHeld == Spec => [](Inv /\ Held)
<1>1. Init => Inv /\ Held
  BY InitInv, InitHeld
<1>2. Inv /\ Held /\ [Next]_vars => (Inv /\ Held)'
  BY NextInv, NextKept
<1> QED
  BY <1>1, <1>2, PTL DEF Spec

(* rpc-websocket-client.ts:115-133: although the timeouts and signals of   *)
(* other requests delete entries that are not theirs, every request that   *)
(* is neither answered nor rejected has a timer that will reject it.       *)
THEOREM TimeoutsRun == Spec => []SentTimesOut
<1>1. Init => SentTimesOut
  BY DEF Init, SentTimesOut
<1> QED
  BY <1>1, SpecHeld, TimesOutStep, PTL DEF Spec
-----------------------------------------------------------------------------
(* Nothing is asked twice.                                                 *)
LEMMA BegunStays ==
  ASSUME Held, GrownUsers
  PROVE  Begun \subseteq Begun'
<1>1. \A op \in Operations : /\ op.kind = "call" => op.who \in Calls
                             /\ op.kind = "unsubscribe" => op.who \in Subs
  BY DEF Operations
<1> QED
  BY <1>1 DEF Begun, GrownUsers

LEMMA AkinBegun ==
  ASSUME NEW o \in Operations, NEW p \in Operations, Akin(o, p)
  PROVE  /\ o \in Begun <=> p \in Begun
         /\ Asks(o) <=> Asks(p)
         /\ Akin(p, o)
BY DEF Akin, Asks, Begun

Doing == OpsInv /\ OnceInv

LEMMA DoingTypes ==
  ASSUME Inv, Held
  PROVE  /\ \A i \in DOMAIN requests : requests[i].op \in Operations
         /\ Awaited \in Seq(Operations)
         /\ \A i \in DOMAIN Awaited : Awaited[i] \in Operations
<1>1. \A i \in DOMAIN requests : requests[i].op \in Operations
  BY OfOperation DEF Held
<1>2. Awaited \in Seq(Operations)
  BY AwaitedTypes DEF Held
<1> QED
  BY <1>1, <1>2

LEMMA DoingUnsent ==
  ASSUME Inv, Held, Kept, Doing, Unsent
  PROVE  Doing'
<1>1. /\ DOMAIN requests' = DOMAIN requests
      /\ \A i \in DOMAIN requests : /\ requests'[i].op = requests[i].op
                                    /\ requests'[i].socket = requests[i].socket
  BY DEF Unsent, SameRequests
<1>2. \A i \in DOMAIN requests : requests[i].socket \in WereOpen' /\ requests[i].op \in Begun'
  BY DoingTypes, BegunStays DEF Doing, OpsInv, Kept, GrownSockets
<1>3. \A i \in DOMAIN Awaited : Awaited[i] \in Begun'
  BY DoingTypes, BegunStays DEF Doing, OpsInv, Kept
<1>4. OpsInv'
  <2>1. \A i \in DOMAIN requests' : requests'[i].socket \in WereOpen' /\ requests'[i].op \in Begun'
    BY <1>1, <1>2
  <2>2. \A i \in DOMAIN Awaited' : Awaited'[i] \in Begun'
    BY <1>3 DEF Unsent
  <2> QED
    BY <2>1, <2>2 DEF OpsInv
<1>5. OnceInv'
  BY <1>1 DEF Doing, OnceInv, Unsent, Akin, Asks
<1> QED
  BY <1>4, <1>5 DEF Doing

Fresh(ops) ==
  /\ ops \in Seq(Operations)
  /\ \A i \in DOMAIN ops : ops[i] \in Begun'
  /\ \A i, j \in DOMAIN ops : Akin(ops[i], ops[j]) => i = j
  /\ \A i \in DOMAIN ops : ops[i] \in Begun => Asks(ops[i]) /\ Awaited = <<>>

LEMMA DoingQueued ==
  ASSUME Inv, Held, Kept, Doing, NEW ops, Fresh(ops), Queued(ops)
  PROVE  Doing'
<1> DEFINE n == Len(Awaited)
           m == Len(ops)
           New(i) == i \in 1..(n + m) /\ i \notin 1..n
<1>1. /\ n \in Nat /\ m \in Nat /\ DOMAIN Awaited = 1..n /\ DOMAIN ops = 1..m
      /\ DOMAIN Awaited' = 1..(n + m)
      /\ \A i \in 1..n : Awaited'[i] = Awaited[i] /\ Awaited[i] \in Operations
      /\ \A i \in 1..(n + m) : i \notin 1..n =>
           i - n \in DOMAIN ops /\ Awaited'[i] = ops[i - n] /\ ops[i - n] \in Operations
  <2>1. Awaited \in Seq(Operations) /\ ops \in Seq(Operations) /\ Awaited' = Awaited \o ops
    BY DoingTypes DEF Fresh, Queued
  <2>2. \A i \in DOMAIN ops : ops[i] \in Operations
    BY <2>1
  <2> QED
    BY <2>1, <2>2, DoingTypes, Concatenation
<1> HIDE DEF n, m
<1>2. \A i \in DOMAIN requests : /\ requests[i].op \in Operations /\ requests[i].op \in Begun
                                 /\ requests[i].socket \in WereOpen'
                                 /\ requests[i].op \in Begun'
  BY DoingTypes, BegunStays DEF Doing, OpsInv, Kept, GrownSockets
<1>3. \A i \in 1..n : Awaited[i] \in Begun /\ Awaited[i] \in Begun'
  BY <1>1, BegunStays DEF Doing, OpsInv, Kept
<1>4. \A i : New(i) => /\ Awaited'[i] \in Begun' /\ Awaited'[i] \in Operations
                       /\ Awaited'[i] \in Begun => Asks(Awaited'[i]) /\ n = 0
  <2> SUFFICES ASSUME NEW i, New(i)
               PROVE  /\ Awaited'[i] \in Begun' /\ Awaited'[i] \in Operations
                      /\ Awaited'[i] \in Begun => Asks(Awaited'[i]) /\ n = 0
    OBVIOUS
  <2>1. i - n \in DOMAIN ops /\ Awaited'[i] = ops[i - n] /\ ops[i - n] \in Operations
    BY <1>1
  <2>2. Awaited = <<>> => n = 0
    BY DEF n
  <2> QED
    BY <2>1, <2>2 DEF Fresh
<1>5. OpsInv'
  <2>1. \A i \in DOMAIN Awaited' : Awaited'[i] \in Begun'
    BY <1>1, <1>3, <1>4
  <2> QED
    BY <1>2, <2>1 DEF OpsInv, Queued
<1>6. ASSUME NEW i \in DOMAIN Awaited', NEW j \in DOMAIN Awaited', Akin(Awaited'[i], Awaited'[j])
      PROVE  i = j
  <2>1. CASE i \in 1..n /\ j \in 1..n
    BY <1>1, <1>6, <2>1 DEF Doing, OnceInv
  <2>2. CASE New(i) /\ New(j)
    <3>1. /\ i - n \in DOMAIN ops /\ Awaited'[i] = ops[i - n]
          /\ j - n \in DOMAIN ops /\ Awaited'[j] = ops[j - n]
      BY <1>1, <2>2
    <3>2. i - n = j - n
      BY <1>6, <3>1 DEF Fresh
    <3> QED
      BY <1>1, <3>2
  <2>3. CASE i \in 1..n /\ New(j)
    BY <1>1, <1>3, <1>4, <1>6, <2>3, AkinBegun
  <2>4. CASE New(i) /\ j \in 1..n
    BY <1>1, <1>3, <1>4, <1>6, <2>4, AkinBegun
  <2> QED
    BY <1>1, <2>1, <2>2, <2>3, <2>4
<1>7. ASSUME NEW i \in DOMAIN requests, NEW j \in DOMAIN Awaited', ~ Asks(requests[i].op),
             Akin(requests[i].op, Awaited'[j])
      PROVE  FALSE
  <2>1. CASE j \in 1..n
    BY <1>1, <1>7, <2>1 DEF Doing, OnceInv
  <2>2. CASE New(j)
    BY <1>2, <1>4, <1>7, <2>2, AkinBegun
  <2> QED
    BY <1>1, <2>1, <2>2
<1>8. OnceInv'
  BY <1>6, <1>7 DEF OnceInv, Doing, Queued
<1> QED
  BY <1>5, <1>8 DEF Doing

LEMMA DoingSent ==
  ASSUME Inv, Inv', Held, Kept, Doing, NEW ops \in Seq(Operations), Sent(ops),
         \A i \in DOMAIN ops : ops[i] \in Begun',
         \A i, j \in DOMAIN ops : Akin(ops[i], ops[j]) => i = j,
         \A i \in DOMAIN requests, j \in DOMAIN ops :
           Akin(requests[i].op, ops[j]) =>
             Asks(requests[i].op) /\ requests[i].socket # Len(sockets')
  PROVE  Doing'
<1> DEFINE n == Len(requests)
           New(i) == i \in DOMAIN requests' /\ i \notin DOMAIN requests
<1>1. /\ n \in Nat /\ DOMAIN requests = 1..n
      /\ \A i \in DOMAIN requests : requests'[i] = requests[i] /\ requests[i].op \in Operations
      /\ Awaited' = <<>> /\ DOMAIN Awaited' = {}
  BY DoingTypes DEF Sent
<1>2. Len(sockets') \in WereOpen'
  BY DEF Inv, TypeInv, WereOpen, Sent
<1>3. \A i : New(i) => /\ i \in Nat /\ i - n \in DOMAIN ops /\ ops[i - n] \in Operations
                       /\ requests'[i].op = ops[i - n] /\ requests'[i].socket = Len(sockets')
  BY DEF Sent
<1> HIDE DEF n
<1>4. OpsInv'
  <2>1. ASSUME NEW i \in DOMAIN requests'
        PROVE  requests'[i].socket \in WereOpen' /\ requests'[i].op \in Begun'
    <3>1. CASE i \in DOMAIN requests
      BY <1>1, <3>1, BegunStays DEF Doing, OpsInv, Kept, GrownSockets
    <3>2. CASE New(i)
      BY <1>2, <1>3, <3>2
    <3> QED
      BY <3>1, <3>2
  <2> QED
    BY <1>1, <2>1 DEF OpsInv
<1>5. ASSUME NEW i \in DOMAIN requests', NEW j \in DOMAIN requests',
             Akin(requests'[i].op, requests'[j].op),
             Asks(requests'[i].op) => requests'[i].socket = requests'[j].socket
      PROVE  i = j
  <2>1. CASE i \in DOMAIN requests /\ j \in DOMAIN requests
    BY <1>1, <1>5, <2>1 DEF Doing, OnceInv
  <2>2. CASE New(i) /\ New(j)
    <3>1. i - n = j - n
      BY <1>3, <1>5, <2>2
    <3> QED
      BY <1>1, <1>3, <2>2, <3>1
  <2>3. CASE i \in DOMAIN requests /\ New(j)
    BY <1>1, <1>3, <1>5, <2>3
  <2>4. CASE New(i) /\ j \in DOMAIN requests
    <3>1. Akin(requests'[j].op, requests'[i].op) /\ (Asks(requests'[j].op) => Asks(requests'[i].op))
      BY <1>1, <1>3, <1>5, <2>4, AkinBegun
    <3> QED
      BY <1>1, <1>3, <1>5, <2>4, <3>1
  <2> QED
    BY <2>1, <2>2, <2>3, <2>4
<1>6. OnceInv'
  BY <1>1, <1>5 DEF OnceInv
<1> QED
  BY <1>4, <1>6 DEF Doing

(* makeRequest is called for what had not been begun.                      *)
LEMMA DoingMake ==
  ASSUME Inv, Inv', Held, Kept, Doing, NEW op \in Operations, MakeRequests(<<op>>),
         op \notin Begun, op \in Begun'
  PROVE  Doing'
<1>1. /\ <<op>> \in Seq(Operations) /\ DOMAIN <<op>> = {1} /\ <<op>>[1] = op
  OBVIOUS
<1>2. Fresh(<<op>>)
  BY <1>1 DEF Fresh
<1>3. \A i \in DOMAIN requests : ~ Akin(requests[i].op, op)
  BY DoingTypes, AkinBegun DEF Doing, OpsInv
<1>4. Sent(<<op>>) \/ Queued(<<op>>) \/ Unsent
  BY MakeRequestsEffect DEF Held
<1>5. CASE Sent(<<op>>)
  BY <1>1, <1>3, <1>5, DoingSent
<1>6. CASE Queued(<<op>>)
  BY <1>2, <1>6, DoingQueued
<1> QED
  BY <1>4, <1>5, <1>6, DoingUnsent

LEMMA DoingOpen ==
  ASSUME Inv, Inv', Held, Kept, Doing, NEW k \in DOMAIN sockets, Open(k)
  PROVE  Doing'
<1>1. /\ Sent(Awaited) /\ Awaited \in Seq(Operations)
      /\ Len(sockets') \notin WereOpen
  BY OpenEffect DEF Held, WereOpen, Connected
<1>2. \A i \in DOMAIN Awaited : Awaited[i] \in Begun'
  BY BegunStays DEF Doing, OpsInv, Kept
<1>3. \A i, j \in DOMAIN Awaited : Akin(Awaited[i], Awaited[j]) => i = j
  BY DEF Doing, OnceInv
<1>4. \A i \in DOMAIN requests, j \in DOMAIN Awaited :
        Akin(requests[i].op, Awaited[j]) =>
          Asks(requests[i].op) /\ requests[i].socket # Len(sockets')
  BY <1>1 DEF Doing, OnceInv, OpsInv
<1> QED
  BY <1>1, <1>2, <1>3, <1>4, DoingSent

LEMMA DoingReconnect ==
  ASSUME Inv, Inv', Held, Kept, Doing, ListedInv, Reconnect
  PROVE  Doing'
<1>1. /\ UNCHANGED requests /\ Awaited = <<>>
      /\ Renewals \in Seq(Operations) /\ DOMAIN Renewals = DOMAIN subscriptions
      /\ \A i \in DOMAIN subscriptions :
           Renewals[i] = [kind |-> "renew", who |-> subscriptions[i], id |-> None]
      /\ Awaited' = <<>> \/ Awaited' = Renewals
  BY ReconnectEffect
<1>2. CASE Awaited' = <<>>
  <2>1. Unsent
    BY <1>1, <1>2 DEF Unsent, SameRequests, Held, RequestTypes
  <2> QED
    BY <2>1, DoingUnsent
<1>3. CASE Awaited' = Renewals
  <2>1. \A i \in DOMAIN Renewals : /\ Asks(Renewals[i]) /\ Renewals[i].who = subscriptions[i]
                                   /\ Renewals[i].kind = "renew" /\ Renewals[i] \in Operations
    BY <1>1 DEF Asks
  <2>2. \A i \in DOMAIN subscriptions : subscriptions[i] \in Listed'
    BY DEF Listed, ToSet, Kept, GrownUsers
  <2>3. \A i \in DOMAIN Renewals : Renewals[i] \in Begun'
    BY <1>1, <2>1, <2>2 DEF Begun
  <2>4. \A i, j \in DOMAIN Renewals : Akin(Renewals[i], Renewals[j]) => i = j
    BY <1>1, <2>1 DEF Akin, ListedInv
  <2>5. Fresh(Renewals)
    BY <1>1, <2>1, <2>3, <2>4 DEF Fresh
  <2>6. Queued(Renewals)
    BY <1>1, <1>3 DEF Queued
  <2> QED
    BY <2>5, <2>6, DoingQueued
<1> QED
  BY <1>1, <1>2, <1>3
-----------------------------------------------------------------------------
(* Who is listed.                                                          *)
LEMMA ListedSame ==
  ASSUME Held, GrownUsers, ListedInv, UNCHANGED <<subscriptions, left>>,
         \A s \in Subs : subscribed'[s] => subscribed[s] \/ s \in Listed
  PROVE  ListedInv'
BY DEF ListedInv, Listed, GrownUsers

LEMMA ListedStep ==
  ASSUME Inv, Held, Kept, ListedInv, Next
  PROVE  ListedInv'
<1> USE DEF Held, UserTypes
<1>1. ASSUME NEW c \in Calls, Call(c) PROVE ListedInv'
  BY <1>1, ListedSame DEF Call, subscriptionVars, Kept
<1>2. ASSUME NEW s \in Subs, Subscribe(s) PROVE ListedInv'
  <2> DEFINE n == Len(subscriptions)
  <2>1. /\ s \notin Listed /\ Listed' = Listed \cup {s} /\ user' = [user EXCEPT ![s] = "asked"]
        /\ subscribed' = [subscribed EXCEPT ![s] = TRUE] /\ left' = left
    BY <1>2, ListedAppended DEF Subscribe, ListedInv
  <2>2. /\ n \in Nat /\ DOMAIN subscriptions = 1..n /\ DOMAIN subscriptions' = 1..(n + 1)
        /\ subscriptions'[n + 1] = s
        /\ \A i \in 1..n : subscriptions'[i] = subscriptions[i] /\ subscriptions[i] \in Listed
    BY <1>2, Appended DEF Subscribe, Listed, ToSet
  <2> HIDE DEF n
  <2>3. \A i \in 1..(n + 1) : i \in 1..n \/ i = n + 1
    BY <2>2
  <2>4. ASSUME NEW i \in 1..(n + 1), NEW j \in 1..(n + 1), subscriptions'[i] = subscriptions'[j]
        PROVE  i = j
    BY <2>1, <2>2, <2>3, <2>4 DEF ListedInv
  <2>5. \A t \in Subs : user'[t] = "new" => t \notin Listed' /\ left'[t] = None
    BY <2>1 DEF ListedInv
  <2>6. \A t \in Subs : subscribed'[t] => t \in Listed'
    BY <2>1 DEF ListedInv
  <2> QED
    BY <2>2, <2>4, <2>5, <2>6 DEF ListedInv
<1>3. ASSUME NEW s \in Subs, Unsubscribe(s) PROVE ListedInv'
  <2>1. /\ user[s] = "done" /\ UNCHANGED <<subscriptions, user>>
        /\ left' = [left EXCEPT ![s] = Len(sockets)]
        /\ subscribed' = [subscribed EXCEPT ![s] = FALSE]
    BY <1>3 DEF Unsubscribe, Silenced
  <2> QED
    BY <2>1 DEF ListedInv, Listed
<1>4. CASE (\E x \in Signals : Abort(x)) \/ (\E id \in DOMAIN requests : Timeout(id))
  BY <1>4, ListedSame DEF Abort, Timeout, RejectAll, subscriptionVars, Kept
<1>5. CASE Answers
  <2>1. UNCHANGED <<subscriptions, subscribed, left>>
    BY <1>5 DEF Answers, AnswerPlain, AnswerSubscribe, AnswerUnsubscribe, Answered
  <2> QED
    BY <2>1, ListedSame DEF Kept
<1>6. CASE Reconnect
  BY <1>6, ListedSame DEF Reconnect, userVars, Kept
<1>7. ASSUME NEW k \in DOMAIN sockets, Open(k) \/ Close(k) PROVE ListedInv'
  BY <1>7, ListedSame DEF Open, Close, subscriptionVars, userVars, Kept
<1> QED
  BY <1>1, <1>2, <1>3, <1>4, <1>5, <1>6, <1>7 DEF Next, Users, Connects, Dropped

(* Who is silenced.                                                        *)
LEMMA LeftSame ==
  ASSUME Inv, Held, GrownSockets, LeftInv, left' = left,
         \A s \in Subs : subscribed'[s] => subscribed[s] \/ left[s] = None
  PROVE  LeftInv'
<1>1. Len(sockets) \in Nat /\ Len(sockets') \in Nat /\ Len(sockets) <= Len(sockets')
  BY DEF Inv, TypeInv, GrownSockets
<1>2. \A s \in Subs : left[s] \in Nat
  BY DEF Held, UserTypes
<1> QED
  BY <1>1, <1>2 DEF LeftInv

LEMMA LeftStep ==
  ASSUME Inv, Held, Kept, ListedInv, LeftInv, Next
  PROVE  LeftInv'
<1>1. ASSUME NEW c \in Calls, Call(c) PROVE LeftInv'
  BY <1>1, LeftSame DEF Call, subscriptionVars, Kept
<1>2. ASSUME NEW s \in Subs, Subscribe(s) PROVE LeftInv'
  <2>1. left' = left /\ subscribed' = [subscribed EXCEPT ![s] = TRUE] /\ left[s] = None
    BY <1>2 DEF Subscribe, ListedInv
  <2> QED
    BY <2>1, LeftSame DEF Kept
<1>3. ASSUME NEW s \in Subs, Unsubscribe(s) PROVE LeftInv'
  <2>1. /\ left' = [left EXCEPT ![s] = Len(sockets)] /\ Len(sockets) <= Len(sockets')
        /\ subscribed' = [subscribed EXCEPT ![s] = FALSE]
        /\ Len(sockets) \in Nat /\ Len(sockets') \in Nat
    BY <1>3 DEF Unsubscribe, Silenced, Kept, GrownSockets, Inv, TypeInv
  <2> QED
    BY <2>1 DEF LeftInv, Held, UserTypes
<1>4. CASE (\E x \in Signals : Abort(x)) \/ (\E id \in DOMAIN requests : Timeout(id))
  BY <1>4, LeftSame DEF Abort, Timeout, RejectAll, subscriptionVars, Kept
<1>5. CASE Answers
  <2>1. UNCHANGED <<subscribed, left>>
    BY <1>5 DEF Answers, AnswerPlain, AnswerSubscribe, AnswerUnsubscribe, Answered
  <2> QED
    BY <2>1, LeftSame DEF Kept
<1>6. CASE Reconnect
  <2>1. left' = left /\ Len(sockets) \in Nat
    BY <1>6 DEF Reconnect, userVars, Inv, TypeInv
  <2>2. CASE subscriptions = <<>>
    <3>1. Listed = {}
      BY <2>2 DEF Listed, ToSet
    <3>2. subscribed' = subscribed
      BY <1>6, <3>1 DEF Reconnect, Held, UserTypes
    <3> QED
      BY <2>1, <3>2, LeftSame DEF Kept
  <2>3. CASE sockets' = Append(sockets, "connecting")
    <3>1. Len(sockets') = Len(sockets) + 1
      BY <2>1, <2>3
    <3> QED
      BY <2>1, <3>1 DEF LeftInv, Held, UserTypes
  <2> QED
    BY <1>6, <2>2, <2>3, ReconnectEffect
<1>7. ASSUME NEW k \in DOMAIN sockets, Open(k) \/ Close(k) PROVE LeftInv'
  BY <1>7, LeftSame DEF Open, Close, subscriptionVars, userVars, Kept
<1> QED
  BY <1>1, <1>2, <1>3, <1>4, <1>5, <1>6, <1>7 DEF Next, Users, Connects, Dropped

-----------------------------------------------------------------------------
(* Who is asked for.                                                       *)
LEMMA PromiseSame ==
  ASSUME PromiseInv, UNCHANGED <<sockets, connection, waiting, subscriptions>>, SameRequests
  PROVE  PromiseInv'
<1>1. Awaited' = Awaited /\ Listed' = Listed /\ (\A state : LastIs(state)' <=> LastIs(state))
  BY DEF Awaited, Listed, LastIs
<1>2. \A s, k : AskedFor(s, k)' = AskedFor(s, k)
  BY DEF AskedFor, SameRequests
<1> QED
  BY <1>1, <1>2 DEF PromiseInv

LEMMA PromiseMake ==
  ASSUME Inv, Inv', Held, PromiseInv, NEW op \in Operations, MakeRequests(<<op>>),
         \A s \in Listed' : s \in Listed \/ (Asks(op) /\ op.who = s)
  PROVE  PromiseInv'
<1>1. \/ UNCHANGED sockets /\ Sent(<<op>>) /\ connection # None
      \/ /\ UNCHANGED <<sockets, connection>> /\ Queued(<<op>>) /\ connection # None
         /\ LastIs("connecting")
      \/ /\ UNCHANGED <<sockets, connection>> /\ Unsent /\ connection # None
         /\ ~ LastLives
      \/ MakesConnection /\ Queued(<<op>>) /\ Awaited = <<>>
  BY MakeRequestsEffect DEF Held
<1>2. CASE UNCHANGED sockets /\ Sent(<<op>>) /\ connection # None
  <2>1. ~ LastIs("connecting")' /\ connection' # None /\ (LastIs("open")' => LastIs("open"))
    BY <1>2 DEF Sent, Connected, LastIs
  <2>2. ASSUME LastIs("open")', NEW s \in Listed' PROVE AskedFor(s, Len(sockets))' # {}
    <3>1. CASE s \in Listed
      <4>1. PICK i \in DOMAIN requests : /\ requests[i].socket = Len(sockets) /\ requests[i].op.who = s
                                         /\ requests[i].op.kind \in {"subscribe", "renew"}
        BY <2>1, <2>2, <3>1 DEF PromiseInv, AskedFor
      <4>2. i \in DOMAIN requests' /\ requests'[i] = requests[i]
        BY <1>2 DEF Sent
      <4>3. i \in AskedFor(s, Len(sockets))'
        BY <1>2, <4>1, <4>2 DEF AskedFor
      <4> QED
        BY <4>3
    <3>2. CASE Asks(op) /\ op.who = s
      <4> DEFINE i == Len(requests) + 1
      <4>1. Len(<<op>>) = 1 /\ <<op>>[1] = op /\ Len(requests) \in Nat /\ i - Len(requests) = 1
        BY <1>2 DEF Sent
      <4>2. i \in DOMAIN requests' /\ requests'[i].op = op /\ requests'[i].socket = Len(sockets')
        <5>1. i \in 1..(Len(requests) + Len(<<op>>)) /\ i \notin 1..Len(requests)
          BY <4>1
        <5> QED
          BY <1>2, <4>1, <5>1 DEF Sent
      <4>3. i \in AskedFor(s, Len(sockets))'
        BY <3>2, <4>2 DEF AskedFor, Asks
      <4> QED
        BY <4>3
    <3> QED
      BY <3>1, <3>2
  <2> QED
    BY <2>1, <2>2 DEF PromiseInv
<1>3. ASSUME Queued(<<op>>), connection' # None, LastIs("connecting")',
             LastIs("connecting") \/ Listed = {}
      PROVE  PromiseInv'
  <2>1. ~ LastIs("open")'
    BY <1>3 DEF LastIs
  <2> DEFINE n == Len(Awaited)
  <2>2. /\ n \in Nat /\ DOMAIN Awaited = 1..n /\ DOMAIN Awaited' = 1..(n + 1)
        /\ \A i \in 1..n : Awaited'[i] = Awaited[i]
        /\ Awaited'[n + 1] = op
    <3>1. Awaited \in Seq(Operations) /\ Awaited' = Append(Awaited, op)
      BY <1>3, DoingTypes DEF Queued
    <3> QED
      BY <3>1, Appended
  <2> HIDE DEF n
  <2>3. n + 1 \in 1..(n + 1) /\ \A i \in 1..n : i \in 1..(n + 1)
    BY <2>2
  <2>4. ASSUME NEW s \in Listed'
        PROVE  \E i \in DOMAIN Awaited' : Asks(Awaited'[i]) /\ Awaited'[i].who = s
    <3>1. CASE s \in Listed
      <4>1. PICK i \in 1..n : Asks(Awaited[i]) /\ Awaited[i].who = s
        BY <1>3, <2>2, <3>1 DEF PromiseInv
      <4> QED
        BY <2>2, <2>3, <4>1
    <3>2. CASE Asks(op) /\ op.who = s
      BY <2>2, <2>3, <3>2
    <3> QED
      BY <3>1, <3>2
  <2> QED
    BY <1>3, <2>1, <2>4 DEF PromiseInv
<1>4. CASE UNCHANGED <<sockets, connection>> /\ connection # None /\ ~ LastLives
  BY <1>4 DEF PromiseInv, LastIs, LastLives
<1>5. CASE MakesConnection
  <2>1. "connecting" \in State /\ sockets \in Seq(State)
    BY DEF State, Inv, TypeInv
  <2>2. Len(sockets') = Len(sockets) + 1 /\ sockets'[Len(sockets) + 1] = "connecting" /\ sockets' # <<>>
    BY <1>5, <2>1, Appended DEF MakesConnection
  <2>3. connection' # None /\ LastIs("connecting")' /\ Listed = {}
    BY <1>5, <2>1, <2>2 DEF MakesConnection, LastIs, PromiseInv, None
  <2> QED
    BY <1>1, <1>3, <1>5, <2>3 DEF MakesConnection
<1>6. CASE UNCHANGED <<sockets, connection>> /\ LastIs("connecting") /\ connection # None /\ Queued(<<op>>)
  BY <1>3, <1>6 DEF LastIs
<1> QED
  BY <1>1, <1>2, <1>4, <1>5, <1>6

LEMMA PromiseOpen ==
  ASSUME Inv, Inv', Held, PromiseInv, NEW k \in DOMAIN sockets, Open(k)
  PROVE  PromiseInv'
<1>1. /\ Sent(Awaited) /\ Awaited \in Seq(Operations) /\ LastIs("connecting") /\ LastIs("open")'
      /\ ~ LastIs("connecting")' /\ Len(sockets') = Len(sockets)
  BY OpenEffect DEF Held, LastIs, Sent
<1>2. Listed' = Listed
  BY DEF Open, subscriptionVars, Listed
<1>3. connection' # None
  BY <1>1 DEF Sent, Inv, TypeInv, None
<1>4. ASSUME NEW s \in Listed PROVE AskedFor(s, Len(sockets))' # {}
  <2>1. PICK j \in DOMAIN Awaited : Asks(Awaited[j]) /\ Awaited[j].who = s
    BY <1>1, <1>4 DEF PromiseInv
  <2> DEFINE i == Len(requests) + j
  <2>2. /\ j \in 1..Len(Awaited) /\ Len(requests) \in Nat /\ Len(Awaited) \in Nat /\ j \in Nat
        /\ i - Len(requests) = j
    BY <1>1, <2>1 DEF Sent
  <2>3. i \in 1..(Len(requests) + Len(Awaited)) /\ i \notin 1..Len(requests)
    BY <2>2
  <2>4. i \in DOMAIN requests' /\ requests'[i].op = Awaited[j] /\ requests'[i].socket = Len(sockets')
    BY <1>1, <2>2, <2>3 DEF Sent
  <2>5. i \in AskedFor(s, Len(sockets))'
    BY <2>1, <2>4 DEF AskedFor, Asks
  <2> QED
    BY <2>5
<1> QED
  BY <1>1, <1>2, <1>3, <1>4 DEF PromiseInv

LEMMA PromiseReconnect ==
  ASSUME Inv, Held, PromiseInv, Reconnect
  PROVE  PromiseInv'
<1>1. Listed' = Listed
  BY DEF Reconnect, Listed
<1>2. CASE subscriptions = <<>> /\ UNCHANGED sockets /\ ~ LastLives
  BY <1>1, <1>2 DEF PromiseInv, LastIs, LastLives, Listed, ToSet
<1>3. CASE /\ sockets' = Append(sockets, "connecting") /\ connection' = Len(sockets')
           /\ Awaited' = Renewals
  <2>1. "connecting" \in State /\ sockets \in Seq(State)
    BY DEF State, Inv, TypeInv
  <2>2. /\ Len(sockets') = Len(sockets) + 1 /\ sockets'[Len(sockets) + 1] = "connecting"
        /\ sockets' # <<>> /\ Len(sockets) \in Nat
    BY <1>3, <2>1, Appended
  <2>3. connection' # None /\ ~ LastIs("open")'
    BY <1>3, <2>2 DEF LastIs, None
  <2>4. \A s \in Listed : \E i \in DOMAIN Awaited' : Asks(Awaited'[i]) /\ Awaited'[i].who = s
    <3>1. /\ DOMAIN Renewals = DOMAIN subscriptions
          /\ \A i \in DOMAIN subscriptions : Asks(Renewals[i]) /\ Renewals[i].who = subscriptions[i]
      BY ReconnectEffect DEF Asks
    <3> QED
      BY <1>3, <3>1 DEF Listed, ToSet
  <2> QED
    BY <1>1, <2>3, <2>4 DEF PromiseInv
<1> QED
  BY <1>2, <1>3, ReconnectEffect

LEMMA PromiseStep ==
  ASSUME Inv, Inv', Held, PromiseInv, Next
  PROVE  PromiseInv'
<1>1. ASSUME NEW c \in Calls, Call(c) PROVE PromiseInv'
  BY <1>1, PromiseMake, NewOperations DEF Call, subscriptionVars, Listed
<1>2. ASSUME NEW s \in Subs, Subscribe(s) PROVE PromiseInv'
  <2>1. Listed' = Listed \cup {s}
    BY <1>2, ListedAppended DEF Subscribe, Held
  <2>2. Operation("subscribe", s).who = s /\ Asks(Operation("subscribe", s))
    BY DEF Operation, Asks
  <2> QED
    BY <1>2, <2>1, <2>2, PromiseMake, NewOperations DEF Subscribe
<1>3. ASSUME NEW s \in Subs, Unsubscribe(s) PROVE PromiseInv'
  <2>1. CASE subscriptionId[s] = None
    <3>1. UNCHANGED <<sockets, connection, waiting, subscriptions, requests>>
      BY <1>3, <2>1 DEF Unsubscribe, requestVars
    <3>2. SameRequests
      BY <3>1 DEF SameRequests, Held, RequestTypes
    <3> QED
      BY <3>1, <3>2, PromiseSame
  <2>2. CASE subscriptionId[s] # None
    <3>1. subscriptionId[s] \in 1..Cardinality(Subs) /\ Listed' = Listed
      BY <1>3, <2>2 DEF Held, UserTypes, None, Unsubscribe, Listed
    <3> QED
      BY <1>3, <2>2, <3>1, PromiseMake, NewOperations DEF Unsubscribe
  <2> QED
    BY <2>1, <2>2
<1>4. CASE (\E x \in Signals : Abort(x)) \/ (\E id \in DOMAIN requests : Timeout(id))
  <2>1. PICK ids : RejectAll(ids)
    BY <1>4 DEF Abort, Timeout
  <2> QED
    BY <2>1, RejectedSame, PromiseSame DEF RejectAll, connectionVars, subscriptionVars, Held
<1>5. CASE Answers
  <2>1. PICK id : Answered(id)
    BY <1>5 DEF Answers, AnswerPlain, AnswerSubscribe, AnswerUnsubscribe
  <2> QED
    BY <2>1, AnsweredSame, PromiseSame DEF Answered, connectionVars, Held
<1>6. ASSUME NEW k \in DOMAIN sockets, Close(k) PROVE PromiseInv'
  <2>1. /\ k = Len(sockets') /\ sockets'[k] \in {"failed", "closed"} /\ connection # None
        /\ connection' = connection /\ Listed' = Listed
    BY <1>6, CloseEffect DEF Held, Close, subscriptionVars, Listed
  <2> QED
    BY <2>1 DEF PromiseInv, LastIs
<1> QED
  BY <1>1, <1>2, <1>3, <1>4, <1>5, <1>6, PromiseOpen, PromiseReconnect
     DEF Next, Users, Connects, Dropped
-----------------------------------------------------------------------------
(* Ids and what the server serves.                                         *)
Known == IdInv /\ ServerInv

LEMMA KnownSame ==
  ASSUME Inv, RequestTypes, Known, UNCHANGED <<sockets, connection, subscriptionId, left, server>>,
         \A s \in Subs : subscribed[s] => subscribed'[s],
         Unsent
  PROVE  Known'
<1>1. \A state : LastIs(state)' <=> LastIs(state)
  BY DEF LastIs
<1>2. /\ DOMAIN requests' = DOMAIN requests
      /\ \A i \in DOMAIN requests : /\ requests'[i].op = requests[i].op
                                    /\ requests'[i].socket = requests[i].socket
                                    /\ requests[i].over => requests'[i].over
  BY DEF Unsent, SameRequests
<1>3. \A i \in DOMAIN Awaited' : Awaited'[i].kind # "unsubscribe"
  BY DEF Unsent, Known, IdInv
<1>4. IdInv'
  BY <1>1, <1>2, <1>3 DEF Known, IdInv
<1>5. ServerInv'
  <2>1. \A i \in DOMAIN requests' :
          requests'[i].op.kind = "unsubscribe" /\ ~ requests'[i].over
            => Subscription(requests'[i].op.id, requests'[i].op.who) \in server
    BY <1>2 DEF Known, ServerInv
  <2>2. LastIs("open")' =>
          \A s \in Subs : subscriptionId[s] # None => Subscription(subscriptionId[s], s) \in server
    BY <1>1 DEF Known, ServerInv
  <2>3. \A m, n \in server' : m.id = n.id => m = n
    BY DEF Known, ServerInv
  <2> QED
    BY <2>1, <2>2, <2>3 DEF ServerInv
<1> QED
  BY <1>4, <1>5 DEF Known

(* Where a request of makeRequest can go.                                  *)
LEMMA MadeSockets ==
  ASSUME Inv, RequestTypes, NEW op \in Operations, MakeRequests(<<op>>)
  PROVE  /\ connection' # None
         /\ LastIs("connecting")' => connection = None \/ LastIs("connecting")
         /\ LastIs("open")' => LastIs("open") /\ UNCHANGED sockets
         /\ Sent(<<op>>) \/ UNCHANGED requests \/ SameRequests
         /\ Awaited' \in {<<>>, Awaited, Awaited \o <<op>>}
<1>1. \/ UNCHANGED sockets /\ Sent(<<op>>) /\ connection # None
      \/ /\ UNCHANGED <<sockets, connection>> /\ Queued(<<op>>) /\ connection # None
         /\ LastIs("connecting")
      \/ /\ UNCHANGED <<sockets, connection>> /\ Unsent /\ connection # None
         /\ ~ LastLives
      \/ MakesConnection /\ Queued(<<op>>) /\ Awaited = <<>>
  BY MakeRequestsEffect
<1>2. CASE UNCHANGED sockets /\ Sent(<<op>>) /\ connection # None
  BY <1>2 DEF Sent, LastIs
<1>3. CASE /\ UNCHANGED <<sockets, connection>> /\ Queued(<<op>>) /\ connection # None
           /\ LastIs("connecting")
  BY <1>3 DEF Queued, LastIs
<1>4. CASE /\ UNCHANGED <<sockets, connection>> /\ Unsent /\ connection # None
  BY <1>4 DEF Unsent, LastIs
<1>5. CASE MakesConnection /\ Queued(<<op>>)
  <2>1. "connecting" \in State /\ sockets \in Seq(State)
    BY DEF State, Inv, TypeInv
  <2>2. /\ Len(sockets') = Len(sockets) + 1 /\ sockets'[Len(sockets) + 1] = "connecting"
        /\ Len(sockets) \in Nat
    BY <1>5, <2>1, Appended DEF MakesConnection
  <2>3. connection' # None /\ ~ LastIs("open")' /\ connection = None
    BY <1>5, <2>2 DEF MakesConnection, LastIs, None
  <2> QED
    BY <1>5, <2>3 DEF Queued
<1> QED
  BY <1>1, <1>2, <1>3, <1>4, <1>5

LEMMA AwaitedPlain ==
  ASSUME Inv, RequestTypes, IdInv, NEW op \in Operations, op.kind # "unsubscribe",
         Awaited' \in {<<>>, Awaited, Awaited \o <<op>>}
  PROVE  \A i \in DOMAIN Awaited' : Awaited'[i].kind # "unsubscribe"
<1>1. CASE Awaited' = Awaited \o <<op>>
  <2>1. Awaited \in Seq(Operations) /\ Awaited' = Append(Awaited, op)
    BY <1>1, AwaitedTypes
  <2>2. /\ DOMAIN Awaited = 1..Len(Awaited) /\ DOMAIN Awaited' = 1..(Len(Awaited) + 1)
        /\ Len(Awaited) \in Nat
        /\ Awaited'[Len(Awaited) + 1] = op /\ \A i \in 1..Len(Awaited) : Awaited'[i] = Awaited[i]
    BY <2>1, Appended
  <2>3. \A i \in 1..(Len(Awaited) + 1) : i \in 1..Len(Awaited) \/ i = Len(Awaited) + 1
    BY <2>2
  <2> QED
    BY <2>2, <2>3 DEF IdInv
<1>2. CASE Awaited' \in {<<>>, Awaited}
  BY <1>2 DEF IdInv
<1> QED
  BY <1>1, <1>2

LEMMA KnownSent ==
  ASSUME RequestTypes, Known, NEW ops, Sent(ops), UNCHANGED <<left, server>>,
         \A i \in DOMAIN ops : ops[i].kind # "unsubscribe"
  PROVE  /\ \A i \in DOMAIN requests' :
              requests'[i].op.kind = "unsubscribe" =>
                left'[requests'[i].op.who] = requests'[i].socket
         /\ \A i \in DOMAIN requests' :
              requests'[i].op.kind = "unsubscribe" /\ ~ requests'[i].over
                => Subscription(requests'[i].op.id, requests'[i].op.who) \in server'
<1>1. \A i \in DOMAIN requests' :
        (i \in DOMAIN requests /\ requests'[i] = requests[i]) \/ requests'[i].op.kind # "unsubscribe"
  BY DEF Sent
<1> QED
  BY <1>1 DEF Known, IdInv, ServerInv

LEMMA KnownMake ==
  ASSUME Inv, RequestTypes, Known, NEW op \in Operations, MakeRequests(<<op>>),
         op.kind # "unsubscribe", UNCHANGED <<subscriptionId, left, server>>,
         \A s \in Subs : subscribed[s] => subscribed'[s]
  PROVE  Known'
<1>1. /\ connection' # None
      /\ LastIs("connecting")' => connection = None \/ LastIs("connecting")
      /\ LastIs("open")' => LastIs("open")
      /\ \A i \in DOMAIN Awaited' : Awaited'[i].kind # "unsubscribe"
  BY MadeSockets, AwaitedPlain DEF Known
<1>2. /\ \A i \in DOMAIN requests' :
           requests'[i].op.kind = "unsubscribe" =>
             left'[requests'[i].op.who] = requests'[i].socket
      /\ \A i \in DOMAIN requests' :
           requests'[i].op.kind = "unsubscribe" /\ ~ requests'[i].over
             => Subscription(requests'[i].op.id, requests'[i].op.who) \in server'
  <2>1. CASE Sent(<<op>>)
    <3>1. \A i \in DOMAIN <<op>> : <<op>>[i].kind # "unsubscribe"
      OBVIOUS
    <3> QED
      BY <2>1, <3>1, KnownSent
  <2>2. CASE UNCHANGED requests
    BY <2>2 DEF Known, IdInv, ServerInv
  <2>3. CASE SameRequests
    BY <2>3 DEF SameRequests, Known, IdInv, ServerInv
  <2> QED
    BY <2>1, <2>2, <2>3, MadeSockets
<1>3. IdInv'
  BY <1>1, <1>2 DEF Known, IdInv
<1>4. ServerInv'
  BY <1>1, <1>2 DEF Known, ServerInv
<1> QED
  BY <1>3, <1>4 DEF Known

LEMMA KnownUnsubscribe ==
  ASSUME Inv, Inv', Held, Kept, Known, Doing, NEW s \in Subs, Unsubscribe(s)
  PROVE  Known'
<1>1. /\ left[s] = None /\ left' = [left EXCEPT ![s] = Len(sockets)]
      /\ subscribed' = [subscribed EXCEPT ![s] = FALSE]
      /\ subscriptionId' = [subscriptionId EXCEPT ![s] = None] /\ server' = server
  BY DEF Unsubscribe, Silenced
<1>2. /\ \A t \in Subs : subscriptionId'[t] # None => t # s /\ subscriptionId'[t] = subscriptionId[t]
      /\ \A t \in Subs : t # s => left'[t] = left[t] /\ subscribed'[t] = subscribed[t]
      /\ left'[s] = Len(sockets)
  BY <1>1 DEF Held, UserTypes

(* There is no earlier request to unsubscribe for s.                       *)
<1>3. \A i \in DOMAIN requests :
        requests[i].op.kind = "unsubscribe" => requests[i].op.who \in Subs \ {s}
  BY <1>1, OfOperation DEF Doing, OpsInv, Begun, Held
<1>4. \A t \in Subs : subscriptionId'[t] # None => subscribed'[t]
  BY <1>2 DEF Known, IdInv
<1>5. CASE subscriptionId[s] = None
  <2>1. UNCHANGED <<sockets, connection, waiting, requests>>
    BY <1>5 DEF Unsubscribe, requestVars
  <2>2. Awaited' = Awaited /\ (\A state : LastIs(state)' <=> LastIs(state))
    BY <2>1 DEF Awaited, LastIs
  <2>3. IdInv'
    BY <1>2, <1>3, <1>4, <2>1, <2>2 DEF Known, IdInv
  <2>4. ServerInv'
    BY <1>1, <1>2, <2>1, <2>2 DEF Known, ServerInv
  <2> QED
    BY <2>3, <2>4 DEF Known
<1>6. CASE subscriptionId[s] # None
  <2> DEFINE op == [kind |-> "unsubscribe", who |-> s, id |-> subscriptionId[s]]
  <2>1. /\ op.kind = "unsubscribe" /\ op.who = s /\ op.id = subscriptionId[s]
        /\ op \in Operations /\ MakeRequests(<<op>>)
    <3>1. subscriptionId[s] \in 1..Cardinality(Subs)
      BY <1>6 DEF Held, UserTypes, None
    <3> QED
      BY <1>6, <3>1, NewOperations DEF Unsubscribe
  <2> HIDE DEF op
  <2>2. connection # None /\ ~ LastIs("connecting")
    BY <1>6 DEF Known, IdInv
  <2>3. /\ UNCHANGED sockets /\ connection' # None
        /\ Sent(<<op>>) \/ (Unsent /\ ~ LastIs("open"))
    BY <2>1, <2>2, MakeRequestsEffect DEF Held, MakesConnection, LastLives, LastIs, Sent
  <2>4. \A state : LastIs(state)' <=> LastIs(state)
    BY <2>3 DEF LastIs
  <2>5. ASSUME NEW i \in DOMAIN requests', requests'[i].op.kind = "unsubscribe"
        PROVE  /\ left'[requests'[i].op.who] = requests'[i].socket
               /\ ~ requests'[i].over =>
                    Subscription(requests'[i].op.id, requests'[i].op.who) \in server
    <3>1. CASE /\ i \in DOMAIN requests
               /\ requests'[i].op = requests[i].op /\ requests'[i].socket = requests[i].socket
               /\ requests[i].over => requests'[i].over
      BY <1>2, <1>3, <2>5, <3>1 DEF Known, IdInv, ServerInv
    <3>2. CASE /\ requests'[i].op = op /\ requests'[i].socket = Len(sockets')
               /\ requests'[i].over = (sockets'[Len(sockets')] # "open") /\ sockets' # <<>>
      <4>1. ~ requests'[i].over => LastIs("open")
        BY <2>3, <3>2 DEF LastIs
      <4> QED
        BY <1>2, <1>6, <2>1, <2>3, <3>2, <4>1 DEF Known, ServerInv
    <3>3. CASE Unsent
      BY <2>5, <3>1, <3>3 DEF Unsent, SameRequests
    <3>4. CASE Sent(<<op>>)
      <4>1. CASE i \in DOMAIN requests
        <5>1. requests'[i] = requests[i]
          BY <3>4, <4>1 DEF Sent
        <5> QED
          BY <3>1, <4>1, <5>1
      <4>2. CASE i \notin DOMAIN requests
        <5>1. i - Len(requests) \in DOMAIN <<op>> /\ requests'[i].op = <<op>>[i - Len(requests)]
          BY <2>5, <3>4, <4>2 DEF Sent
        <5>2. requests'[i].op = op
          BY <5>1
        <5>3. /\ requests'[i].socket = Len(sockets') /\ sockets' # <<>>
              /\ requests'[i].over = (sockets'[Len(sockets')] # "open")
          BY <2>5, <3>4, <4>2 DEF Sent
        <5> QED
          BY <3>2, <5>2, <5>3
      <4> QED
        BY <4>1, <4>2
    <3> QED
      BY <2>3, <3>3, <3>4
  <2>6. \A i \in DOMAIN Awaited' : Awaited'[i].kind # "unsubscribe"
    BY <2>3 DEF Sent, Unsent, Known, IdInv
  <2>7. IdInv'
    BY <1>4, <2>2, <2>3, <2>4, <2>5, <2>6 DEF IdInv
  <2>8. ServerInv'
    BY <1>1, <1>2, <2>4, <2>5 DEF Known, ServerInv
  <2> QED
    BY <2>7, <2>8 DEF Known
<1> QED
  BY <1>5, <1>6

LEMMA KnownOpen ==
  ASSUME Inv, Held, Known, NEW k \in DOMAIN sockets, Open(k)
  PROVE  Known'
<1>1. Sent(Awaited) /\ LastIs("connecting") /\ connection' # None /\ ~ LastIs("connecting")'
  <2>1. sockets[k] = "connecting" /\ k = Len(sockets) /\ sockets # <<>> /\ connection # None
    BY OpenEffect DEF Held, Inv, OneInv, LastLives
  <2> QED
    BY <2>1, OpenEffect DEF Held, LastIs, Sent
<1>2. UNCHANGED <<subscriptionId, subscribed, left, server>>
  BY DEF Open, subscriptionVars, userVars
<1>3. \A s \in Subs : subscriptionId[s] = None
  BY <1>1 DEF Known, IdInv
<1>4. /\ \A i \in DOMAIN requests' :
           requests'[i].op.kind = "unsubscribe" =>
             left'[requests'[i].op.who] = requests'[i].socket
      /\ \A i \in DOMAIN requests' :
           requests'[i].op.kind = "unsubscribe" /\ ~ requests'[i].over
             => Subscription(requests'[i].op.id, requests'[i].op.who) \in server'
  BY <1>1, <1>2, KnownSent DEF Held, Known, IdInv
<1>5. \A i \in DOMAIN Awaited' : Awaited'[i].kind # "unsubscribe"
  BY <1>1 DEF Sent
<1>6. IdInv'
  BY <1>1, <1>2, <1>3, <1>4, <1>5 DEF IdInv
<1>7. ServerInv'
  BY <1>2, <1>3, <1>4 DEF Known, ServerInv
<1> QED
  BY <1>6, <1>7 DEF Known

LEMMA KnownClose ==
  ASSUME Inv, Held, Known, NEW k \in DOMAIN sockets, Close(k)
  PROVE  Known'
<1>1. /\ k = Len(sockets') /\ sockets'[k] \in {"failed", "closed"} /\ Unsent
      /\ connection # None /\ connection' = connection
  BY CloseEffect DEF Held
<1>2. ~ LastIs("connecting")' /\ ~ LastIs("open")'
  BY <1>1 DEF LastIs
<1>3. UNCHANGED <<subscriptionId, subscribed, left>> /\ server' = {}
  BY DEF Close, subscriptionVars, userVars
<1>4. /\ DOMAIN requests' = DOMAIN requests
      /\ \A i \in DOMAIN requests : /\ requests'[i].op = requests[i].op /\ requests'[i].over
                                    /\ requests'[i].socket = requests[i].socket
  BY ClosedSame DEF Held, SameRequests
<1>5. \A i \in DOMAIN Awaited' : Awaited'[i].kind # "unsubscribe"
  BY <1>1 DEF Unsent, Known, IdInv
<1>6. IdInv'
  BY <1>1, <1>2, <1>3, <1>4, <1>5 DEF Known, IdInv
<1>7. ServerInv'
  BY <1>2, <1>3, <1>4 DEF ServerInv
<1> QED
  BY <1>6, <1>7 DEF Known

LEMMA KnownReconnect ==
  ASSUME Inv, Held, Known, ListedInv, Reconnect
  PROVE  Known'
<1>1. /\ UNCHANGED <<requests, left, server>>
      /\ subscriptionId' = [s \in Subs |-> IF s \in Listed THEN None ELSE subscriptionId[s]]
  BY DEF Reconnect, ForgetIds, userVars
<1>2. \A s \in Subs : subscriptionId'[s] = None
  BY <1>1 DEF Known, IdInv, ListedInv
<1>3. \A i \in DOMAIN Awaited' : Awaited'[i].kind # "unsubscribe"
  BY ReconnectEffect
<1>4. IdInv'
  BY <1>1, <1>2, <1>3 DEF Known, IdInv
<1>5. ServerInv'
  BY <1>1, <1>2 DEF Known, ServerInv
<1> QED
  BY <1>4, <1>5 DEF Known

(* An answer comes over the connection that is open.                       *)
LEMMA AnsweredOpen ==
  ASSUME Inv, Held, Doing, NEW id, Answered(id)
  PROVE  /\ LastIs("open") /\ ~ LastIs("connecting") /\ connection # None
         /\ requests[id].socket = Len(sockets) /\ ~ requests[id].over
         /\ UNCHANGED <<sockets, connection, left, subscribed>>
         /\ id \in DOMAIN requests
         /\ Unsent /\ requests'[id].over
<1>1. /\ sockets[requests[id].socket] = "open" /\ requests[id].socket \in DOMAIN sockets
      /\ UNCHANGED <<sockets, connection, left, subscribed>>
      /\ id \in DOMAIN requests /\ ~ requests[id].over
  BY DEF Answered, connectionVars, Doing, OpsInv, WereOpen
<1>2. requests[id].socket = Len(sockets) /\ sockets # <<>>
  BY <1>1 DEF Inv, OneInv, TypeInv
<1>3. LastLives /\ LastIs("open") /\ ~ LastIs("connecting")
  BY <1>1, <1>2 DEF LastLives, LastIs
<1>4. connection # None
  BY <1>3 DEF Inv, OneInv
<1> QED
  BY <1>1, <1>2, <1>3, <1>4, AnsweredEffect, AnsweredSame DEF Held

LEMMA KnownAnswered ==
  ASSUME Inv, Held, Known, Doing, NEW id, Answered(id),
         \A s \in Subs : subscriptionId'[s] # None =>
           /\ subscribed[s]
           /\ Subscription(subscriptionId'[s], s) \in server',
         \A m, n \in server' : m.id = n.id => m = n,
         \A i \in DOMAIN requests :
           /\ requests[i].op.kind = "unsubscribe" /\ ~ requests[i].over /\ i # id
           => Subscription(requests[i].op.id, requests[i].op.who) \in server'
  PROVE  Known'
<1>1. /\ LastIs("open") /\ ~ LastIs("connecting") /\ connection # None
      /\ UNCHANGED <<sockets, connection, left, subscribed>>
      /\ Unsent /\ requests'[id].over
  BY AnsweredOpen
<1>2. \A state : LastIs(state)' <=> LastIs(state)
  BY <1>1 DEF LastIs
<1>3. /\ DOMAIN requests' = DOMAIN requests
      /\ \A i \in DOMAIN requests : /\ requests'[i].op = requests[i].op
                                    /\ requests'[i].socket = requests[i].socket
                                    /\ requests[i].over => requests'[i].over
  BY <1>1 DEF Unsent, SameRequests
<1>4. \A i \in DOMAIN Awaited' : Awaited'[i].kind # "unsubscribe"
  BY <1>1 DEF Unsent, Known, IdInv
<1>5. IdInv'
  BY <1>1, <1>2, <1>3, <1>4 DEF Known, IdInv
<1>6. ServerInv'
  BY <1>1, <1>3 DEF ServerInv
<1> QED
  BY <1>5, <1>6 DEF Known

LEMMA KnownAnswers ==
  ASSUME Inv, Held, Known, Doing, LeftInv, Answers
  PROVE  Known'
<1>1. ASSUME NEW id \in DOMAIN requests, NEW ok \in BOOLEAN, AnswerPlain(id, ok)
      PROVE  Known'
  <2>1. Answered(id) /\ UNCHANGED <<subscriptionId, server>>
    BY <1>1 DEF AnswerPlain
  <2> QED
    BY <2>1, AnsweredOpen, KnownSame DEF Held
<1>2. ASSUME NEW id \in DOMAIN requests, AnswerSubscribe(id)
      PROVE  Known'
  <2> DEFINE s == requests[id].op.who
  <2>1. PICK new \in 1..Cardinality(Subs) :
          /\ Answered(id) /\ \A n \in server : n.id # new
          /\ server' = server \cup {Subscription(new, s)}
          /\ \/ subscriptionId' = subscriptionId
             \/ subscribed[s] /\ subscriptionId' = [subscriptionId EXCEPT ![s] = new]
    BY <1>2 DEF AnswerSubscribe, Subscription
  <2>2. LastIs("open")
    BY <2>1, AnsweredOpen
  <2> HIDE DEF s
  <2>3. Subscription(new, s).id = new
    BY DEF Subscription
  <2>4. \A t \in Subs : subscriptionId'[t] # None =>
          subscribed[t] /\ Subscription(subscriptionId'[t], t) \in server'
    <3>1. ASSUME NEW t \in Subs, subscriptionId'[t] # None
          PROVE  \/ t = s /\ subscribed[s] /\ subscriptionId'[t] = new
                 \/ subscriptionId'[t] = subscriptionId[t]
      BY <2>1, <3>1 DEF Held, UserTypes
    <3> QED
      BY <2>1, <2>2, <3>1 DEF Known, IdInv, ServerInv
  <2>5. \A m, n \in server' : m.id = n.id => m = n
    BY <2>1, <2>3 DEF Known, ServerInv
  <2>6. \A i \in DOMAIN requests :
          requests[i].op.kind = "unsubscribe" /\ ~ requests[i].over /\ i # id
            => Subscription(requests[i].op.id, requests[i].op.who) \in server'
    BY <2>1 DEF Known, ServerInv
  <2> QED
    BY <2>1, <2>4, <2>5, <2>6, KnownAnswered
<1>3. ASSUME NEW id \in DOMAIN requests, AnswerUnsubscribe(id)
      PROVE  Known'
  <2> DEFINE op == requests[id].op
  <2>1. /\ Answered(id) /\ op.kind = "unsubscribe" /\ UNCHANGED subscriptionId
        /\ server' = {n \in server : n.id # op.id}
    BY <1>3 DEF AnswerUnsubscribe
  <2>2. /\ LastIs("open") /\ requests[id].socket = Len(sockets) /\ ~ requests[id].over
    BY <2>1, AnsweredOpen
  <2>3. op \in Operations /\ op.who \in Subs
    BY <2>1, OfOperation DEF Held
  <2>4. Subscription(op.id, op.who) \in server
    BY <2>1, <2>2 DEF Known, ServerInv
  <2>5. subscriptionId[op.who] = None
    <3>1. left[op.who] = Len(sockets) /\ left[op.who] # None
      BY <2>1, <2>2, <2>3 DEF Known, IdInv, Doing, OpsInv, Begun
    <3>2. ~ subscribed[op.who]
      BY <2>3, <3>1 DEF LeftInv, Inv, TypeInv
    <3> QED
      BY <2>3, <3>2 DEF Known, IdInv
  <2>6. \A t \in Subs : \A n : Subscription(n, t) \in server /\ n = op.id => t = op.who
    BY <2>4 DEF Known, ServerInv, Subscription
  <2>7. \A t \in Subs : \A n : Subscription(n, t).id = n
    BY DEF Subscription
  <2>8. \A t \in Subs : subscriptionId'[t] # None =>
          subscribed[t] /\ Subscription(subscriptionId'[t], t) \in server'
    BY <2>1, <2>2, <2>5, <2>6, <2>7 DEF Known, IdInv, ServerInv
  <2>9. \A m, n \in server' : m.id = n.id => m = n
    BY <2>1 DEF Known, ServerInv
  <2>10. ASSUME NEW i \in DOMAIN requests,
                requests[i].op.kind = "unsubscribe", ~ requests[i].over, i # id
         PROVE  Subscription(requests[i].op.id, requests[i].op.who) \in server'
    <3>1. Subscription(requests[i].op.id, requests[i].op.who) \in server
      BY <2>10 DEF Known, ServerInv
    <3>2. requests[i].op.who \in Subs
      BY <2>10, OfOperation DEF Held
    <3>3. requests[i].op.id # op.id
      <4> SUFFICES ASSUME requests[i].op.id = op.id PROVE FALSE
        OBVIOUS
      <4>1. requests[i].op.who = op.who
        BY <2>6, <3>1, <3>2
      <4>2. Akin(requests[i].op, requests[id].op) /\ ~ Asks(requests[i].op)
        BY <2>1, <2>10, <4>1 DEF Akin, Asks
      <4> QED
        BY <2>10, <4>2 DEF Doing, OnceInv
    <3> QED
      BY <2>1, <2>7, <3>1, <3>2, <3>3
  <2> QED
    BY <2>1, <2>8, <2>9, <2>10, KnownAnswered
<1> QED
  BY <1>1, <1>2, <1>3 DEF Answers

LEMMA KnownStep ==
  ASSUME Inv, Inv', Held, Kept, Known, Doing, ListedInv, LeftInv, Next
  PROVE  Known'
<1>1. ASSUME NEW c \in Calls, Call(c) PROVE Known'
  <2>1. Operation("call", c).kind # "unsubscribe" /\ Operation("call", c) \in Operations
    BY NewOperations DEF Operation
  <2> QED
    BY <1>1, <2>1, KnownMake DEF Call, subscriptionVars, Held
<1>2. ASSUME NEW s \in Subs, Subscribe(s) PROVE Known'
  <2>1. Operation("subscribe", s).kind # "unsubscribe" /\ Operation("subscribe", s) \in Operations
    BY NewOperations DEF Operation
  <2>2. \A t \in Subs : subscribed[t] => subscribed'[t]
    BY <1>2 DEF Subscribe, Held, UserTypes
  <2> QED
    BY <1>2, <2>1, <2>2, KnownMake DEF Subscribe, Held
<1>3. CASE (\E x \in Signals : Abort(x)) \/ (\E id \in DOMAIN requests : Timeout(id))
  <2>1. Unsent
    BY <1>3, AbortKept, TimeoutKept
  <2> QED
    BY <1>3, <2>1, KnownSame
       DEF Abort, Timeout, RejectAll, connectionVars, subscriptionVars, Held
<1> QED
  BY <1>1, <1>2, <1>3, KnownUnsubscribe, KnownAnswers, KnownReconnect, KnownOpen, KnownClose
     DEF Next, Users, Connects, Dropped

LEMMA DoingStep ==
  ASSUME Inv, Inv', Held, Kept, Doing, ListedInv, Known, Next
  PROVE  Doing'
<1>1. ASSUME NEW c \in Calls, Call(c) PROVE Doing'
  <2> DEFINE op == Operation("call", c)
  <2>1. op \in Operations /\ op.kind = "call" /\ op.who = c /\ ~ Asks(op)
    BY NewOperations DEF Operation, Asks
  <2>2. user[c] = "new" /\ user'[c] # "new" /\ MakeRequests(<<op>>)
    BY <1>1 DEF Call, Held, UserTypes
  <2> HIDE DEF op
  <2>3. op \notin Begun /\ op \in Begun'
    BY <2>1, <2>2 DEF Begun
  <2> QED
    BY <2>1, <2>2, <2>3, DoingMake
<1>2. ASSUME NEW s \in Subs, Subscribe(s) PROVE Doing'
  <2> DEFINE op == Operation("subscribe", s)
  <2>1. op \in Operations /\ op.kind = "subscribe" /\ op.who = s /\ Asks(op)
    BY NewOperations DEF Operation, Asks
  <2>2. s \notin Listed /\ s \in Listed' /\ MakeRequests(<<op>>)
    BY <1>2, ListedAppended DEF Subscribe, Held, ListedInv
  <2> HIDE DEF op
  <2>3. op \notin Begun /\ op \in Begun'
    BY <2>1, <2>2 DEF Begun
  <2> QED
    BY <2>1, <2>2, <2>3, DoingMake
<1>3. ASSUME NEW s \in Subs, Unsubscribe(s) PROVE Doing'
  <2>1. CASE subscriptionId[s] = None
    <3>1. UNCHANGED <<sockets, waiting, requests>>
      BY <1>3, <2>1 DEF Unsubscribe, requestVars
    <3> QED
      BY <3>1, UnsentSame, DoingUnsent DEF Held
  <2>2. CASE subscriptionId[s] # None
    <3> DEFINE op == [kind |-> "unsubscribe", who |-> s, id |-> subscriptionId[s]]
    <3>1. /\ op.kind = "unsubscribe" /\ op.who = s /\ op \in Operations
          /\ MakeRequests(<<op>>) /\ ~ Asks(op)
      <4>1. subscriptionId[s] \in 1..Cardinality(Subs)
        BY <2>2 DEF Held, UserTypes, None
      <4> QED
        BY <1>3, <2>2, <4>1, NewOperations DEF Unsubscribe, Asks
    <3>2. left[s] = None /\ left'[s] = Len(sockets)
      BY <1>3 DEF Unsubscribe, Held, UserTypes
    <3>3. Len(sockets) # None
      BY <2>2 DEF Known, IdInv, Held, RequestTypes
    <3> HIDE DEF op
    <3>4. op \notin Begun /\ op \in Begun'
      BY <3>1, <3>2, <3>3 DEF Begun
    <3> QED
      BY <3>1, <3>4, DoingMake
  <2> QED
    BY <2>1, <2>2
<1>4. CASE (\E x \in Signals : Abort(x)) \/ (\E id \in DOMAIN requests : Timeout(id)) \/ Answers
  BY <1>4, AbortKept, TimeoutKept, AnswersKept, DoingUnsent
<1>5. ASSUME NEW k \in DOMAIN sockets, Close(k) PROVE Doing'
  BY <1>5, CloseEffect, DoingUnsent DEF Held
<1> QED
  BY <1>1, <1>2, <1>3, <1>4, <1>5, DoingOpen, DoingReconnect DEF Next, Users, Connects, Dropped

-----------------------------------------------------------------------------
AllInv == Inv /\ Held /\ Doing /\ ListedInv /\ LeftInv /\ PromiseInv /\ Known

LEMMA InitAll == Init => AllInv
<1> SUFFICES ASSUME Init PROVE AllInv
  OBVIOUS
<1>1. /\ sockets = <<>> /\ requests = <<>> /\ subscriptions = <<>> /\ Awaited = <<>>
      /\ server = {} /\ subscriptionId = [s \in Subs |-> None]
      /\ subscribed = [s \in Subs |-> FALSE] /\ left = [s \in Subs |-> None]
      /\ user = [x \in Calls \cup Subs |-> "new"]
  BY DEF Init, Awaited
<1>2. /\ Listed = {} /\ \A state : ~ LastIs(state)
      /\ Len(sockets) = 0 /\ None = 0
  BY <1>1 DEF Listed, ToSet, LastIs, None
<1>3. Doing
  BY <1>1 DEF Doing, OpsInv, OnceInv
<1>4. ListedInv /\ LeftInv /\ PromiseInv
  BY <1>1, <1>2 DEF ListedInv, LeftInv, PromiseInv
<1>5. Known
  BY <1>1, <1>2 DEF Known, IdInv, ServerInv
<1> QED
  BY <1>3, <1>4, <1>5, InitInv, InitHeld DEF AllInv

LEMMA NextAll == AllInv /\ [Next]_vars => AllInv'
<1>1. ASSUME AllInv, Next PROVE AllInv'
  <2>1. Inv' /\ Held'
    BY <1>1, NextInv, NextKept DEF AllInv
  <2>2. Kept
    BY <1>1, NextKeeps DEF AllInv
  <2> QED
    BY <1>1, <2>1, <2>2, DoingStep, ListedStep, LeftStep, PromiseStep, KnownStep DEF AllInv
<1>2. ASSUME AllInv, UNCHANGED vars PROVE AllInv'
  <2>1. UNCHANGED <<connectionVars, requestVars, subscriptionVars, userVars, server>>
    BY <1>2 DEF vars
  <2>2. Inv' /\ Held'
    BY <1>2, NextInv, NextKept DEF AllInv
  <2> QED
    BY <1>2, <2>1, <2>2
       DEF AllInv, connectionVars, requestVars, subscriptionVars, userVars, Doing, OpsInv, OnceInv,
           ListedInv, LeftInv, PromiseInv, Known, IdInv, ServerInv, Awaited, WereOpen, Connected,
           Begun, Listed, LastIs, AskedFor
<1> QED
  BY <1>1, <1>2

LEMMA SpecAll == Spec => []AllInv
BY InitAll, NextAll, PTL DEF Spec

(* rpc-websocket-client.ts:171-176, 186-189, 206-218: whatever the order   *)
(* of answers, closes and reconnects, an id that the client goes by on an  *)
(* open connection is the server's id for that very subscription.          *)
THEOREM IdsStayCurrent == Spec => []IdsCurrent
<1>1. AllInv => IdsCurrent
  <2> SUFFICES ASSUME AllInv, NEW k \in DOMAIN sockets, sockets[k] = "open"
               PROVE  \A s \in Subs : subscriptionId[s] # None =>
                        [id |-> subscriptionId[s], who |-> s] \in server
    BY DEF IdsCurrent
  <2>1. LastIs("open")
    BY DEF AllInv, Inv, OneInv, TypeInv, LastIs
  <2> QED
    BY <2>1 DEF AllInv, Known, ServerInv, Subscription
<1> QED
  BY <1>1, SpecAll, PTL

(* rpc-websocket-client.ts:222-234: whoever unsubscribes is silenced until *)
(* a reconnect subscribes it again, also while its request is under way.   *)
THEOREM UnsubscribedAreQuiet == Spec => []QuietOnConnection
<1>1. AllInv => QuietOnConnection
  BY DEF AllInv, LeftInv, QuietOnConnection, Hears
<1> QED
  BY <1>1, SpecAll, PTL

(* rpc-websocket-client.ts:182-190, 206-218: on a connection that is open, *)
(* every listener is asked for once, although the requests made before it  *)
(* opened wait for it and a reconnect subscribes everybody again.          *)
THEOREM AskedOnce == Spec => []ListenersAskedOnce
<1>1. AllInv => ListenersAskedOnce
  <2> SUFFICES ASSUME AllInv, NEW k \in DOMAIN sockets, sockets[k] = "open", NEW s \in Subs
               PROVE  /\ Cardinality(AskedFor(s, k)) <= 1
                      /\ subscribed[s] => AskedFor(s, k) # {}
    BY DEF ListenersAskedOnce
  <2>1. LastIs("open") /\ k = Len(sockets)
    BY DEF AllInv, Inv, OneInv, TypeInv, LastIs
  <2>2. subscribed[s] => AskedFor(s, k) # {}
    BY <2>1 DEF AllInv, ListedInv, PromiseInv
  <2>3. \A i, j \in AskedFor(s, k) : i = j
    BY DEF AskedFor, AllInv, Doing, OnceInv, Akin, Asks
  <2>4. AskedFor(s, k) = {} \/ \E i : AskedFor(s, k) = {i}
    BY <2>3
  <2>5. Cardinality(AskedFor(s, k)) <= 1
    <3>1. CASE AskedFor(s, k) = {}
      BY <3>1, FS_EmptySet
    <3>2. ASSUME NEW i, AskedFor(s, k) = {i} PROVE Cardinality(AskedFor(s, k)) <= 1
      <4>1. Cardinality({i}) = 1
        BY FS_Singleton
      <4> QED
        BY <3>2, <4>1
    <3> QED
      BY <2>4, <3>1, <3>2
  <2> QED
    BY <2>2, <2>5
<1> QED
  BY <1>1, SpecAll, PTL
-----------------------------------------------------------------------------
(* How many requests there can be: the ids of TypeOK are bounded only by   *)
(* what OnceInv says of the requests and by how many connections may be    *)
(* lost.                                                                   *)
DropsInv == Cardinality(Drops) <= MaxDrops

LEMMA DropsFinite ==
  ASSUME Inv
  PROVE  IsFiniteSet(Drops) /\ Cardinality(Drops) \in Nat /\ IsFiniteSet(DOMAIN sockets)
<1>1. DOMAIN sockets = 1..Len(sockets) /\ Len(sockets) \in Int
  BY DEF Inv, TypeInv
<1>2. IsFiniteSet(DOMAIN sockets)
  BY <1>1, FS_Interval
<1> QED
  BY <1>2, FS_Subset, FS_CardinalityType DEF Drops

LEMMA OneMore ==
  ASSUME NEW S, IsFiniteSet(S), NEW x
  PROVE  /\ IsFiniteSet(S \cup {x}) /\ Cardinality(S \cup {x}) <= Cardinality(S) + 1
         /\ Cardinality(S) \in Nat /\ Cardinality(S \cup {x}) \in Nat
<1>1. /\ IsFiniteSet(S \cup {x})
      /\ Cardinality(S \cup {x}) = IF x \in S THEN Cardinality(S) ELSE Cardinality(S) + 1
  BY FS_AddElement
<1>2. Cardinality(S) \in Nat /\ Cardinality(S \cup {x}) \in Nat
  BY <1>1, FS_CardinalityType
<1> QED
  BY <1>1, <1>2

LEMMA DropsAppend ==
  ASSUME Inv, DropsInv, sockets' = Append(sockets, "connecting")
  PROVE  DropsInv'
<1>1. sockets \in Seq(State) /\ "connecting" \in State
  BY DEF Inv, TypeInv, State
<1>2. /\ DOMAIN sockets = 1..Len(sockets) /\ DOMAIN sockets' = 1..(Len(sockets) + 1)
      /\ Len(sockets) \in Nat /\ sockets'[Len(sockets) + 1] = "connecting"
      /\ \A k \in 1..Len(sockets) : sockets'[k] = sockets[k]
  BY <1>1, Appended
<1>3. \A k \in 1..(Len(sockets) + 1) : k \in 1..Len(sockets) \/ k = Len(sockets) + 1
  BY <1>2
<1>4. \A k \in 1..Len(sockets) : k \in 1..(Len(sockets) + 1)
  BY <1>2
<1>5. Drops' = Drops
  BY <1>2, <1>3, <1>4 DEF Drops
<1> QED
  BY <1>5 DEF DropsInv

LEMMA DropsSame ==
  ASSUME Inv, DropsInv,
         \/ UNCHANGED sockets
         \/ sockets' = Append(sockets, "connecting")
         \/ \E k \in DOMAIN sockets :
              sockets[k] = "connecting" /\ sockets' = [sockets EXCEPT ![k] = "open"]
  PROVE  DropsInv'
<1>1. CASE UNCHANGED sockets
  BY <1>1 DEF DropsInv, Drops
<1>2. ASSUME NEW k \in DOMAIN sockets,
             sockets[k] = "connecting", sockets' = [sockets EXCEPT ![k] = "open"]
      PROVE  DropsInv'
  <2>1. Drops' = Drops
    BY <1>2 DEF Drops
  <2> QED
    BY <2>1 DEF DropsInv
<1> QED
  BY <1>1, <1>2, DropsAppend

LEMMA DropsClose ==
  ASSUME Inv, DropsInv, NEW k \in DOMAIN sockets, Close(k)
  PROVE  DropsInv'
<1>1. /\ sockets' = [sockets EXCEPT ![k] = IF sockets[k] = "connecting" THEN "failed" ELSE "closed"]
      /\ sockets[k] \in Live /\ sockets[k] \in State
      /\ sockets[k] = "open" => Cardinality(Drops) < MaxDrops
  BY DEF Close, Inv, TypeInv
<1>2. CASE sockets[k] = "open"
  <2>1. Drops' = Drops \cup {k}
    BY <1>1, <1>2 DEF Drops
  <2>2. /\ Cardinality(Drops \cup {k}) <= Cardinality(Drops) + 1
        /\ Cardinality(Drops \cup {k}) \in Nat /\ Cardinality(Drops) \in Nat /\ MaxDrops \in Nat
    BY DropsFinite, OneMore, Options
  <2>3. Cardinality(Drops \cup {k}) <= MaxDrops
    BY <1>1, <1>2, <2>2
  <2> QED
    BY <2>1, <2>3 DEF DropsInv
<1>3. CASE sockets[k] = "connecting"
  <2>1. Drops' = Drops
    BY <1>1, <1>3 DEF Drops
  <2> QED
    BY <2>1 DEF DropsInv
<1> QED
  BY <1>1, <1>2, <1>3 DEF Live, State

LEMMA DropsStep == Inv /\ Held /\ DropsInv /\ [Next]_vars => DropsInv'
<1> SUFFICES ASSUME Inv, Held, DropsInv, [Next]_vars PROVE DropsInv'
  OBVIOUS
<1>1. ASSUME NEW op \in Operations, MakeRequests(<<op>>) PROVE DropsInv'
  BY <1>1, MakeRequestsEffect, DropsSame DEF Held, MakesConnection
<1>2. ASSUME NEW c \in Calls, Call(c) PROVE DropsInv'
  BY <1>1, <1>2, NewOperations DEF Call
<1>3. ASSUME NEW s \in Subs, Subscribe(s) PROVE DropsInv'
  BY <1>1, <1>3, NewOperations DEF Subscribe
<1>4. ASSUME NEW s \in Subs, Unsubscribe(s) PROVE DropsInv'
  <2>1. CASE subscriptionId[s] = None
    BY <1>4, <2>1, DropsSame DEF Unsubscribe
  <2>2. CASE subscriptionId[s] # None
    <3>1. subscriptionId[s] \in 1..Cardinality(Subs)
      BY <2>2 DEF Held, UserTypes, None
    <3> QED
      BY <1>1, <1>4, <2>2, <3>1, NewOperations DEF Unsubscribe
  <2> QED
    BY <2>1, <2>2
<1>5. CASE (\E x \in Signals : Abort(x)) \/ (\E id \in DOMAIN requests : Timeout(id))
  BY <1>5, DropsSame DEF Abort, Timeout, RejectAll, connectionVars
<1>6. CASE Answers
  <2>1. UNCHANGED sockets
    BY <1>6 DEF Answers, AnswerPlain, AnswerSubscribe, AnswerUnsubscribe, Answered, connectionVars
  <2> QED
    BY <2>1, DropsSame
<1>7. CASE Reconnect
  BY <1>7, ReconnectEffect, DropsSame
<1>8. ASSUME NEW k \in DOMAIN sockets, Open(k) \/ Close(k) PROVE DropsInv'
  BY <1>8, OpenEffect, DropsSame, DropsClose DEF Held
<1>9. CASE UNCHANGED vars
  BY <1>9, DropsSame DEF vars, connectionVars
<1> QED
  BY <1>2, <1>3, <1>4, <1>5, <1>6, <1>7, <1>8, <1>9 DEF Next, Users, Connects, Dropped

(* Requests for which OnceInv allows only one are told apart by this.      *)
Key(r) ==
  IF r.op.kind = "call" THEN <<"call", r.op.who>>
  ELSE <<"sub", <<r.op.who, IF Asks(r.op) THEN r.socket ELSE None>>>>

Keys == ({"call"} \X Calls) \cup ({"sub"} \X (Subs \X (WereOpen \cup {None})))

LEMMA ProductGrows ==
  ASSUME NEW a \in Nat, NEW b \in Nat, NEW c \in Nat, b <= c
  PROVE  a * b <= a * c
<1>1. c - b \in Nat
  OBVIOUS
<1>2. a * (c - b) \in Nat /\ a * c = a * b + a * (c - b)
  BY <1>1
<1>3. a * b \in Nat /\ a * c \in Nat
  OBVIOUS
<1> QED
  BY <1>2, <1>3

LEMMA ManyKeys ==
  ASSUME Inv, DropsInv
  PROVE  /\ IsFiniteSet(Keys)
         /\ Cardinality(Keys) <= Cardinality(Calls) + (MaxDrops + 2) * Cardinality(Subs)
<1> DEFINE C == Cardinality(Calls)
           S == Cardinality(Subs)
           O == WereOpen \cup {None}
           n == Len(sockets)
           P == {"call"} \X Calls
           Q == {"sub"} \X (Subs \X O)
<1>1. C \in Nat /\ S \in Nat /\ MaxDrops \in Nat /\ n \in Nat
  BY Options, FS_CardinalityType DEF Inv, TypeInv
<1>2. O \subseteq (Drops \cup {n}) \cup {None}
  <2>1. \A k \in WereOpen : sockets[k] \in State /\ k \in DOMAIN sockets
    BY DEF Inv, TypeInv, WereOpen
  <2>2. \A k \in WereOpen : k \in Drops \/ k = n
    BY <2>1 DEF Inv, OneInv, WereOpen, Connected, Drops, State
  <2> QED
    BY <2>2
<1>3. IsFiniteSet(O) /\ Cardinality(O) \in Nat /\ Cardinality(O) <= MaxDrops + 2
  <2>1. IsFiniteSet(Drops \cup {n}) /\ Cardinality(Drops \cup {n}) <= Cardinality(Drops) + 1
    BY DropsFinite, OneMore
  <2>2. /\ IsFiniteSet((Drops \cup {n}) \cup {None})
        /\ Cardinality((Drops \cup {n}) \cup {None}) <= Cardinality(Drops \cup {n}) + 1
    BY <2>1, OneMore
  <2>3. IsFiniteSet(O) /\ Cardinality(O) <= Cardinality((Drops \cup {n}) \cup {None})
    BY <1>2, <2>2, FS_Subset
  <2>4. /\ Cardinality(Drops) \in Nat /\ Cardinality(Drops \cup {n}) \in Nat
        /\ Cardinality((Drops \cup {n}) \cup {None}) \in Nat /\ Cardinality(O) \in Nat
    BY <2>1, <2>2, <2>3, DropsFinite, FS_CardinalityType
  <2> HIDE DEF O
  <2> QED
    BY <1>1, <2>1, <2>2, <2>3, <2>4 DEF DropsInv
<1>4. IsFiniteSet(P) /\ Cardinality(P) = C
  <2>1. IsFiniteSet({"call"}) /\ Cardinality({"call"}) = 1 /\ IsFiniteSet(Calls)
    BY Options, FS_Singleton
  <2>2. IsFiniteSet(P) /\ Cardinality(P) = 1 * C
    BY <2>1, FS_Product
  <2> QED
    BY <1>1, <2>2
<1>5. IsFiniteSet(Q) /\ Cardinality(Q) = S * Cardinality(O)
  <2> HIDE DEF O
  <2>1. IsFiniteSet(Subs \X O) /\ Cardinality(Subs \X O) = S * Cardinality(O)
    BY <1>3, Options, FS_Product
  <2>2. IsFiniteSet({"sub"}) /\ Cardinality({"sub"}) = 1
    BY FS_Singleton
  <2>3. IsFiniteSet(Q) /\ Cardinality(Q) = 1 * Cardinality(Subs \X O)
    BY <2>1, <2>2, FS_Product
  <2>4. Cardinality(Subs \X O) \in Nat
    BY <2>1, FS_CardinalityType
  <2> QED
    BY <2>1, <2>3, <2>4
<1>6. S * Cardinality(O) <= S * (MaxDrops + 2)
  <2>1. Cardinality(O) \in Nat /\ MaxDrops + 2 \in Nat /\ Cardinality(O) <= MaxDrops + 2
    BY <1>1, <1>3
  <2> HIDE DEF O, S
  <2> QED
    BY <1>1, <2>1, ProductGrows
<1>7. IsFiniteSet(P \cup Q) /\ Cardinality(P \cup Q) <= C + S * Cardinality(O)
  <2> HIDE DEF P, Q
  <2>1. /\ IsFiniteSet(P \cup Q)
        /\ Cardinality(P \cup Q) = Cardinality(P) + Cardinality(Q) - Cardinality(P \cap Q)
    BY <1>4, <1>5, FS_Union
  <2>2. Cardinality(P \cap Q) \in Nat
    BY <1>4, FS_Intersection, FS_CardinalityType
  <2>3. Cardinality(P) \in Nat /\ Cardinality(Q) \in Nat
    BY <1>4, <1>5, FS_CardinalityType
  <2> QED
    BY <1>4, <1>5, <2>1, <2>2, <2>3
<1>8. Keys = P \cup Q
  BY DEF Keys
<1>9. S * (MaxDrops + 2) = (MaxDrops + 2) * S
  BY <1>1
<1>10. S * Cardinality(O) \in Nat /\ S * (MaxDrops + 2) \in Nat /\ Cardinality(Keys) \in Nat
  BY <1>1, <1>3, <1>5, <1>7, <1>8, FS_CardinalityType
<1> HIDE DEF C, S, O, P, Q
<1> QED
  BY <1>1, <1>6, <1>7, <1>8, <1>9, <1>10 DEF C, S

LEMMA RequestIds ==
  ASSUME Inv, Held, Doing, DropsInv
  PROVE  DOMAIN requests \subseteq Ids
<1> DEFINE n == Len(requests)
           f == [i \in 1..n |-> Key(requests[i])]
           b == Cardinality(Calls) + (MaxDrops + 2) * Cardinality(Subs)
           d == Cardinality(Calls) + (MaxDrops + 3) * Cardinality(Subs)
<1>1. n \in Nat /\ DOMAIN requests = 1..n
  BY DEF Held, RequestTypes
<1>2. \A i \in 1..n : Key(requests[i]) \in Keys
  BY <1>1, OfOperation DEF Held, Doing, OpsInv, Key, Keys
<1>3. \A i, j \in 1..n : Key(requests[i]) = Key(requests[j]) => i = j
  <2> SUFFICES ASSUME NEW i \in 1..n, NEW j \in 1..n, Key(requests[i]) = Key(requests[j])
               PROVE  i = j
    OBVIOUS
  <2>1. /\ requests[i].op.kind \in {"call", "subscribe", "renew", "unsubscribe"}
        /\ requests[j].op.kind \in {"call", "subscribe", "renew", "unsubscribe"}
    BY <1>1, OfOperation DEF Held, Operations
  <2>2. requests[i].socket # None /\ requests[j].socket # None
    BY <1>1 DEF Doing, OpsInv, WereOpen, None, Inv, TypeInv
  <2>3. /\ Akin(requests[i].op, requests[j].op)
        /\ Asks(requests[i].op) => requests[i].socket = requests[j].socket
    BY <2>1, <2>2 DEF Key, Akin, Asks
  <2> QED
    BY <1>1, <2>3 DEF Doing, OnceInv
<1>4. f \in Injection(1..n, Keys)
  BY <1>2, <1>3 DEF Injection, IsInjective
<1>5. Cardinality(1..n) = n
  <2> HIDE DEF n
  <2>1. Cardinality(1..n) = IF 1 > n THEN 0 ELSE n - 1 + 1
    BY <1>1, FS_Interval
  <2> QED
    BY <1>1, <2>1
<1>6. n <= Cardinality(Keys) /\ Cardinality(Keys) \in Nat
  BY <1>4, <1>5, ManyKeys, FS_Injection, FS_CardinalityType
<1>7. b \in Nat /\ d \in Nat /\ b <= d
  <2>1. Cardinality(Calls) \in Nat /\ Cardinality(Subs) \in Nat /\ MaxDrops \in Nat
    BY Options, FS_CardinalityType
  <2>2. Cardinality(Subs) * (MaxDrops + 2) <= Cardinality(Subs) * (MaxDrops + 3)
    BY <2>1, ProductGrows
  <2> QED
    BY <2>1, <2>2
<1>8. n <= d
  BY <1>1, <1>6, <1>7, ManyKeys
<1>9. Ids = 1..d
  BY DEF Ids
<1> HIDE DEF n, d
<1> QED
  BY <1>1, <1>7, <1>8, <1>9

(* rpc-websocket-client.ts:57-59, 71-83: the types of the client's state   *)
(* for any callers, listeners, signals and lost connections, the bound on  *)
(* request ids among them.                                                 *)
THEOREM TypeCorrect == Spec => []TypeOK
<1>1. Init => DropsInv
  <2> SUFFICES ASSUME Init PROVE DropsInv
    OBVIOUS
  <2>1. Drops = {}
    BY DEF Init, Drops
  <2> QED
    BY <2>1, FS_EmptySet, Options DEF DropsInv
<1>2. AllInv /\ DropsInv /\ [Next]_vars => DropsInv'
  BY DropsStep DEF AllInv
<1>3. AllInv /\ DropsInv => TypeOK
  <2> SUFFICES ASSUME AllInv, DropsInv PROVE TypeOK
    OBVIOUS
  <2>1. /\ sockets \in Seq({"connecting", "open", "closing", "closed", "failed"})
        /\ Len(sockets) \in Nat
    BY DEF AllInv, Inv, TypeInv, State
  <2>2. connection \in 0..Len(sockets)
    BY <2>1 DEF AllInv, Held, RequestTypes, None
  <2>3. disconnects \in Nat /\ reconnects \in Nat
    BY DEF AllInv, Inv, TypeInv
  <2>4. DOMAIN waiting = DOMAIN sockets
    BY AwaitedTypes DEF AllInv, Held
  <2>5. DOMAIN requests \subseteq Ids
    BY RequestIds DEF AllInv
  <2> QED
    BY <2>1, <2>2, <2>3, <2>4, <2>5 DEF TypeOK, AllInv, Held, RequestTypes, UserTypes
<1> QED
  BY <1>1, <1>2, <1>3, SpecAll, PTL DEF Spec
=============================================================================
