--------------------------- MODULE WebsocketClient ---------------------------
(***************************************************************************)
(* The websocket client of rpc-websocket-client.ts: connections and        *)
(* reconnects, requests with their timeouts and abort signals, and         *)
(* subscriptions.  A step is an event (of the socket, a timer, a signal or *)
(* a caller) with the microtasks it sets off.  Notifications change        *)
(* nothing in the client: Hears says who would get one.                    *)
(***************************************************************************)
EXTENDS Integers, Sequences, FiniteSets, SequencesExt

CONSTANTS Calls,          \* the calls of makeRequest by users
          Subs,           \* the calls of subscribe
          Signals,        \* those of both that come with an abort signal
          MaxReconnects,  \* options.maxReconnects
          MaxDrops        \* bound: how many open connections may be lost

ASSUMPTION Options == /\ IsFiniteSet(Calls) /\ IsFiniteSet(Subs)
                      /\ Signals \subseteq Calls \cup Subs
                      /\ MaxReconnects \in Nat /\ MaxDrops \in Nat

VARIABLES sockets,        \* the states of the sockets made so far
          connection,     \* #connectionPromise, by its socket; None for null
          disconnects,
          reconnects,     \* external: reconnect timers that are running
          waiting,        \* makeRequest calls that await the promise of each socket
          requests,       \* what makeRequest has sent, by request id
          pendingRequests,
          armed,          \* external: ids whose timeout is running
          subscriptions,  \* #subscriptions, in the order of insertion
          subscriptionId, subscribed,
          user,           \* what the callers know
          left,           \* the last socket when unsubscribe was called
          aborted,        \* external: the signals that have been aborted
          server          \* external: subscriptions the server serves

connectionVars == <<sockets, connection, disconnects, reconnects>>
requestVars == <<waiting, requests, pendingRequests, armed>>
subscriptionVars == <<subscriptions, subscriptionId, subscribed>>
userVars == <<user, left, aborted>>
vars == <<connectionVars, requestVars, subscriptionVars, userVars, server>>

None == 0

Live == {"connecting", "open", "closing"}

RequestId == Len(requests)

Operation(kind, who) == [kind |-> kind, who |-> who, id |-> None]

Init ==
  /\ sockets = <<>> /\ connection = None /\ disconnects = 0 /\ reconnects = 0
  /\ waiting = <<>> /\ requests = <<>> /\ pendingRequests = {} /\ armed = {}
  /\ subscriptions = <<>>
  /\ subscriptionId = [s \in Subs |-> None] /\ subscribed = [s \in Subs |-> FALSE]
  /\ user = [x \in Calls \cup Subs |-> "new"]
  /\ left = [s \in Subs |-> None]
  /\ aborted = {} /\ server = {}

-----------------------------------------------------------------------------
(* #webSocket?.close(): the close event is still to come.                  *)
CloseSocket ==
  [k \in DOMAIN sockets |-> IF k = Len(sockets) /\ sockets[k] \in Live THEN "closing"
                            ELSE sockets[k]]

NewSocket == Append(CloseSocket, "connecting")

(* The promise of a connection is resolved by the open event only.         *)
Connected(k) == sockets[k] \in {"open", "closing", "closed"}

(* Mutant: the next id is taken before the request is entered.             *)
EnteredLate(ops) ==
  /\ pendingRequests' = pendingRequests \cup {RequestId + i + 1 : i \in DOMAIN ops}
  /\ armed' = armed \cup {RequestId + i : i \in DOMAIN ops}

Entered(ops) ==
  /\ pendingRequests' = pendingRequests \cup {RequestId + i : i \in DOMAIN ops}
  /\ armed' = armed \cup {RequestId + i : i \in DOMAIN ops}

(* The rest of makeRequest once it has the socket.  A socket that has been *)
(* closed meanwhile drops what it is to send.                              *)
Send(ops, k) ==
  /\ requests' = requests \o [i \in DOMAIN ops |->
                   [op |-> ops[i], socket |-> k, settled |-> FALSE, over |-> sockets'[k] # "open"]]
  /\ Entered(ops)

(* makeRequest up to the connection, for operations of one stretch.        *)
MakeRequests(ops) ==
  \/ /\ connection # None /\ Connected(connection)
     /\ UNCHANGED <<sockets, connection, waiting>>
     /\ Send(ops, connection)
  \/ /\ connection # None /\ ~ Connected(connection)
     /\ waiting' = [waiting EXCEPT ![connection] = @ \o ops]
     /\ UNCHANGED <<sockets, connection, requests, pendingRequests, armed>>
  \/ /\ connection = None
     /\ sockets' = NewSocket
     /\ connection' = Len(sockets) + 1
     /\ waiting' = Append(waiting, ops)
     /\ UNCHANGED <<requests, pendingRequests, armed>>

Call(c) ==
  /\ user[c] = "new"
  /\ user' = [user EXCEPT ![c] = "asked"]
  /\ MakeRequests(<<Operation("call", c)>>)
  /\ UNCHANGED <<disconnects, reconnects, subscriptionVars, left, aborted, server>>

-----------------------------------------------------------------------------
(* The open event: whoever awaits the connection sends its request.        *)
Open(k) ==
  /\ sockets[k] = "connecting"
  /\ sockets' = [sockets EXCEPT ![k] = "open"]
  /\ disconnects' = 0
  /\ Send(waiting[k], k)
  /\ waiting' = [waiting EXCEPT ![k] = <<>>]
  /\ UNCHANGED <<connection, reconnects, subscriptionVars, userVars, server>>

(* Mutant: a lost connection is forgotten at once.                         *)
ConnectionForgotten == connection' = None

ConnectionKept == UNCHANGED connection

Drops == {k \in DOMAIN sockets : sockets[k] = "closed"}

(* Mutant: only connections that were open count.                          *)
CountsLost(k) == disconnects' = disconnects + IF sockets[k] = "open" THEN 1 ELSE 0

Counts(k) == disconnects' = disconnects + 1

(* The close event, of a connection that failed or one that was open.      *)
Close(k) ==
  /\ sockets[k] \in Live
  /\ sockets[k] = "open" => Cardinality(Drops) < MaxDrops
  /\ sockets' = [sockets EXCEPT ![k] = IF @ = "connecting" THEN "failed" ELSE "closed"]
  /\ Counts(k)
  /\ reconnects' = reconnects + IF disconnects' <= MaxReconnects THEN 1 ELSE 0
  /\ ConnectionKept
  /\ server' = {}
  /\ requests' = [i \in DOMAIN requests |-> [requests[i] EXCEPT !.over = TRUE]]
  /\ UNCHANGED <<waiting, pendingRequests, armed, subscriptionVars, userVars>>

Listed == ToSet(subscriptions)

(* Mutant: only subscriptions that have been confirmed are renewed.        *)
RenewConfirmed == SelectSeq(subscriptions, LAMBDA s : subscriptionId[s] # None)

Renew == subscriptions

(* Mutant: an id is kept until there is a new one.                         *)
KeepIds == UNCHANGED subscriptionId

ForgetIds == subscriptionId' = [s \in Subs |-> IF s \in Listed THEN None ELSE subscriptionId[s]]

(* The reconnect timer: the promise is dropped and every subscription      *)
(* subscribes again, those that have been given up among them.             *)
Reconnect ==
  LET asked == [i \in DOMAIN Renew |-> Operation("renew", Renew[i])]
  IN  /\ reconnects > 0 /\ reconnects' = reconnects - 1
      /\ subscribed' = [s \in Subs |-> subscribed[s] \/ s \in Listed]
      /\ ForgetIds
      /\ \/ /\ asked = <<>>
            /\ sockets' = CloseSocket /\ connection' = None /\ UNCHANGED waiting
         \/ /\ asked # <<>>
            /\ sockets' = NewSocket /\ connection' = Len(sockets) + 1
            /\ waiting' = Append(waiting, asked)
      /\ UNCHANGED <<disconnects, requests, pendingRequests, armed, subscriptions, userVars, server>>

-----------------------------------------------------------------------------
(* The message listener finds the entry of an answer.                      *)
Settles(id) == id \in pendingRequests /\ ~ requests[id].settled

(* An answer arrives.  Its entry stays; without one it is ignored.         *)
Answered(id) ==
  /\ id \in DOMAIN requests
  /\ sockets[requests[id].socket] = "open" /\ ~ requests[id].over
  /\ requests' = [requests EXCEPT
                     ![id].over = TRUE, ![id].settled = @ \/ Settles(id)]
  /\ armed' = IF id \in pendingRequests THEN armed \ {id} ELSE armed
  /\ UNCHANGED <<connectionVars, waiting, pendingRequests, subscriptions, subscribed, left, aborted>>

Tells(id, ok) ==
  LET op == requests[id].op
  IN  user' = IF Settles(id) /\ op.kind \in {"call", "subscribe"}
              THEN [user EXCEPT ![op.who] = IF ok THEN "done" ELSE "failed"] ELSE user

(* The answer to a request that leaves the subscriptions alone: a call, or *)
(* any request that is answered with an error.                             *)
AnswerPlain(id, ok) ==
  /\ Answered(id) /\ Tells(id, ok)
  /\ ok => requests[id].op.kind = "call"
  /\ UNCHANGED <<subscriptionId, server>>

(* The server subscribes, under an id it does not use on this connection.  *)
(* The id is kept unless the listener has unsubscribed meanwhile.          *)
AnswerSubscribe(id) ==
  LET s == requests[id].op.who
  IN  \E new \in 1..Cardinality(Subs) :
        /\ Answered(id) /\ Tells(id, TRUE)
        /\ requests[id].op.kind \in {"subscribe", "renew"}
        /\ \A n \in server : n.id # new
        /\ server' = server \cup {[id |-> new, who |-> s]}
        /\ subscriptionId' = IF Settles(id) /\ subscribed[s] THEN [subscriptionId EXCEPT ![s] = new]
                             ELSE subscriptionId

AnswerUnsubscribe(id) ==
  /\ Answered(id) /\ Tells(id, TRUE)
  /\ requests[id].op.kind = "unsubscribe"
  /\ server' = {n \in server : n.id # requests[id].op.id}
  /\ UNCHANGED subscriptionId

(* Mutant: a timeout or signal looks whether its entry is still there.     *)
RejectsPending(ids) == {i \in ids \cap pendingRequests : ~ requests[i].settled}

Rejects(ids) == {i \in ids : ~ requests[i].settled}

(* The closures of timeouts and signals delete the entry of the request    *)
(* made last, whose id this.#requestId is by now, and reject their own.    *)
RejectAll(ids) ==
  /\ pendingRequests' = pendingRequests \ {RequestId}
  /\ requests' = [i \in DOMAIN requests |-> IF i \in Rejects(ids) THEN [requests[i] EXCEPT !.settled = TRUE]
                                            ELSE requests[i]]
  /\ user' = [x \in DOMAIN user |->
       IF \E i \in Rejects(ids) : requests[i].op.who = x /\ requests[i].op.kind \in {"call", "subscribe"}
       THEN "failed" ELSE user[x]]
  /\ UNCHANGED <<connectionVars, waiting, subscriptionVars, left, server>>

Timeout(id) ==
  /\ id \in armed /\ armed' = armed \ {id}
  /\ RejectAll({id})
  /\ UNCHANGED aborted

Signalled(x) == {i \in DOMAIN requests : requests[i].op.who = x /\ requests[i].op.kind # "unsubscribe"}

(* The signal of a call or a subscription: it reaches the requests that    *)
(* have been sent, settled ones too, and none that is sent later.          *)
Abort(x) ==
  /\ x \notin aborted /\ aborted' = aborted \cup {x}
  /\ Signalled(x) # {}
  /\ RejectAll(Signalled(x))
  /\ UNCHANGED armed

-----------------------------------------------------------------------------
Subscribe(s) ==
  /\ user[s] = "new"
  /\ user' = [user EXCEPT ![s] = "asked"]
  /\ subscriptions' = Append(subscriptions, s)
  /\ subscribed' = [subscribed EXCEPT ![s] = TRUE]
  /\ MakeRequests(<<Operation("subscribe", s)>>)
  /\ UNCHANGED <<disconnects, reconnects, subscriptionId, left, aborted, server>>

(* Mutant: without an id nothing is done.                                  *)
SilencedWithId(s) ==
  subscribed' = IF subscriptionId[s] = None THEN subscribed ELSE [subscribed EXCEPT ![s] = FALSE]

Silenced(s) == subscribed' = [subscribed EXCEPT ![s] = FALSE]

(* The function that subscribe has returned.  The subscription stays in    *)
(* the set.                                                                *)
Unsubscribe(s) ==
  /\ user[s] = "done" /\ left[s] = None
  /\ left' = [left EXCEPT ![s] = Len(sockets)]
  /\ Silenced(s)
  /\ subscriptionId' = [subscriptionId EXCEPT ![s] = None]
  /\ \/ subscriptionId[s] = None /\ UNCHANGED <<sockets, connection, requestVars>>
     \/ /\ subscriptionId[s] # None
        /\ MakeRequests(<<[kind |-> "unsubscribe", who |-> s, id |-> subscriptionId[s]]>>)
  /\ UNCHANGED <<disconnects, reconnects, subscriptions, user, aborted, server>>

Connects(k) == sockets[k] = "connecting" /\ (Open(k) \/ Close(k))

Dropped(k) == sockets[k] # "connecting" /\ Close(k)

Users ==
  \/ \E c \in Calls : Call(c)
  \/ \E s \in Subs : Subscribe(s) \/ Unsubscribe(s)
  \/ \E x \in Signals : Abort(x)

Answers ==
  \E id \in DOMAIN requests :
    (\E ok \in BOOLEAN : AnswerPlain(id, ok)) \/ AnswerSubscribe(id) \/ AnswerUnsubscribe(id)

Next ==
  \/ Users \/ Answers \/ Reconnect
  \/ \E k \in DOMAIN sockets : Connects(k) \/ Dropped(k)
  \/ \E id \in DOMAIN requests : Timeout(id)

(* A caller sends once on every connection that opens, and subscriptions   *)
(* once more on a lost one and to unsubscribe.                             *)
Ids == 1..(Cardinality(Calls) + (MaxDrops + 3) * Cardinality(Subs))

(* A connection attempt ends and timers fire; the server need not answer.  *)
Spec ==
  /\ Init /\ [][Next]_vars
  /\ WF_vars(\E k \in DOMAIN sockets : Connects(k)) /\ WF_vars(Reconnect)
  /\ \A id \in Ids : WF_vars(id \in DOMAIN requests /\ Timeout(id))

-----------------------------------------------------------------------------
TypeOK ==
  /\ sockets \in Seq({"connecting", "open", "closing", "closed", "failed"})
  /\ connection \in 0..Len(sockets)
  /\ disconnects \in Nat /\ reconnects \in Nat
  /\ DOMAIN waiting = DOMAIN sockets
  /\ DOMAIN requests \subseteq Ids
  /\ pendingRequests \subseteq DOMAIN requests /\ armed \subseteq DOMAIN requests
  /\ subscriptions \in Seq(Subs)
  /\ subscriptionId \in [Subs -> 0..Cardinality(Subs)] /\ subscribed \in [Subs -> BOOLEAN]
  /\ user \in [Calls \cup Subs -> {"new", "asked", "done", "failed"}]

(* There is one socket that may still deliver events, or one timer that    *)
(* will make the next one, and never two of them.                          *)
OneConnection == Cardinality({k \in DOMAIN sockets : sockets[k] \in Live}) + reconnects <= 1

WereOpen == {k \in DOMAIN sockets : Connected(k)}

(* rpc-websocket-client.ts:61: after a connection was lost the client      *)
(* tries maxReconnects times, whoever asks for a connection.               *)
GivesUp ==
  IF WereOpen = {} THEN Len(sockets) <= MaxReconnects + 1
  ELSE \E k \in WereOpen : Len(sockets) - k <= MaxReconnects

(* A subscription id the client goes by on an open connection is one the   *)
(* server uses there for this very subscription, so that messages reach    *)
(* the listener they are for although servers may use ids again.           *)
IdsCurrent ==
  (\E k \in DOMAIN sockets : sockets[k] = "open") =>
    \A s \in Subs : subscriptionId[s] # None => [id |-> subscriptionId[s], who |-> s] \in server

(* The message listener passes a notification for n on to s.               *)
Hears(s, n) == s \in Listed /\ subscribed[s] /\ subscriptionId[s] = n.id

(* Whoever unsubscribes hears nothing more over this connection, although  *)
(* a subscribe request may be under way for it.                            *)
QuietOnConnection ==
  \A s \in Subs : left[s] # None /\ (\E n \in server : Hears(s, n)) => left[s] < Len(sockets)

AskedFor(s, k) ==
  {id \in DOMAIN requests : requests[id].socket = k /\ requests[id].op.who = s
                              /\ requests[id].op.kind \in {"subscribe", "renew"}}

(* On every connection that opens the server is asked once for each        *)
(* listener: none is left out by a reconnect, also if its first request    *)
(* got lost, and none gets its messages twice.                             *)
ListenersAskedOnce ==
  \A k \in DOMAIN sockets : sockets[k] = "open" =>
    \A s \in Subs : /\ Cardinality(AskedFor(s, k)) <= 1
                    /\ subscribed[s] => AskedFor(s, k) # {}

(* A request that has been sent and has neither been answered nor rejected *)
(* has its timeout running, whatever became of its entry, its connection   *)
(* and the requests that were aborted or timed out before it.              *)
SentTimesOut == \A id \in DOMAIN requests : ~ requests[id].settled => id \in armed

(* rpc-websocket-client.ts:53: a call that is not answered times out.      *)
CallsSettle == \A c \in Calls : user[c] = "asked" ~> user[c] \in {"done", "failed"}
=============================================================================
