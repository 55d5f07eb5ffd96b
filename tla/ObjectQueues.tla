---------------------------- MODULE ObjectQueues ----------------------------
(***************************************************************************)
(* The per-object queues of ParallelTransactionExecutor: #objectIdQueues   *)
(* has an entry for every object some submitted transaction uses, and the  *)
(* entry lists the transactions that wait for the object behind the one    *)
(* that has it.  executeTransaction takes its place in all the queues of   *)
(* its objects in one synchronous stretch, and the finally block of        *)
(* #execute hands each object on in another.                               *)
(***************************************************************************)
EXTENDS Naturals, Sequences, FiniteSets, SequencesExt

CONSTANTS Txs, Objects

VARIABLES objectIdQueues,  \* object -> the waiting transactions' callbacks
          usedObjects,     \* the objects each submitted transaction uses
          conflicts,       \* the objects each of them still waits for
          active           \* transactions submitted and not released

vars == <<objectIdQueues, usedObjects, conflicts, active>>

Init ==
  /\ objectIdQueues = <<>>
  /\ usedObjects = [t \in Txs |-> {}]
  /\ conflicts = [t \in Txs |-> {}]
  /\ active = {}

(* Mutant: an object whose entry is an empty list is taken for free.       *)
TakenWaitedFor(S) == {o \in S \cap DOMAIN objectIdQueues : objectIdQueues[o] # <<>>}

(* The objects of S that some submitted transaction has already.           *)
Taken(S) == S \cap DOMAIN objectIdQueues

(* A taken object gets t's callback, the others an empty entry.            *)
Join(t, S) ==
  [o \in DOMAIN objectIdQueues \cup S |->
     IF o \in Taken(S) THEN Append(objectIdQueues[o], t)
     ELSE IF o \in S THEN <<>> ELSE objectIdQueues[o]]

(* executeTransaction from the moment its used objects are known.          *)
Acquire(t, S) ==
  /\ t \notin active
  /\ active' = active \cup {t}
  /\ usedObjects' = [usedObjects EXCEPT ![t] = S]
  /\ conflicts' = [conflicts EXCEPT ![t] = Taken(S)]
  /\ objectIdQueues' = Join(t, S)

Ready(t) == t \in active /\ conflicts[t] = {}

(* The objects of t that somebody waits for.                               *)
Waited(t) == {o \in usedObjects[t] : objectIdQueues[o] # <<>>}

(* The objects that t hands to the transaction u, first in their queues.   *)
Handed(t, u) == {o \in Waited(t) : Head(objectIdQueues[o]) = u}

(* The transactions whose last conflict goes when t releases its objects:  *)
(* their callbacks call execute() within the same stretch.                 *)
Woken(t) == {u \in active \ {t} : Handed(t, u) # {} /\ conflicts[u] = Handed(t, u)}

(* Mutants: the entry of an object is kept when nobody waits for it, the   *)
(* entry is deleted in either case, or the callback is called and not      *)
(* shifted out.                                                            *)
ShiftKeepsEntry(t) ==
  [o \in DOMAIN objectIdQueues |->
     IF o \in Waited(t) THEN Tail(objectIdQueues[o]) ELSE objectIdQueues[o]]

ShiftDeletesEntry(t) ==
  [o \in DOMAIN objectIdQueues \ usedObjects[t] |-> objectIdQueues[o]]

ShiftNothing(t) ==
  [o \in DOMAIN objectIdQueues \ (usedObjects[t] \ Waited(t)) |-> objectIdQueues[o]]

(* Every object of t goes to the first of its queue, or its entry goes.    *)
Shift(t) ==
  [o \in DOMAIN objectIdQueues \ (usedObjects[t] \ Waited(t)) |->
     IF o \in Waited(t) THEN Tail(objectIdQueues[o]) ELSE objectIdQueues[o]]

(* The finally block of #execute.                                          *)
Release(t) ==
  /\ Ready(t)
  /\ active' = active \ {t}
  /\ usedObjects' = [usedObjects EXCEPT ![t] = {}]
  /\ conflicts' = [u \in Txs |-> conflicts[u] \ Handed(t, u)]
  /\ objectIdQueues' = Shift(t)

Next == \E t \in Txs : Release(t) \/ \E S \in SUBSET Objects : Acquire(t, S)

Spec == Init /\ [][Next]_vars

-----------------------------------------------------------------------------
TypeOK ==
  /\ DOMAIN objectIdQueues \subseteq Objects
  /\ \A o \in DOMAIN objectIdQueues : objectIdQueues[o] \in Seq(active)
  /\ usedObjects \in [Txs -> SUBSET Objects]
  /\ conflicts \in [Txs -> SUBSET Objects]
  /\ active \subseteq Txs

(* The objects that t has been given.                                      *)
Granted(t) == usedObjects[t] \ conflicts[t]

(* No owned object is ever used by two executing transactions: they would  *)
(* both name the same object version and one of them would equivocate.     *)
Exclusive ==
  \A t, u \in active : t # u /\ Ready(t) /\ Ready(u) => usedObjects[t] \cap usedObjects[u] = {}

(* The queues and the conflict sets agree: an object is waited for by      *)
(* exactly the transactions listed, once each, and is held by exactly one  *)
(* submitted transaction while it has an entry.                            *)
QueuesAgree ==
  /\ DOMAIN objectIdQueues = UNION {usedObjects[t] : t \in active}
  /\ \A o \in DOMAIN objectIdQueues :
       /\ IsInjective(objectIdQueues[o])
       /\ ToSet(objectIdQueues[o]) = {t \in active : o \in conflicts[t]}
       /\ \E t \in active : o \in Granted(t)
  /\ \A t, u \in active : t # u => Granted(t) \cap Granted(u) = {}

(* Every submitted transaction gets all its objects although it waits for  *)
(* several at a time: the queues cannot deadlock, because a transaction    *)
(* joins all of them in one stretch.                                       *)
GetsObjects == \A t \in Txs : t \in active ~> Ready(t)
=============================================================================
