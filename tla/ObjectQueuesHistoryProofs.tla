---------------------- MODULE ObjectQueuesHistoryProofs ----------------------
(***************************************************************************)
(* The per-object queues for any transactions and objects: the queues and  *)
(* the conflict sets agree, no two ready transactions share an object, and *)
(* they implement the line of ConflictLine.                                *)
(***************************************************************************)
EXTENDS ObjectQueuesHistory, FiniteSetTheorems, SequenceTheorems, TLAPS

(* The queues are lines: nobody stands in one of them twice.               *)
Lines(S) == {s \in Seq(S) : IsInjective(s)}

(* The end of a line: it may be empty, and it has no members then.         *)
LEMMA EmptyLine ==
  ASSUME NEW S
  PROVE  <<>> \in Lines(S) /\ ToSet(<<>>) = {}
BY DEF Lines, IsInjective, ToSet

(* Serving the head of a line.                                             *)
LEMMA HeadLeavesLine ==
  ASSUME NEW S, NEW s \in Lines(S), s # <<>>
  PROVE  /\ Head(s) \in S /\ Head(s) \in ToSet(s)
         /\ Tail(s) \in Lines(S)
         /\ ToSet(Tail(s)) = ToSet(s) \ {Head(s)}
<1>1. /\ s \in Seq(S) /\ IsInjective(s)
      /\ Len(s) \in Nat \ {0} /\ DOMAIN s = 1..Len(s)
  BY DEF Lines
<1>2. /\ Head(s) = s[1] /\ Head(s) \in S
      /\ Tail(s) \in Seq(S)
      /\ DOMAIN Tail(s) = 1..(Len(s) - 1)
      /\ \A i \in 1..(Len(s) - 1) : Tail(s)[i] = s[i + 1]
  BY <1>1
<1>3. IsInjective(Tail(s))
  BY <1>1, <1>2 DEF IsInjective
<1>4. ToSet(Tail(s)) = ToSet(s) \ {Head(s)}
  <2>1. ASSUME NEW x \in ToSet(Tail(s)) PROVE x \in ToSet(s) \ {Head(s)}
    <3>1. PICK i \in 1..(Len(s) - 1) : x = s[i + 1]
      BY <1>2 DEF ToSet
    <3>2. i + 1 \in DOMAIN s /\ i + 1 # 1 /\ 1 \in DOMAIN s
      BY <1>1
    <3> QED
      BY <1>1, <1>2, <3>1, <3>2 DEF ToSet, IsInjective
  <2>2. ASSUME NEW x \in ToSet(s) \ {Head(s)} PROVE x \in ToSet(Tail(s))
    <3>1. PICK i \in 1..Len(s) : x = s[i] /\ i # 1
      BY <1>1, <1>2 DEF ToSet
    <3>2. i - 1 \in 1..(Len(s) - 1) /\ (i - 1) + 1 = i
      BY <1>1, <3>1
    <3> QED
      BY <1>2, <3>1, <3>2 DEF ToSet
  <2> QED
    BY <2>1, <2>2
<1> QED
  BY <1>1, <1>2, <1>3, <1>4 DEF Lines, ToSet

(* A line of S is a line of any set that all its members are in.           *)
LEMMA LineOfMembers ==
  ASSUME NEW S, NEW T, NEW s \in Lines(S), ToSet(s) \subseteq T
  PROVE  s \in Lines(T)
<1>1. s \in Seq(S) /\ DOMAIN s = 1..Len(s) /\ Len(s) \in Nat /\ IsInjective(s)
  BY DEF Lines
<1>2. s \in [1..Len(s) -> T]
  BY <1>1 DEF ToSet
<1>3. s \in Seq(T)
  BY <1>1, <1>2
<1> QED
  BY <1>1, <1>3 DEF Lines

(* Joining the end of a line.                                              *)
LEMMA OneJoinsLine ==
  ASSUME NEW S, NEW s \in Lines(S), NEW x \in S, x \notin ToSet(s)
  PROVE  Append(s, x) \in Lines(S) /\ ToSet(Append(s, x)) = ToSet(s) \cup {x}
<1> DEFINE a == Append(s, x)
<1>1. s \in Seq(S) /\ DOMAIN s = 1..Len(s) /\ Len(s) \in Nat /\ IsInjective(s)
  BY DEF Lines
<1>2. /\ a \in Seq(S) /\ DOMAIN a = 1..(Len(s) + 1) /\ a[Len(s) + 1] = x
      /\ \A i \in 1..Len(s) : a[i] = s[i]
  BY <1>1
<1> HIDE DEF a
<1>3. \A i \in 1..(Len(s) + 1) : i \in 1..Len(s) \/ i = Len(s) + 1
  BY <1>1
<1>4. \A i \in 1..Len(s) : i \in 1..(Len(s) + 1) /\ s[i] # x
  BY <1>1 DEF ToSet
<1>5. IsInjective(a)
  BY <1>1, <1>2, <1>3, <1>4 DEF IsInjective
<1>6. ToSet(a) = ToSet(s) \cup {x}
  <2>1. \A i \in 1..(Len(s) + 1) : a[i] \in ToSet(s) \cup {x}
    BY <1>1, <1>2, <1>3 DEF ToSet
  <2>2. \A i \in 1..Len(s) : s[i] = a[i] /\ i \in DOMAIN a
    BY <1>2, <1>4
  <2>3. Len(s) + 1 \in DOMAIN a
    BY <1>1, <1>2
  <2> QED
    BY <1>1, <1>2, <2>1, <2>2, <2>3 DEF ToSet
<1> QED
  BY <1>2, <1>5, <1>6 DEF Lines, a

-----------------------------------------------------------------------------
(* Exclusive is not inductive: that the object a transaction hands on was  *)
(* granted to nobody else follows from the agreement of queues and         *)
(* conflict sets, and that in turn from the fact that transactions wait    *)
(* for their own objects only and have none when they are not active.      *)
TypeInv ==
  /\ usedObjects \in [Txs -> SUBSET Objects]
  /\ conflicts \in [Txs -> SUBSET Objects]
  /\ active \subseteq Txs
  /\ DOMAIN objectIdQueues \subseteq Objects
  /\ \A o \in DOMAIN objectIdQueues : objectIdQueues[o] \in Lines(active)

WaitForOwn == \A t \in Txs : conflicts[t] \subseteq usedObjects[t]

EntriesInUse == DOMAIN objectIdQueues = UNION {usedObjects[t] : t \in active}

QueuedAreWaiting ==
  \A o \in DOMAIN objectIdQueues :
    ToSet(objectIdQueues[o]) = {t \in active : o \in conflicts[t]}

EntriesGranted == \A o \in DOMAIN objectIdQueues : \E t \in active : o \in Granted(t)

GrantedOnce == \A t, u \in active : t # u => Granted(t) \cap Granted(u) = {}

Inv == /\ TypeInv /\ WaitForOwn /\ EntriesInUse
       /\ QueuedAreWaiting /\ EntriesGranted /\ GrantedOnce

LEMMA InitInv == Init => Inv
<1> SUFFICES ASSUME Init PROVE Inv
  OBVIOUS
<1>1. DOMAIN objectIdQueues = {}
  BY DEF Init
<1> QED
  BY <1>1 DEF Init, Inv, TypeInv, WaitForOwn, EntriesInUse, QueuedAreWaiting,
              EntriesGranted, GrantedOnce

(* A new transaction gets the objects that nobody uses and stands last in  *)
(* the queues of the others.                                               *)
LEMMA AcquireInv ==
  ASSUME Inv, NEW t \in Txs, NEW S \in SUBSET Objects, Acquire(t, S)
  PROVE  Inv'
<1> USE DEF Inv
<1>1. /\ t \notin active /\ active' = active \cup {t}
      /\ usedObjects' = [usedObjects EXCEPT ![t] = S]
      /\ conflicts' = [conflicts EXCEPT ![t] = Taken(S)]
      /\ objectIdQueues' = Join(t, S)
  BY DEF Acquire
<1>2. Taken(S) = S \cap DOMAIN objectIdQueues
  BY DEF Taken
<1>3. /\ usedObjects'[t] = S /\ conflicts'[t] = Taken(S)
      /\ \A u \in Txs : u # t => usedObjects'[u] = usedObjects[u] /\ conflicts'[u] = conflicts[u]
  BY <1>1 DEF TypeInv
<1>4. DOMAIN objectIdQueues' = DOMAIN objectIdQueues \cup S
  BY <1>1 DEF Join
<1>5. \A u \in active : u \in Txs /\ u # t /\ usedObjects[u] \subseteq DOMAIN objectIdQueues
  BY <1>1 DEF TypeInv, EntriesInUse
<1>6. /\ \A o \in Taken(S) : objectIdQueues'[o] = Append(objectIdQueues[o], t)
      /\ \A o \in S \ Taken(S) : objectIdQueues'[o] = <<>>
      /\ \A o \in DOMAIN objectIdQueues \ S : objectIdQueues'[o] = objectIdQueues[o]
  BY <1>1, <1>2 DEF Join
<1>7. \A o \in DOMAIN objectIdQueues' :
        /\ objectIdQueues'[o] \in Lines(active')
        /\ ToSet(objectIdQueues'[o]) = {u \in active' : o \in conflicts'[u]}
  <2> TAKE o \in DOMAIN objectIdQueues'
  <2>1. {u \in active' : o \in conflicts'[u]} =
          {u \in active : o \in conflicts[u]} \cup (IF o \in Taken(S) THEN {t} ELSE {})
    BY <1>1, <1>3, <1>5
  <2>2. o \in DOMAIN objectIdQueues =>
          /\ objectIdQueues[o] \in Lines(active')
          /\ ToSet(objectIdQueues[o]) = {u \in active : o \in conflicts[u]}
    <3> SUFFICES ASSUME o \in DOMAIN objectIdQueues
                 PROVE  /\ objectIdQueues[o] \in Lines(active')
                        /\ ToSet(objectIdQueues[o]) = {u \in active : o \in conflicts[u]}
      OBVIOUS
    <3>1. ToSet(objectIdQueues[o]) = {u \in active : o \in conflicts[u]}
      BY DEF QueuedAreWaiting
    <3>2. objectIdQueues[o] \in Lines(active) /\ ToSet(objectIdQueues[o]) \subseteq active'
      BY <1>1, <3>1 DEF TypeInv
    <3> QED
      BY <3>1, <3>2, LineOfMembers
  <2>3. CASE o \in Taken(S)
    <3>1. o \in DOMAIN objectIdQueues /\ t \in active'
      BY <1>1, <1>2, <2>3
    <3>2. t \notin ToSet(objectIdQueues[o])
      BY <1>1, <2>2, <3>1
    <3>3. /\ Append(objectIdQueues[o], t) \in Lines(active')
          /\ ToSet(Append(objectIdQueues[o], t)) = ToSet(objectIdQueues[o]) \cup {t}
      BY <2>2, <3>1, <3>2, OneJoinsLine
    <3> QED
      BY <1>6, <2>1, <2>2, <2>3, <3>1, <3>3
  <2>4. CASE o \in S \ Taken(S)
    <3>1. {u \in active : o \in conflicts[u]} = {}
      BY <1>2, <1>5, <2>4 DEF WaitForOwn
    <3> QED
      BY <1>6, <2>1, <2>4, <3>1, EmptyLine
  <2>5. CASE o \in DOMAIN objectIdQueues \ S
    BY <1>2, <1>6, <2>1, <2>2, <2>5
  <2> QED
    BY <1>2, <1>4, <2>3, <2>4, <2>5
<1>8. TypeInv'
  BY <1>1, <1>2, <1>4, <1>7 DEF TypeInv
<1>9. WaitForOwn'
  BY <1>2, <1>3 DEF WaitForOwn
<1>10. EntriesInUse'
  BY <1>1, <1>3, <1>4, <1>5 DEF EntriesInUse
<1>11. QueuedAreWaiting'
  BY <1>7 DEF QueuedAreWaiting
<1>12. /\ \A u \in active : Granted(u)' = Granted(u) /\ Granted(u) \subseteq DOMAIN objectIdQueues
       /\ Granted(t)' = S \ DOMAIN objectIdQueues
  BY <1>2, <1>3, <1>5 DEF Granted
<1>13. EntriesGranted'
  <2>1. ASSUME NEW o \in DOMAIN objectIdQueues PROVE \E u \in active' : o \in Granted(u)'
    <3>1. PICK u \in active : o \in Granted(u)
      BY DEF EntriesGranted
    <3> QED
      BY <1>1, <1>12, <3>1
  <2>2. ASSUME NEW o \in S \ DOMAIN objectIdQueues PROVE \E u \in active' : o \in Granted(u)'
    BY <1>1, <1>12
  <2> QED
    BY <1>4, <2>1, <2>2 DEF EntriesGranted
<1>14. GrantedOnce'
  BY <1>1, <1>12 DEF GrantedOnce
<1> QED
  BY <1>8, <1>9, <1>10, <1>11, <1>13, <1>14

(* A ready transaction holds all its objects, so that everybody else who   *)
(* uses one of them waits for it, and the first of them is the only one    *)
(* whom it is handed to.                                                   *)
LEMMA ReleaseInv ==
  ASSUME Inv, NEW t \in Txs, Release(t)
  PROVE  Inv'
<1> USE DEF Inv
<1>1. /\ t \in active /\ conflicts[t] = {} /\ active' = active \ {t}
      /\ usedObjects' = [usedObjects EXCEPT ![t] = {}]
      /\ conflicts' = [u \in Txs |-> conflicts[u] \ Handed(t, u)]
      /\ objectIdQueues' = Shift(t)
  BY DEF Release, Ready
<1>2. /\ \A u \in Txs : u # t => usedObjects'[u] = usedObjects[u]
      /\ \A u \in Txs : conflicts'[u] = conflicts[u] \ Handed(t, u)
      /\ usedObjects'[t] = {} /\ conflicts'[t] = {}
  BY <1>1 DEF TypeInv
<1>3. Granted(t) = usedObjects[t] /\ usedObjects[t] \subseteq DOMAIN objectIdQueues
  BY <1>1 DEF Granted, EntriesInUse
<1>4. ASSUME NEW o \in Waited(t)
      PROVE  /\ o \in usedObjects[t] /\ o \in DOMAIN objectIdQueues
             /\ Head(objectIdQueues[o]) \in active \ {t}
             /\ o \in conflicts[Head(objectIdQueues[o])]
             /\ Tail(objectIdQueues[o]) \in Lines(active)
             /\ ToSet(Tail(objectIdQueues[o])) =
                  {u \in active : o \in conflicts[u] /\ u # Head(objectIdQueues[o])}
  <2>1. o \in DOMAIN objectIdQueues /\ objectIdQueues[o] # <<>> /\ o \in usedObjects[t]
    BY <1>3, <1>4 DEF Waited
  <2>2. /\ objectIdQueues[o] \in Lines(active)
        /\ ToSet(objectIdQueues[o]) = {u \in active : o \in conflicts[u]}
    BY <2>1 DEF TypeInv, QueuedAreWaiting
  <2>3. /\ Head(objectIdQueues[o]) \in ToSet(objectIdQueues[o])
        /\ Tail(objectIdQueues[o]) \in Lines(active)
        /\ ToSet(Tail(objectIdQueues[o])) = ToSet(objectIdQueues[o]) \ {Head(objectIdQueues[o])}
    BY <2>1, <2>2, HeadLeavesLine
  <2> QED
    BY <1>1, <2>1, <2>2, <2>3
<1>5. \A u \in Txs, o \in Objects :
        o \in Handed(t, u) <=> o \in Waited(t) /\ Head(objectIdQueues[o]) = u
  BY <1>3 DEF Handed
<1>6. \A u \in Txs : Handed(t, u) \subseteq usedObjects[t] /\ Handed(t, u) \subseteq conflicts[u]
  BY <1>4 DEF Handed
<1>7. \A o \in usedObjects[t] \ Waited(t) : \A u \in active : u # t => o \notin usedObjects[u]
  <2> SUFFICES ASSUME NEW o \in usedObjects[t] \ Waited(t), NEW u \in active, u # t,
                      o \in usedObjects[u]
               PROVE  FALSE
    OBVIOUS
  <2>1. o \in DOMAIN objectIdQueues /\ objectIdQueues[o] = <<>>
    BY <1>3 DEF Waited
  <2>2. o \notin conflicts[u]
    BY <2>1, EmptyLine DEF QueuedAreWaiting
  <2>3. o \in Granted(t) \cap Granted(u)
    BY <1>3, <2>2 DEF Granted
  <2> QED
    BY <1>1, <2>3 DEF GrantedOnce
<1>8. DOMAIN objectIdQueues' = DOMAIN objectIdQueues \ (usedObjects[t] \ Waited(t))
  BY <1>1 DEF Shift
<1>9. \A o \in DOMAIN objectIdQueues' :
        /\ objectIdQueues'[o] \in Lines(active')
        /\ ToSet(objectIdQueues'[o]) = {u \in active' : o \in conflicts'[u]}
  <2> TAKE o \in DOMAIN objectIdQueues'
  <2>1. o \in DOMAIN objectIdQueues /\ o \in Objects
    BY <1>8 DEF TypeInv
  <2>2. CASE o \in Waited(t)
    <3>1. objectIdQueues'[o] = Tail(objectIdQueues[o])
      BY <1>1, <1>8, <2>2 DEF Shift
    <3>2. {u \in active' : o \in conflicts'[u]} =
            {u \in active : o \in conflicts[u] /\ u # Head(objectIdQueues[o])}
      BY <1>1, <1>2, <1>5, <2>1, <2>2 DEF TypeInv
    <3>3. /\ Tail(objectIdQueues[o]) \in Lines(active)
          /\ ToSet(Tail(objectIdQueues[o])) = {u \in active' : o \in conflicts'[u]}
      BY <1>4, <2>2, <3>2
    <3> QED
      BY <3>1, <3>3, LineOfMembers
  <2>3. CASE o \notin Waited(t)
    <3>1. objectIdQueues'[o] = objectIdQueues[o]
      BY <1>1, <1>8, <2>3 DEF Shift
    <3>2. {u \in active' : o \in conflicts'[u]} = {u \in active : o \in conflicts[u]}
      BY <1>1, <1>2, <1>5, <2>1, <2>3 DEF TypeInv
    <3>3. /\ objectIdQueues[o] \in Lines(active)
          /\ ToSet(objectIdQueues[o]) = {u \in active' : o \in conflicts'[u]}
      BY <2>1, <3>2 DEF TypeInv, QueuedAreWaiting
    <3> QED
      BY <3>1, <3>3, LineOfMembers
  <2> QED
    BY <2>2, <2>3
<1>10. TypeInv'
  BY <1>1, <1>8, <1>9 DEF TypeInv
<1>11. WaitForOwn'
  <2> SUFFICES ASSUME NEW u \in Txs PROVE conflicts'[u] \subseteq usedObjects'[u]
    BY DEF WaitForOwn
  <2> QED
    BY <1>2 DEF WaitForOwn
<1>12. EntriesInUse'
  <2>1. \A o \in DOMAIN objectIdQueues' : \E u \in active' : o \in usedObjects'[u]
    <3> TAKE o \in DOMAIN objectIdQueues'
    <3>1. CASE o \in Waited(t)
      <4>1. Head(objectIdQueues[o]) \in active' /\ o \in conflicts[Head(objectIdQueues[o])]
        BY <1>1, <1>4, <3>1
      <4> QED
        BY <1>1, <1>2, <4>1 DEF TypeInv, WaitForOwn
    <3>2. CASE o \notin usedObjects[t]
      <4>1. PICK u \in active : o \in usedObjects[u]
        BY <1>8 DEF EntriesInUse
      <4> QED
        BY <1>1, <1>2, <3>2, <4>1 DEF TypeInv
    <3> QED
      BY <1>8, <3>1, <3>2
  <2>2. \A u \in active' : usedObjects'[u] \subseteq DOMAIN objectIdQueues'
    <3> TAKE u \in active'
    <3>1. u \in active /\ u # t /\ usedObjects'[u] = usedObjects[u]
      BY <1>1, <1>2 DEF TypeInv
    <3>2. usedObjects[u] \subseteq DOMAIN objectIdQueues
      BY <3>1 DEF EntriesInUse
    <3> QED
      BY <1>7, <1>8, <3>1, <3>2
  <2> QED
    BY <2>1, <2>2 DEF EntriesInUse
<1>13. QueuedAreWaiting'
  BY <1>9 DEF QueuedAreWaiting
<1>14. \A u \in active' : Granted(u)' = Granted(u) \cup Handed(t, u)
  <2> TAKE u \in active'
  <2>1. u \in active /\ u # t /\ u \in Txs
    BY <1>1 DEF TypeInv
  <2>2. conflicts[u] \subseteq usedObjects[u]
    BY <2>1 DEF WaitForOwn
  <2> QED
    BY <1>2, <1>6, <2>1, <2>2 DEF Granted
<1>15. EntriesGranted'
  <2> SUFFICES ASSUME NEW o \in DOMAIN objectIdQueues' PROVE \E u \in active' : o \in Granted(u)'
    BY DEF EntriesGranted
  <2>1. CASE o \in Waited(t)
    <3>1. /\ Head(objectIdQueues[o]) \in active'
          /\ o \in Handed(t, Head(objectIdQueues[o]))
      BY <1>1, <1>4, <2>1 DEF Handed
    <3> QED
      BY <1>14, <3>1
  <2>2. CASE o \notin usedObjects[t]
    <3>1. PICK u \in active : o \in Granted(u)
      BY <1>8 DEF EntriesGranted
    <3>2. u \in active'
      BY <1>1, <1>3, <2>2, <3>1
    <3> QED
      BY <1>14, <3>1, <3>2
  <2> QED
    BY <1>8, <2>1, <2>2
<1>16. GrantedOnce'
  <2> SUFFICES ASSUME NEW u \in active', NEW v \in active', u # v,
                      NEW o \in Granted(u)' \cap Granted(v)'
               PROVE  FALSE
    BY DEF GrantedOnce
  <2>1. /\ u \in active /\ v \in active /\ u # t /\ v # t
        /\ o \in Granted(u) \/ o \in Handed(t, u)
        /\ o \in Granted(v) \/ o \in Handed(t, v)
    BY <1>1, <1>14
  <2>2. Granted(u) \cap Granted(t) = {} /\ Granted(v) \cap Granted(t) = {}
        /\ Granted(u) \cap Granted(v) = {}
    BY <1>1, <2>1 DEF GrantedOnce
  <2>3. Handed(t, u) \subseteq Granted(t) /\ Handed(t, v) \subseteq Granted(t)
    BY <1>3, <1>6, <2>1 DEF TypeInv
  <2>4. o \in Handed(t, u) /\ o \in Handed(t, v)
    BY <2>1, <2>2, <2>3
  <2> QED
    BY <2>4 DEF Handed
<1> QED
  BY <1>10, <1>11, <1>12, <1>13, <1>15, <1>16

LEMMA NextInv == Inv /\ [Next]_vars => Inv'
<1> SUFFICES ASSUME Inv, [Next]_vars PROVE Inv'
  OBVIOUS
<1>1. ASSUME NEW t \in Txs, Release(t) PROVE Inv'
  BY <1>1, ReleaseInv
<1>2. ASSUME NEW t \in Txs, NEW S \in SUBSET Objects, Acquire(t, S) PROVE Inv'
  BY <1>2, AcquireInv
<1>3. CASE UNCHANGED vars
  BY <1>3 DEF vars, Inv, TypeInv, WaitForOwn, EntriesInUse, QueuedAreWaiting,
              EntriesGranted, GrantedOnce, Granted
<1> QED
  BY <1>1, <1>2, <1>3 DEF Next

LEMMA SpecInv == Spec => []Inv
BY InitInv, NextInv, PTL DEF Spec

(* The queues hold submitted transactions only (parallel.ts:137), whatever *)
(* sets of objects are asked for.                                          *)
THEOREM TypeCorrect == Spec => []TypeOK
<1>1. Inv => TypeOK
  BY DEF Inv, TypeInv, TypeOK, Lines
<1> QED
  BY <1>1, SpecInv, PTL

(* The agreement of #objectIdQueues with the conflict sets that the        *)
(* callbacks of parallel.ts:137-142 close over: the finally block can      *)
(* never find an entry missing or call somebody who does not wait.         *)
THEOREM QueuesAlwaysAgree == Spec => []QueuesAgree
<1>1. Inv => QueuesAgree
  BY DEF Inv, TypeInv, EntriesInUse, QueuedAreWaiting, EntriesGranted, GrantedOnce,
         QueuesAgree, Lines
<1> QED
  BY <1>1, SpecInv, PTL

(* For any number of transactions over any objects: two transactions that  *)
(* are let go at the same time share no object.                            *)
THEOREM MutualExclusion == Spec => []Exclusive
<1>1. Inv => Exclusive
  BY DEF Inv, GrantedOnce, Granted, Ready, Exclusive
<1> QED
  BY <1>1, SpecInv, PTL
-----------------------------------------------------------------------------
(* The refinement needs that the conflict sets say who stands in front,    *)
(* and that is kept by a release only because every queue lists its        *)
(* transactions in the order of submission.                                *)
OrderInv ==
  /\ ahead \in [Txs -> SUBSET active]
  /\ \A t, u \in Txs : t \in ahead[u] => u \notin ahead[t]

QueuesInOrder ==
  \A o \in DOMAIN objectIdQueues : \A i, j \in DOMAIN objectIdQueues[o] :
    i < j => objectIdQueues[o][i] \in ahead[objectIdQueues[o][j]]

HInv == Inv /\ OrderInv /\ QueuesInOrder /\ ConflictsAreContention

LEMMA InitHInv == HInit => HInv
<1> SUFFICES ASSUME HInit PROVE HInv
  OBVIOUS
<1>1. DOMAIN objectIdQueues = {} /\ active = {} /\ ahead = [t \in Txs |-> {}]
  BY DEF HInit, Init
<1> QED
  BY <1>1, InitInv DEF HInit, HInv, OrderInv, QueuesInOrder, ConflictsAreContention

(* The one who joins stands behind everybody, in the queues and in the     *)
(* order of submission.                                                    *)
LEMMA AcquireHInv ==
  ASSUME HInv, NEW t \in Txs, NEW S \in SUBSET Objects, Acquire(t, S), Line!Join(t)
  PROVE  HInv'
<1> USE DEF HInv
<1>1. /\ t \notin active /\ active' = active \cup {t}
      /\ usedObjects' = [usedObjects EXCEPT ![t] = S]
      /\ conflicts' = [conflicts EXCEPT ![t] = Taken(S)]
      /\ objectIdQueues' = Join(t, S)
      /\ ahead' = [ahead EXCEPT ![t] = active]
  BY DEF Acquire, Line!Join
<1>2. /\ usedObjects'[t] = S /\ conflicts'[t] = Taken(S) /\ ahead'[t] = active
      /\ \A u \in Txs : u # t => /\ usedObjects'[u] = usedObjects[u]
                                 /\ conflicts'[u] = conflicts[u]
                                 /\ ahead'[u] = ahead[u]
      /\ active \subseteq Txs
  BY <1>1 DEF Inv, TypeInv, OrderInv
<1>3. Inv'
  BY AcquireInv
<1>4. OrderInv'
  BY <1>1, <1>2 DEF OrderInv
<1>5. QueuesInOrder'
  <2> SUFFICES ASSUME NEW o \in DOMAIN objectIdQueues',
                      NEW i \in DOMAIN objectIdQueues'[o], NEW j \in DOMAIN objectIdQueues'[o],
                      i < j
               PROVE  objectIdQueues'[o][i] \in ahead'[objectIdQueues'[o][j]]
    BY DEF QueuesInOrder
  <2> DEFINE q == objectIdQueues[o]
  <2>1. o \in DOMAIN objectIdQueues =>
          /\ q \in Seq(active) /\ DOMAIN q = 1..Len(q) /\ Len(q) \in Nat
          /\ \A k \in DOMAIN q : q[k] \in active /\ q[k] \in Txs /\ q[k] # t
          /\ \A k, m \in DOMAIN q : k < m => q[k] \in ahead'[q[m]]
    <3> SUFFICES ASSUME o \in DOMAIN objectIdQueues
                 PROVE  /\ q \in Seq(active) /\ DOMAIN q = 1..Len(q) /\ Len(q) \in Nat
                        /\ \A k \in DOMAIN q : q[k] \in active /\ q[k] \in Txs /\ q[k] # t
                        /\ \A k, m \in DOMAIN q : k < m => q[k] \in ahead'[q[m]]
      OBVIOUS
    <3>1. q \in Seq(active) /\ DOMAIN q = 1..Len(q) /\ Len(q) \in Nat
      BY DEF Inv, TypeInv, Lines
    <3>2. \A k \in DOMAIN q : q[k] \in active /\ q[k] \in Txs /\ q[k] # t
      BY <1>1, <1>2, <3>1
    <3> QED
      BY <1>2, <3>1, <3>2 DEF QueuesInOrder
  <2>2. CASE o \in Taken(S)
    <3>1. o \in DOMAIN objectIdQueues /\ objectIdQueues'[o] = Append(q, t)
      BY <1>1, <2>2 DEF Taken, Join
    <3>2. DOMAIN Append(q, t) = 1..(Len(q) + 1) /\ Append(q, t)[Len(q) + 1] = t
          /\ \A k \in 1..Len(q) : Append(q, t)[k] = q[k]
      BY <2>1, <3>1
    <3>3. i \in DOMAIN q /\ objectIdQueues'[o][i] = q[i]
      BY <2>1, <3>1, <3>2
    <3>4. CASE j \in DOMAIN q
      BY <2>1, <3>1, <3>2, <3>3, <3>4
    <3>5. CASE j = Len(q) + 1
      BY <1>2, <2>1, <3>1, <3>2, <3>3, <3>5
    <3> QED
      BY <2>1, <3>1, <3>2, <3>4, <3>5
  <2>3. CASE o \in S \ Taken(S)
    BY <1>1, <2>3 DEF Taken, Join
  <2>4. CASE o \notin S
    <3>1. o \in DOMAIN objectIdQueues /\ objectIdQueues'[o] = q
      BY <1>1, <2>4 DEF Taken, Join
    <3> QED
      BY <2>1, <3>1
  <2> QED
    BY <2>2, <2>3, <2>4 DEF Taken
<1>6. ConflictsAreContention'
  <2> SUFFICES ASSUME NEW u \in active'
               PROVE  conflicts'[u] = {o \in usedObjects'[u] : \E v \in ahead'[u] : o \in usedObjects'[v]}
    BY DEF ConflictsAreContention, Line!Contended
  <2>1. CASE u = t
    <3>1. \A v \in active : usedObjects'[v] = usedObjects[v]
      BY <1>1, <1>2
    <3>2. Taken(S) = S \cap UNION {usedObjects[v] : v \in active}
      BY DEF Taken, Inv, EntriesInUse
    <3> QED
      BY <1>2, <2>1, <3>1, <3>2
  <2>2. CASE u # t
    <3>1. u \in active /\ ahead[u] \subseteq active /\ u \in Txs
      BY <1>1, <1>2, <2>2 DEF OrderInv
    <3>2. \A v \in ahead[u] : usedObjects'[v] = usedObjects[v]
      BY <1>1, <1>2, <3>1
    <3>3. conflicts[u] = {o \in usedObjects[u] : \E v \in ahead[u] : o \in usedObjects[v]}
      BY <3>1 DEF ConflictsAreContention, Line!Contended
    <3> QED
      BY <1>2, <2>2, <3>1, <3>2, <3>3
  <2> QED
    BY <2>1, <2>2
<1> QED
  BY <1>3, <1>4, <1>5, <1>6

(* Of those who wait for an object of t the first in the queue stands      *)
(* behind t alone, so that the object stays contended for the others.      *)
LEMMA ReleaseHInv ==
  ASSUME HInv, NEW t \in Txs, Release(t), Line!Leave(t)
  PROVE  HInv'
<1> USE DEF HInv
<1>1. /\ t \in active /\ conflicts[t] = {} /\ active' = active \ {t}
      /\ usedObjects' = [usedObjects EXCEPT ![t] = {}]
      /\ conflicts' = [u \in Txs |-> conflicts[u] \ Handed(t, u)]
      /\ objectIdQueues' = Shift(t)
      /\ ahead' = [u \in Txs |-> IF u = t THEN {} ELSE ahead[u] \ {t}]
  BY DEF Release, Ready, Line!Leave
<1>2. /\ \A u \in Txs : u # t => usedObjects'[u] = usedObjects[u] /\ ahead'[u] = ahead[u] \ {t}
      /\ \A u \in Txs : conflicts'[u] = conflicts[u] \ Handed(t, u)
      /\ usedObjects'[t] = {} /\ ahead'[t] = {}
      /\ active \subseteq Txs
  BY <1>1 DEF Inv, TypeInv
<1>3. Inv'
  BY ReleaseInv
<1>4. OrderInv'
  BY <1>1, <1>2 DEF OrderInv
<1>5. ASSUME NEW o \in DOMAIN objectIdQueues
      PROVE  /\ objectIdQueues[o] \in Seq(active)
             /\ DOMAIN objectIdQueues[o] = 1..Len(objectIdQueues[o])
             /\ Len(objectIdQueues[o]) \in Nat
             /\ \A k \in DOMAIN objectIdQueues[o] :
                  /\ objectIdQueues[o][k] \in active
                  /\ o \in conflicts[objectIdQueues[o][k]]
                  /\ objectIdQueues[o][k] # t
  <2>1. /\ objectIdQueues[o] \in Seq(active)
        /\ DOMAIN objectIdQueues[o] = 1..Len(objectIdQueues[o])
        /\ Len(objectIdQueues[o]) \in Nat
    BY DEF Inv, TypeInv, Lines
  <2>2. ToSet(objectIdQueues[o]) = {u \in active : o \in conflicts[u]}
    BY DEF Inv, QueuedAreWaiting
  <2>3. \A k \in DOMAIN objectIdQueues[o] : objectIdQueues[o][k] \in ToSet(objectIdQueues[o])
    BY DEF ToSet
  <2> QED
    BY <1>1, <2>1, <2>2, <2>3
<1>6. QueuesInOrder'
  <2> SUFFICES ASSUME NEW o \in DOMAIN objectIdQueues',
                      NEW i \in DOMAIN objectIdQueues'[o], NEW j \in DOMAIN objectIdQueues'[o],
                      i < j
               PROVE  objectIdQueues'[o][i] \in ahead'[objectIdQueues'[o][j]]
    BY DEF QueuesInOrder
  <2> DEFINE q == objectIdQueues[o]
  <2>1. o \in DOMAIN objectIdQueues
    BY <1>1 DEF Shift
  <2>2. \A k, m \in DOMAIN q : k < m => q[k] \in ahead'[q[m]]
    BY <1>2, <1>5, <2>1 DEF QueuesInOrder
  <2>3. CASE o \in Waited(t)
    <3>1. q # <<>> /\ objectIdQueues'[o] = Tail(q)
      BY <1>1, <2>1, <2>3 DEF Shift, Waited
    <3>2. /\ DOMAIN Tail(q) = 1..(Len(q) - 1)
          /\ \A k \in 1..(Len(q) - 1) : Tail(q)[k] = q[k + 1]
          /\ Len(q) \in Nat \ {0}
      BY <1>5, <2>1, <3>1
    <3>3. i + 1 \in DOMAIN q /\ j + 1 \in DOMAIN q /\ i + 1 < j + 1
      BY <1>5, <2>1, <3>1, <3>2
    <3> QED
      BY <2>2, <3>1, <3>2, <3>3
  <2>4. CASE o \notin Waited(t)
    <3>1. objectIdQueues'[o] = q
      BY <1>1, <2>1, <2>4 DEF Shift
    <3> QED
      BY <2>2, <3>1
  <2> QED
    BY <2>3, <2>4
<1>7. ASSUME NEW u \in active, u # t, NEW o \in conflicts[u], o \in usedObjects[t]
      PROVE  /\ o \in DOMAIN objectIdQueues /\ o \in Waited(t)
             /\ Head(objectIdQueues[o]) \in active \ {t}
             /\ Head(objectIdQueues[o]) \in Txs
             /\ o \in usedObjects[Head(objectIdQueues[o])]
             /\ Head(objectIdQueues[o]) = u \/ Head(objectIdQueues[o]) \in ahead[u]
  <2>1. o \in DOMAIN objectIdQueues
    BY <1>1, <1>7 DEF Inv, EntriesInUse
  <2>2. u \in ToSet(objectIdQueues[o])
    BY <1>7, <2>1 DEF Inv, QueuedAreWaiting
  <2>3. PICK k \in DOMAIN objectIdQueues[o] : u = objectIdQueues[o][k]
    BY <2>2 DEF ToSet
  <2>4. objectIdQueues[o] # <<>> /\ 1 \in DOMAIN objectIdQueues[o]
        /\ Head(objectIdQueues[o]) = objectIdQueues[o][1]
    BY <1>5, <2>1, <2>3
  <2>5. k = 1 \/ 1 < k
    BY <1>5, <2>1, <2>3
  <2>6. Head(objectIdQueues[o]) = u \/ Head(objectIdQueues[o]) \in ahead[u]
    BY <2>1, <2>3, <2>4, <2>5 DEF QueuesInOrder
  <2>7. o \in conflicts[Head(objectIdQueues[o])] /\ Head(objectIdQueues[o]) \in active \ {t}
    BY <1>5, <2>1, <2>4
  <2>8. o \in usedObjects[Head(objectIdQueues[o])] /\ Head(objectIdQueues[o]) \in Txs
    BY <1>2, <2>7 DEF Inv, WaitForOwn
  <2> QED
    BY <1>7, <2>1, <2>4, <2>6, <2>7, <2>8 DEF Waited
<1>8. ConflictsAreContention'
  <2> SUFFICES ASSUME NEW u \in active'
               PROVE  conflicts'[u] = {o \in usedObjects'[u] : \E v \in ahead'[u] : o \in usedObjects'[v]}
    BY DEF ConflictsAreContention, Line!Contended
  <2>1. /\ u \in active /\ u # t /\ u \in Txs /\ ahead[u] \subseteq active
        /\ usedObjects'[u] = usedObjects[u] /\ ahead'[u] = ahead[u] \ {t}
        /\ conflicts'[u] = conflicts[u] \ Handed(t, u)
    BY <1>1, <1>2 DEF OrderInv
  <2>2. conflicts[u] = {o \in usedObjects[u] : \E v \in ahead[u] : o \in usedObjects[v]}
    BY <2>1 DEF ConflictsAreContention, Line!Contended
  <2>3. \A v \in ahead[u] \ {t} : v \in Txs /\ v \in active /\ usedObjects'[v] = usedObjects[v]
    BY <1>2, <2>1
  <2>4. ASSUME NEW o \in conflicts[u] \ Handed(t, u)
        PROVE  \E v \in ahead[u] \ {t} : o \in usedObjects[v]
    <3>1. CASE o \in usedObjects[t]
      <4>1. Head(objectIdQueues[o]) # u
        BY <1>7, <2>1, <3>1, <2>4 DEF Handed
      <4> QED
        BY <1>7, <2>1, <3>1, <4>1
    <3>2. CASE o \notin usedObjects[t]
      BY <2>2, <2>4, <3>2
    <3> QED
      BY <3>1, <3>2
  <2>5. ASSUME NEW o \in Handed(t, u), NEW v \in ahead[u] \ {t}, o \in usedObjects[v]
        PROVE  FALSE
    <3>1. o \in usedObjects[t] /\ o \in DOMAIN objectIdQueues /\ u = Head(objectIdQueues[o])
          /\ objectIdQueues[o] # <<>>
      BY <1>1, <2>5 DEF Handed, Waited, Inv, EntriesInUse
    <3>2. o \in Granted(t)
      BY <1>1, <3>1 DEF Granted
    <3>3. o \in conflicts[v]
      BY <1>1, <2>3, <2>5, <3>2 DEF Inv, GrantedOnce, Granted
    <3>4. u = v \/ u \in ahead[v]
      BY <1>7, <2>3, <3>1, <3>3
    <3> QED
      BY <2>1, <2>3, <3>4 DEF OrderInv
  <2> QED
    BY <2>1, <2>2, <2>3, <2>4, <2>5
<1> QED
  BY <1>3, <1>4, <1>6, <1>8

LEMMA NextHInv == HInv /\ [HNext]_hvars => HInv' /\ [Line!Next]_(Line!vars)
<1> SUFFICES ASSUME HInv, [HNext]_hvars PROVE HInv' /\ [Line!Next]_(Line!vars)
  OBVIOUS
<1>1. ASSUME NEW t \in Txs, NEW S \in SUBSET Objects, Acquire(t, S), Line!Join(t)
      PROVE  HInv' /\ [Line!Next]_(Line!vars)
  <2>1. Line!Submit(t, S)
    BY <1>1 DEF Acquire, Line!Submit
  <2> QED
    BY <1>1, <2>1, AcquireHInv DEF Line!Next
<1>2. ASSUME NEW t \in Txs, Release(t), Line!Leave(t)
      PROVE  HInv' /\ [Line!Next]_(Line!vars)
  <2>1. Line!Contended(t) = {}
    BY <1>2 DEF Release, Ready, HInv, ConflictsAreContention
  <2>2. Line!End(t)
    BY <1>2, <2>1 DEF Release, Ready, Line!End
  <2> QED
    BY <1>2, <2>2, ReleaseHInv DEF Line!Next
<1>3. CASE UNCHANGED hvars
  <2>1. UNCHANGED <<active, ahead, usedObjects, conflicts, objectIdQueues>>
    BY <1>3 DEF hvars, vars
  <2>2. Inv'
    BY <2>1, NextInv DEF HInv, vars
  <2> QED
    BY <2>1, <2>2 DEF HInv, OrderInv, QueuesInOrder, ConflictsAreContention,
                     Line!Contended, Line!vars
<1> QED
  BY <1>1, <1>2, <1>3 DEF HNext

(* What parallel.ts:128-146 and its finally block do with one queue per    *)
(* object is one line of transactions: those in conflict execute in the    *)
(* order of their submission, and nobody waits without one before it that  *)
(* uses an object of its own.                                              *)
THEOREM QueuesAreLine == HSpec => LineSpec
<1>1. HInit => HInv /\ Line!Init
  BY InitHInv DEF HInit, Init, Line!Init
<1> QED
  BY <1>1, NextHInv, PTL DEF HSpec, LineSpec, Line!Spec

(* A conflict set never names an object that nobody in front uses, and     *)
(* never leaves one out (parallel.ts:137-142, 286-297).                    *)
THEOREM WaitsForContended == HSpec => []ConflictsAreContention
<1>1. HInv => ConflictsAreContention
  BY DEF HInv
<1> QED
  BY <1>1, InitHInv, NextHInv, PTL DEF HSpec
=============================================================================
