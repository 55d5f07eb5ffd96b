-------------------------- MODULE TaskPipelineProofs --------------------------
(***************************************************************************)
(* The queues for any finite set of tasks and any number of slots.  First  *)
(* ParallelQueue alone: the count of its slots is exact, and it implements *)
(* the pool.  Then the execute queue with the build queue behind it: each  *)
(* still implements its pool, and the build queue runs its head.           *)
(***************************************************************************)
EXTENDS TaskPipeline, FiniteSetTheorems, SequenceTheorems, TLAPS

(* Lines are sequences in which nobody stands twice: the queues, and the   *)
(* blocks of tasks handed over in one synchronous stretch.                 *)
Lines(S) == {s \in Seq(S) : IsInjective(s)}

(* An enumeration of a finite set is a line over any set around it.        *)
LEMMA BlockIsLine ==
  ASSUME NEW S, NEW T, IsFiniteSet(T), T \subseteq S, NEW ts \in SetToSeqs(T)
  PROVE  ts \in Lines(S)
<1>1. Cardinality(T) \in Nat
  BY FS_CardinalityType
<1>2. /\ ts \in [1..Cardinality(T) -> S]
      /\ \A i, j \in 1..Cardinality(T) : i # j => ts[i] # ts[j]
  BY DEF SetToSeqs
<1>3. ts \in Seq(S) /\ DOMAIN ts = 1..Cardinality(T)
  BY <1>1, <1>2
<1> QED
  BY <1>2, <1>3 DEF Lines, IsInjective

(* The end of a line: it may be empty, and it has no members then.         *)
LEMMA EmptyLine ==
  ASSUME NEW S
  PROVE  <<>> \in Lines(S) /\ ToSet(<<>>) = {}
BY DEF Lines, IsInjective, ToSet

(* Serving the head of a line.                                             *)
LEMMA HeadLeavesLine ==
  ASSUME NEW S, NEW s \in Lines(S), s # <<>>
  PROVE  /\ Head(s) \in S /\ Head(s) \in ToSet(s)
         /\ Tail(s) \in Lines(S)
         /\ ToSet(Tail(s)) = ToSet(s) \ {Head(s)}
<1>1. /\ s \in Seq(S) /\ IsInjective(s)
      /\ Len(s) \in Nat \ {0} /\ DOMAIN s = 1..Len(s)
  BY DEF Lines
<1>2. /\ Head(s) = s[1] /\ Head(s) \in S
      /\ Tail(s) \in Seq(S)
      /\ DOMAIN Tail(s) = 1..(Len(s) - 1)
      /\ \A i \in 1..(Len(s) - 1) : Tail(s)[i] = s[i + 1]
  BY <1>1
<1>3. IsInjective(Tail(s))
  BY <1>1, <1>2 DEF IsInjective
<1>4. ToSet(Tail(s)) = ToSet(s) \ {Head(s)}
  <2>1. ASSUME NEW x \in ToSet(Tail(s)) PROVE x \in ToSet(s) \ {Head(s)}
    <3>1. PICK i \in 1..(Len(s) - 1) : x = s[i + 1]
      BY <1>2 DEF ToSet
    <3>2. i + 1 \in DOMAIN s /\ i + 1 # 1 /\ 1 \in DOMAIN s
      BY <1>1
    <3> QED
      BY <1>1, <1>2, <3>1, <3>2 DEF ToSet, IsInjective
  <2>2. ASSUME NEW x \in ToSet(s) \ {Head(s)} PROVE x \in ToSet(Tail(s))
    <3>1. PICK i \in 1..Len(s) : x = s[i] /\ i # 1
      BY <1>1, <1>2 DEF ToSet
    <3>2. i - 1 \in 1..(Len(s) - 1) /\ (i - 1) + 1 = i
      BY <1>1, <3>1
    <3> QED
      BY <1>2, <3>1, <3>2 DEF ToSet
  <2> QED
    BY <2>1, <2>2
<1> QED
  BY <1>1, <1>2, <1>3, <1>4 DEF Lines, ToSet

(* A block joins the end of a line that none of its members stands in.     *)
LEMMA BlockJoinsLine ==
  ASSUME NEW S, NEW s \in Lines(S), NEW t \in Lines(S), ToSet(s) \cap ToSet(t) = {}
  PROVE  /\ s \o t \in Lines(S)
         /\ ToSet(s \o t) = ToSet(s) \cup ToSet(t)
<1>1. /\ s \in Seq(S) /\ DOMAIN s = 1..Len(s) /\ Len(s) \in Nat /\ IsInjective(s)
      /\ t \in Seq(S) /\ DOMAIN t = 1..Len(t) /\ Len(t) \in Nat /\ IsInjective(t)
  BY DEF Lines
<1>2. /\ s \o t \in Seq(S)
      /\ DOMAIN (s \o t) = 1..(Len(s) + Len(t))
      /\ \A i \in 1..Len(s) : (s \o t)[i] = s[i]
      /\ \A i \in 1..Len(t) : (s \o t)[Len(s) + i] = t[i]
  BY <1>1
<1>3. \A i \in 1..(Len(s) + Len(t)) : i \in 1..Len(s) \/ \E k \in 1..Len(t) : i = Len(s) + k
  <2> SUFFICES ASSUME NEW i \in 1..(Len(s) + Len(t)), i \notin 1..Len(s)
               PROVE  \E k \in 1..Len(t) : i = Len(s) + k
    OBVIOUS
  <2>1. i - Len(s) \in 1..Len(t) /\ i = Len(s) + (i - Len(s))
    BY <1>1
  <2> QED
    BY <2>1
<1>4. ToSet(s \o t) = ToSet(s) \cup ToSet(t)
  <2>1. \A k \in 1..Len(t) : Len(s) + k \in 1..(Len(s) + Len(t))
    BY <1>1
  <2>2. \A i \in 1..Len(s) : i \in 1..(Len(s) + Len(t))
    BY <1>1
  <2>3. /\ \A x \in ToSet(s) : \E i \in 1..Len(s) : x = (s \o t)[i]
        /\ \A x \in ToSet(t) : \E k \in 1..Len(t) : x = (s \o t)[Len(s) + k]
    BY <1>1, <1>2 DEF ToSet
  <2>4. \A x \in ToSet(s) \cup ToSet(t) : \E i \in DOMAIN (s \o t) : x = (s \o t)[i]
    BY <1>2, <2>1, <2>2, <2>3
  <2>5. \A i \in DOMAIN (s \o t) : (s \o t)[i] \in ToSet(s) \cup ToSet(t)
    BY <1>1, <1>2, <1>3 DEF ToSet
  <2> QED
    BY <2>4, <2>5 DEF ToSet
<1>5. \A i \in 1..Len(s), k \in 1..Len(t) : s[i] # t[k]
  BY <1>1 DEF ToSet
<1>6. IsInjective(s \o t)
  <2> SUFFICES ASSUME NEW i \in 1..(Len(s) + Len(t)), NEW j \in 1..(Len(s) + Len(t)),
                      (s \o t)[i] = (s \o t)[j]
               PROVE  i = j
    BY <1>2 DEF IsInjective
  <2>1. CASE i \in 1..Len(s) /\ j \in 1..Len(s)
    BY <1>1, <1>2, <2>1 DEF IsInjective
  <2>2. CASE i \in 1..Len(s) /\ j \notin 1..Len(s)
    BY <1>2, <1>3, <1>5, <2>2
  <2>3. CASE i \notin 1..Len(s) /\ j \in 1..Len(s)
    BY <1>2, <1>3, <1>5, <2>3
  <2>4. CASE i \notin 1..Len(s) /\ j \notin 1..Len(s)
    <3>1. PICK k \in 1..Len(t), m \in 1..Len(t) : i = Len(s) + k /\ j = Len(s) + m
      BY <1>3, <2>4
    <3> QED
      BY <1>1, <1>2, <3>1 DEF IsInjective
  <2> QED
    BY <2>1, <2>2, <2>3, <2>4
<1> QED
  BY <1>2, <1>4, <1>6 DEF Lines

(* Cutting a line in two: as many members as places in front of the cut.   *)
LEMMA LineIsCut ==
  ASSUME NEW S, NEW s \in Lines(S), NEW n \in 0..Len(s)
  PROVE  /\ SubSeq(s, 1, n) \in Lines(S) /\ SubSeq(s, n + 1, Len(s)) \in Lines(S)
         /\ ToSet(SubSeq(s, 1, n)) \cap ToSet(SubSeq(s, n + 1, Len(s))) = {}
         /\ ToSet(SubSeq(s, 1, n)) \cup ToSet(SubSeq(s, n + 1, Len(s))) = ToSet(s)
         /\ IsFiniteSet(ToSet(SubSeq(s, 1, n)))
         /\ Cardinality(ToSet(SubSeq(s, 1, n))) = n
<1> DEFINE p == SubSeq(s, 1, n)
           q == SubSeq(s, n + 1, Len(s))
<1>1. s \in Seq(S) /\ DOMAIN s = 1..Len(s) /\ Len(s) \in Nat /\ IsInjective(s)
  BY DEF Lines
<1>2. p \in Seq(S) /\ DOMAIN p = 1..n /\ \A i \in 1..n : p[i] = s[i]
  BY <1>1
<1>3. /\ q \in Seq(S) /\ DOMAIN q = 1..(Len(s) - n)
      /\ \A i \in 1..(Len(s) - n) : q[i] = s[n + i]
  BY <1>1
<1>4. \A i \in 1..n : i \in 1..Len(s)
  BY <1>1
<1>5. \A i \in 1..(Len(s) - n) : n + i \in 1..Len(s) /\ n + i \notin 1..n
  BY <1>1
<1>6. \A i \in 1..Len(s) : i \in 1..n \/ \E k \in 1..(Len(s) - n) : i = n + k
  <2> SUFFICES ASSUME NEW i \in 1..Len(s), i \notin 1..n
               PROVE  \E k \in 1..(Len(s) - n) : i = n + k
    OBVIOUS
  <2>1. i - n \in 1..(Len(s) - n) /\ i = n + (i - n)
    BY <1>1
  <2> QED
    BY <2>1
<1> HIDE DEF p, q
<1>7. p \in Lines(S)
  BY <1>1, <1>2, <1>4 DEF Lines, IsInjective
<1>8. q \in Lines(S)
  <2>1. \A i, j \in 1..(Len(s) - n) : n + i = n + j => i = j
    BY <1>1
  <2> QED
    BY <1>1, <1>3, <1>5, <2>1 DEF Lines, IsInjective
<1>9. ToSet(p) \cap ToSet(q) = {}
  <2>1. \A i \in 1..n, k \in 1..(Len(s) - n) : s[i] # s[n + k]
    BY <1>1, <1>4, <1>5 DEF IsInjective
  <2>2. \A i \in 1..n, k \in 1..(Len(s) - n) : p[i] # q[k]
    BY <1>2, <1>3, <2>1
  <2> QED
    BY <1>2, <1>3, <2>2 DEF ToSet
<1>10. ToSet(p) \cup ToSet(q) = ToSet(s)
  <2>1. \A x \in ToSet(p) : \E i \in 1..n : x = s[i]
    BY <1>2 DEF ToSet
  <2>2. \A x \in ToSet(q) : \E k \in 1..(Len(s) - n) : x = s[n + k]
    BY <1>3 DEF ToSet
  <2>3. ToSet(p) \cup ToSet(q) \subseteq ToSet(s)
    BY <1>1, <1>4, <1>5, <2>1, <2>2 DEF ToSet
  <2>4. \A i \in 1..n : s[i] \in ToSet(p)
    BY <1>2 DEF ToSet
  <2>5. \A k \in 1..(Len(s) - n) : s[n + k] \in ToSet(q)
    BY <1>3 DEF ToSet
  <2>6. \A i \in 1..Len(s) : s[i] \in ToSet(p) \cup ToSet(q)
    BY <1>6, <2>4, <2>5
  <2> QED
    BY <1>1, <2>3, <2>6 DEF ToSet
<1>11. IsFiniteSet(ToSet(p)) /\ Cardinality(ToSet(p)) = n
  <2>1. p \in Bijection(1..n, ToSet(p))
    BY <1>2, <1>7 DEF Lines, ToSet, IsInjective, Bijection, Injection, Surjection
  <2>2. IsFiniteSet(1..n) /\ Cardinality(1..n) = n
    BY FS_Interval
  <2> QED
    BY <2>1, <2>2, FS_Bijection DEF ExistsBijection
<1> QED
  BY <1>7, <1>8, <1>9, <1>10, <1>11 DEF p, q

-----------------------------------------------------------------------------
(* SlotCount is inductive together with the types; that the started tasks  *)
(* can be counted at all has to be carried along.                          *)
Inv == TypeOK /\ SlotCount /\ IsFiniteSet(running)

LEMMA InitInv == Init => Inv
<1> SUFFICES ASSUME Init PROVE Inv
  OBVIOUS
<1>1. queue \in Lines(Tasks) /\ ToSet(queue) = {}
  BY EmptyLine DEF Init
<1>2. IsFiniteSet(running) /\ Cardinality(running) = 0
  BY FS_EmptySet DEF Init
<1> QED
  BY <1>1, <1>2, TaskCount DEF Init, Inv, TypeOK, SlotCount, Lines

(* The arithmetic of a block: its first tasks fill the free slots, and if  *)
(* some are left over there is no free slot any more.                      *)
LEMMA BlockFillsSlots ==
  ASSUME Inv, NEW ts \in Lines(Tasks)
  PROVE  /\ Len(ts) \in Nat /\ Starts(ts) \in 0..Len(ts)
         /\ activeTasks + Starts(ts) \in Nat /\ activeTasks + Starts(ts) <= maxTasks
         /\ Starts(ts) < Len(ts) => activeTasks + Starts(ts) = maxTasks
         /\ activeTasks = maxTasks => Starts(ts) = 0
<1>1. Len(ts) \in Nat /\ activeTasks \in Nat /\ maxTasks \in Nat /\ activeTasks <= maxTasks
  BY TaskCount DEF Inv, TypeOK, SlotCount, Lines
<1> QED
  BY <1>1 DEF Starts

LEMMA RunTasksInv ==
  ASSUME Inv, NEW ts \in Blocks, RunTasks(ts)
  PROVE  Inv'
<1> DEFINE first == StartedNow(ts)
           rest == SubSeq(ts, Starts(ts) + 1, Len(ts))
<1>1. ts \in Lines(Tasks)
  <2>1. PICK T \in SUBSET Tasks : ts \in SetToSeqs(T)
    BY DEF Blocks
  <2>2. IsFiniteSet(T)
    BY TaskCount, FS_Subset
  <2> QED
    BY <2>1, <2>2, BlockIsLine
<1>2. /\ Starts(ts) \in 0..Len(ts) /\ Len(ts) \in Nat
      /\ activeTasks + Starts(ts) \in Nat /\ activeTasks + Starts(ts) <= maxTasks
      /\ Starts(ts) < Len(ts) => activeTasks + Starts(ts) = maxTasks
      /\ activeTasks = maxTasks => Starts(ts) = 0
  BY <1>1, BlockFillsSlots
<1>3. /\ first \in Lines(Tasks) /\ rest \in Lines(Tasks)
      /\ ToSet(first) \cap ToSet(rest) = {}
      /\ ToSet(first) \cup ToSet(rest) = ToSet(ts)
      /\ IsFiniteSet(ToSet(first)) /\ Cardinality(ToSet(first)) = Starts(ts)
  BY <1>1, <1>2, LineIsCut DEF StartedNow
<1>4. /\ running' = running \cup ToSet(first) /\ queue' = queue \o rest
      /\ activeTasks' = activeTasks + Starts(ts)
      /\ ToSet(ts) \cap (running \cup ToSet(queue)) = {}
  BY DEF RunTasks
<1>5. queue \in Lines(Tasks) /\ activeTasks \in Nat /\ maxTasks \in Nat
  BY TaskCount DEF Inv, TypeOK, SlotCount, Lines
<1>6. queue' \in Lines(Tasks) /\ ToSet(queue') = ToSet(queue) \cup ToSet(rest)
  <2>1. ToSet(queue) \cap ToSet(rest) = {}
    BY <1>3, <1>4
  <2> QED
    BY <1>3, <1>4, <1>5, <2>1, BlockJoinsLine
<1>7. IsFiniteSet(running') /\ Cardinality(running') = activeTasks'
  <2>1. running \cap ToSet(first) = {}
    BY <1>3, <1>4
  <2>2. /\ IsFiniteSet(running \cup ToSet(first))
        /\ Cardinality(running \cup ToSet(first)) =
             Cardinality(running) + Starts(ts) - Cardinality(running \cap ToSet(first))
    BY <1>3, FS_Union DEF Inv
  <2>3. Cardinality(running \cap ToSet(first)) = 0
    BY <2>1, FS_EmptySet
  <2>4. Cardinality(running) = activeTasks
    BY DEF Inv, SlotCount
  <2>5. Cardinality(running \cup ToSet(first)) = activeTasks + Starts(ts)
    BY <1>2, <1>5, <2>2, <2>3, <2>4
  <2> QED
    BY <1>4, <2>2, <2>5
<1>8. running' \subseteq Tasks
  BY <1>3, <1>4 DEF Inv, TypeOK, Lines, ToSet
<1>9. queue' # <<>> => activeTasks' = maxTasks
  <2>1. CASE queue # <<>>
    BY <1>2, <1>4, <1>5, <2>1 DEF Inv, SlotCount
  <2>2. CASE queue = <<>> /\ Starts(ts) < Len(ts)
    BY <1>2, <1>4, <2>2
  <2>3. CASE queue = <<>> /\ Starts(ts) = Len(ts)
    <3>1. rest = <<>>
      BY <1>2, <2>3, SubSeqEmpty
    <3> QED
      BY <1>4, <2>3, <3>1, ConcatEmptySeq, EmptySeq
  <2> QED
    BY <1>2, <2>1, <2>2, <2>3
<1>10. ToSet(queue') \cap running' = {}
  BY <1>3, <1>4, <1>6 DEF Inv, SlotCount
<1> QED
  BY <1>2, <1>4, <1>6, <1>7, <1>8, <1>9, <1>10 DEF Inv, TypeOK, SlotCount, Lines

LEMMA FinishInv ==
  ASSUME Inv, NEW t \in Tasks, Finish(t)
  PROVE  Inv'
<1>1. /\ queue \in Lines(Tasks) /\ activeTasks \in Nat /\ maxTasks \in Nat
      /\ t \in running /\ IsFiniteSet(running) /\ activeTasks = Cardinality(running)
  BY TaskCount DEF Inv, TypeOK, SlotCount, Lines, Finish
<1>2. IsFiniteSet(running \ {t}) /\ Cardinality(running \ {t}) = activeTasks - 1
  BY <1>1, FS_RemoveElement
<1>3. Cardinality(running \ {t}) \in Nat
  BY <1>2, FS_CardinalityType
<1>4. CASE queue # <<>>
  <2>1. /\ running' = (running \ {t}) \cup {Head(queue)}
        /\ queue' = Tail(queue) /\ activeTasks' = activeTasks
    BY <1>4 DEF Finish
  <2>2. /\ Head(queue) \in Tasks /\ Head(queue) \in ToSet(queue)
        /\ Tail(queue) \in Lines(Tasks) /\ ToSet(Tail(queue)) = ToSet(queue) \ {Head(queue)}
    BY <1>1, <1>4, HeadLeavesLine
  <2>3. Head(queue) \notin running \ {t}
    BY <2>2 DEF Inv, SlotCount
  <2>4. IsFiniteSet(running') /\ Cardinality(running') = activeTasks
    <3>1. /\ IsFiniteSet((running \ {t}) \cup {Head(queue)})
          /\ Cardinality((running \ {t}) \cup {Head(queue)}) = (activeTasks - 1) + 1
      BY <1>2, <2>3, FS_AddElement
    <3> QED
      BY <1>1, <2>1, <3>1
  <2> QED
    BY <1>1, <1>4, <2>1, <2>2, <2>4 DEF Inv, TypeOK, SlotCount, Lines
<1>5. CASE queue = <<>>
  <2>1. running' = running \ {t} /\ activeTasks' = activeTasks - 1 /\ queue' = queue
    BY <1>5 DEF Finish
  <2> QED
    BY <1>1, <1>2, <1>3, <1>5, <2>1 DEF Inv, TypeOK, SlotCount
<1> QED
  BY <1>4, <1>5

LEMMA NextInv == Inv /\ [Next]_vars => Inv'
<1> SUFFICES ASSUME Inv, [Next]_vars PROVE Inv'
  OBVIOUS
<1>1. ASSUME NEW ts \in Blocks, RunTasks(ts) PROVE Inv'
  BY <1>1, RunTasksInv
<1>2. ASSUME NEW t \in Tasks, Finish(t) PROVE Inv'
  BY <1>2, FinishInv
<1>3. CASE UNCHANGED vars
  BY <1>3 DEF vars, Inv, TypeOK, SlotCount
<1> QED
  BY <1>1, <1>2, <1>3 DEF Next

LEMMA SpecInv == Spec => []Inv
BY InitInv, NextInv, PTL DEF Spec

(* The state of the queue is well formed: queue.ts never counts below zero *)
(* and never calls what is not a task.                                     *)
THEOREM TypeCorrect == Spec => []TypeOK
BY SpecInv, PTL DEF Inv

(* For any number of tasks and slots the count of #queue's slots is exact: *)
(* no more than maxTasks run, no slot idles while a task waits, and no     *)
(* task is queued or started twice.                                        *)
THEOREM SlotsCounted == Spec => []SlotCount
BY SpecInv, PTL DEF Inv
-----------------------------------------------------------------------------
(* The instance of TaskPool brings copies of the library's operators.      *)
LEMMA PoolOperators ==
  /\ \A S : Pool!Cardinality(S) = Cardinality(S)
  /\ \A S : Pool!SetToSeqs(S) = SetToSeqs(S)
  /\ \A s : Pool!ToSet(s) = ToSet(s)
<1>1. \A S : Pool!Cardinality(S) = Cardinality(S)
  BY Zenon DEF Pool!Cardinality, Cardinality
<1>2. \A S : Pool!SetToSeqs(S) = SetToSeqs(S)
  BY <1>1, Zenon DEF Pool!SetToSeqs, SetToSeqs
<1>3. \A s : Pool!ToSet(s) = ToSet(s)
  BY DEF Pool!ToSet, ToSet
<1> QED
  BY <1>1, <1>2, <1>3

(* The calls of one stretch are an arrival at the pool: if tasks wait      *)
(* there is no slot for the block, else the line is the block itself.      *)
LEMMA RunTasksArrives ==
  ASSUME Inv, NEW ts \in Blocks, RunTasks(ts)
  PROVE  Pool!Arrive(ts)
<1>1. ts \in Lines(Tasks)
  <2>1. PICK T \in SUBSET Tasks : ts \in SetToSeqs(T)
    BY DEF Blocks
  <2>2. IsFiniteSet(T)
    BY TaskCount, FS_Subset
  <2> QED
    BY <2>1, <2>2, BlockIsLine
<1>2. /\ Starts(ts) \in 0..Len(ts) /\ Len(ts) \in Nat
      /\ activeTasks = maxTasks => Starts(ts) = 0
  BY <1>1, BlockFillsSlots
<1>3. /\ queue \in Seq(Tasks) /\ ts \in Seq(Tasks) /\ activeTasks \in Nat /\ maxTasks \in Nat
      /\ Cardinality(running) = activeTasks
  BY <1>1, TaskCount DEF Inv, TypeOK, SlotCount, Lines
<1>4. /\ ToSet(ts) \cap (running \cup ToSet(queue)) = {}
      /\ running' = running \cup ToSet(SubSeq(ts, 1, Starts(ts)))
      /\ queue' = queue \o SubSeq(ts, Starts(ts) + 1, Len(ts))
  BY DEF RunTasks, StartedNow
<1>5. Pool!Dispatch(queue \o ts, running)
  <2>1. CASE queue = <<>>
    <3>1. queue \o ts = ts
      BY <1>3, <2>1, ConcatEmptySeq
    <3>2. Pool!Admitted(ts, running) = Starts(ts)
      BY <1>3, PoolOperators DEF Pool!Admitted, Starts
    <3>3. queue' = SubSeq(ts, Starts(ts) + 1, Len(ts))
      <4>1. SubSeq(ts, Starts(ts) + 1, Len(ts)) \in Seq(Tasks)
        BY <1>1, <1>2, LineIsCut DEF Lines
      <4> QED
        BY <1>4, <2>1, <4>1, ConcatEmptySeq
    <3> QED
      BY <1>4, <3>1, <3>2, <3>3, PoolOperators DEF Pool!Dispatch
  <2>2. CASE queue # <<>>
    <3>1. activeTasks = maxTasks /\ Starts(ts) = 0 /\ Len(queue) > 0
      BY <1>2, <1>3, <2>2, EmptySeq DEF Inv, SlotCount
    <3>2. queue \o ts \in Seq(Tasks) /\ Len(queue \o ts) > 0
      BY <1>2, <1>3, <3>1, ConcatProperties
    <3>3. Pool!Admitted(queue \o ts, running) = 0
      BY <1>3, <3>1, <3>2, PoolOperators DEF Pool!Admitted
    <3>4. SubSeq(ts, 0 + 1, Len(ts)) = ts
      BY <1>3, SubSeqFull
    <3>5. SubSeq(queue \o ts, 0 + 1, Len(queue \o ts)) = queue \o ts
      BY <3>2, SubSeqFull
    <3>6. /\ ToSet(SubSeq(ts, 1, 0)) = {} /\ ToSet(SubSeq(queue \o ts, 1, 0)) = {}
      <4>1. SubSeq(ts, 1, 0) = <<>> /\ SubSeq(queue \o ts, 1, 0) = <<>>
        BY SubSeqEmpty
      <4> QED
        BY <4>1, EmptyLine
    <3> QED
      BY <1>4, <3>1, <3>3, <3>4, <3>5, <3>6, PoolOperators DEF Pool!Dispatch
  <2> QED
    BY <2>1, <2>2
<1> QED
  BY <1>4, <1>5, PoolOperators DEF Pool!Arrive

(* The slot that is handed on is the one the pool gives to the first in    *)
(* line.                                                                   *)
LEMMA FinishDeparts ==
  ASSUME Inv, NEW t \in Tasks, Finish(t)
  PROVE  Pool!Depart(t)
<1>1. /\ queue \in Lines(Tasks) /\ queue \in Seq(Tasks) /\ Len(queue) \in Nat
      /\ activeTasks \in Nat /\ maxTasks \in Nat
      /\ t \in running /\ IsFiniteSet(running) /\ activeTasks = Cardinality(running)
  BY TaskCount DEF Inv, TypeOK, SlotCount, Lines, Finish
<1>2. Cardinality(running \ {t}) = activeTasks - 1
  BY <1>1, FS_RemoveElement
<1>3. CASE queue # <<>>
  <2>1. /\ running' = (running \ {t}) \cup {Head(queue)} /\ queue' = Tail(queue)
        /\ activeTasks = maxTasks /\ Len(queue) >= 1
    BY <1>1, <1>3, EmptySeq DEF Finish, Inv, SlotCount
  <2>2. Pool!Admitted(queue, running \ {t}) = 1
    <3>1. maxTasks - Cardinality(running \ {t}) = 1
      BY <1>1, <1>2, <2>1
    <3>2. Pool!Admitted(queue, running \ {t}) = IF Len(queue) <= 1 THEN Len(queue) ELSE 1
      BY <3>1, PoolOperators DEF Pool!Admitted
    <3> QED
      BY <1>1, <2>1, <3>2
  <2>3. ToSet(SubSeq(queue, 1, 1)) = {Head(queue)}
    <3>1. /\ DOMAIN SubSeq(queue, 1, 1) = {1}
          /\ SubSeq(queue, 1, 1)[1] = Head(queue)
      BY <1>1, <2>1
    <3> QED
      BY <3>1 DEF ToSet
  <2>4. SubSeq(queue, 1 + 1, Len(queue)) = Tail(queue)
    BY <1>1, <1>3, TailIsSubSeq
  <2> QED
    BY <1>1, <2>1, <2>2, <2>3, <2>4, PoolOperators DEF Pool!Depart, Pool!Dispatch
<1>4. CASE queue = <<>>
  <2>1. running' = running \ {t} /\ queue' = <<>> /\ Len(queue) = 0
    BY <1>1, <1>4 DEF Finish
  <2>2. activeTasks <= maxTasks
    BY DEF Inv, SlotCount
  <2>3. Pool!Admitted(queue, running \ {t}) = 0
    BY <1>1, <1>2, <2>1, <2>2, PoolOperators DEF Pool!Admitted
  <2>4. SubSeq(queue, 1, 0) = <<>> /\ SubSeq(queue, 0 + 1, Len(queue)) = <<>>
    BY <2>1, SubSeqEmpty
  <2> QED
    BY <1>1, <2>1, <2>3, <2>4, EmptyLine, PoolOperators DEF Pool!Depart, Pool!Dispatch
<1> QED
  BY <1>3, <1>4

LEMMA PoolStep ==
  ASSUME Inv, [Next]_vars
  PROVE  [Pool!Next]_(Pool!vars)
<1>1. ASSUME NEW ts \in Blocks, RunTasks(ts) PROVE Pool!Next
  <2>1. Pool!Arrive(ts) /\ ts \in Pool!Blocks
    BY <1>1, RunTasksArrives, PoolOperators DEF Blocks, Pool!Blocks
  <2> QED
    BY <2>1 DEF Pool!Next
<1>2. ASSUME NEW t \in Tasks, Finish(t) PROVE Pool!Next
  BY <1>2, FinishDeparts DEF Pool!Next
<1>3. CASE UNCHANGED vars
  BY <1>3 DEF vars, Pool!vars
<1> QED
  BY <1>1, <1>2, <1>3 DEF Next

(* The promise queue of queue.ts is a pool of maxTasks slots with a single *)
(* line in front of it: it starts tasks in the order in which they were    *)
(* handed over and leaves no slot free while one of them waits.            *)
THEOREM ImplementsPool == Spec => PoolSpec
<1>1. Init => Pool!Init
  BY DEF Init, Pool!Init
<1>2. Inv /\ [Next]_vars => [Pool!Next]_(Pool!vars)
  BY PoolStep
<1> QED
  BY <1>1, <1>2, SpecInv, PTL DEF Spec, PoolSpec, Pool!Spec

-----------------------------------------------------------------------------
(* The instances bring copies of the library's operators.                  *)
LEMMA BuildOperators ==
  /\ \A s : Build!Pool!ToSet(s) = ToSet(s) /\ Build!ToSet(s) = ToSet(s)
  /\ \A S : Build!Pool!Cardinality(S) = Cardinality(S) /\ Build!Cardinality(S) = Cardinality(S)
  /\ \A S : Build!Pool!SetToSeqs(S) = SetToSeqs(S) /\ Build!SetToSeqs(S) = SetToSeqs(S)
<1>1. \A s : Build!Pool!ToSet(s) = ToSet(s) /\ Build!ToSet(s) = ToSet(s)
  BY DEF Build!Pool!ToSet, Build!ToSet, ToSet
<1>2. \A S : Build!Pool!Cardinality(S) = Cardinality(S) /\ Build!Cardinality(S) = Cardinality(S)
  BY Zenon DEF Build!Pool!Cardinality, Build!Cardinality, Cardinality
<1>3. \A S : Build!Pool!SetToSeqs(S) = SetToSeqs(S) /\ Build!SetToSeqs(S) = SetToSeqs(S)
  BY <1>2, Zenon DEF Build!Pool!SetToSeqs, Build!SetToSeqs, SetToSeqs
<1> QED
  BY <1>1, <1>2, <1>3

(* A line of tasks, in one stretch, is a block unless it is empty.         *)
LEMMA LineIsBlock ==
  ASSUME NEW ts \in Lines(Tasks), ts # <<>>
  PROVE  ts \in Build!Pool!Blocks
<1>1. ts \in Seq(Tasks) /\ Len(ts) \in Nat /\ IsInjective(ts) /\ DOMAIN ts = 1..Len(ts)
  BY DEF Lines
<1>2. SubSeq(ts, 1, Len(ts)) = ts
  BY <1>1, SubSeqFull
<1>3. Cardinality(ToSet(ts)) = Len(ts)
  <2>1. Len(ts) \in 0..Len(ts)
    BY <1>1
  <2>2. Cardinality(ToSet(SubSeq(ts, 1, Len(ts)))) = Len(ts)
    BY <2>1, LineIsCut
  <2> QED
    BY <1>2, <2>2
<1>4. /\ ToSet(ts) \in (SUBSET Tasks) \ {{}}
      /\ ts \in [1..Len(ts) -> ToSet(ts)]
  <2>1. Len(ts) > 0
    BY <1>1, EmptySeq
  <2>2. ts[1] \in ToSet(ts) /\ ToSet(ts) \subseteq Tasks
    BY <1>1, <2>1 DEF ToSet
  <2>3. \A i \in 1..Len(ts) : ts[i] \in ToSet(ts)
    BY <1>1 DEF ToSet
  <2> QED
    BY <1>1, <2>2, <2>3
<1>5. ts \in SetToSeqs(ToSet(ts))
  BY <1>1, <1>3, <1>4 DEF SetToSeqs, IsInjective
<1> QED
  BY <1>4, <1>5, BuildOperators DEF Build!Pool!Blocks

BuildInv ==
  /\ buildQueue \in Lines(Tasks)
  /\ building = IF buildQueue = <<>> THEN {} ELSE {Head(buildQueue)}

LEMMA BuildRunsInv ==
  ASSUME BuildInv, NEW ts \in Lines(Tasks), Build!RunTasks(ts)
  PROVE  BuildInv' /\ [Build!Pool!Next]_(Build!Pool!vars)
<1> DEFINE w == IF buildQueue = <<>> THEN <<>> ELSE Tail(buildQueue)
<1>1. /\ ToSet(ts) \cap (building \cup ToSet(buildQueue)) = {}
      /\ buildQueue' = buildQueue \o ts
      /\ building' = IF Len(buildQueue) = 0 /\ Len(ts) > 0 THEN building \cup {ts[1]} ELSE building
  BY BuildOperators DEF Build!RunTasks
<1>2. /\ buildQueue \in Seq(Tasks) /\ Len(buildQueue) \in Nat
      /\ ts \in Seq(Tasks) /\ Len(ts) \in Nat
      /\ buildQueue = <<>> <=> Len(buildQueue) = 0
      /\ ts = <<>> <=> Len(ts) = 0
  BY EmptySeq DEF BuildInv, Lines
<1>3. buildQueue' \in Lines(Tasks)
  BY <1>1, BlockJoinsLine DEF BuildInv
<1>4. CASE ts = <<>>
  <2>1. buildQueue' = buildQueue /\ building' = building
    BY <1>1, <1>2, <1>4, ConcatEmptySeq
  <2> QED
    BY <2>1 DEF BuildInv, Build!Pool!vars
<1>5. CASE ts # <<>> /\ buildQueue = <<>>
  <2>1. buildQueue' = ts /\ building = {} /\ building' = {ts[1]} /\ ts[1] = Head(ts)
    BY <1>1, <1>2, <1>5, ConcatEmptySeq DEF BuildInv
  <2>2. Build!Pool!Admitted(ts, {}) = 1
    BY <1>2, <1>5, FS_EmptySet, BuildOperators DEF Build!Pool!Admitted
  <2>3. ToSet(SubSeq(ts, 1, 1)) = {ts[1]} /\ SubSeq(ts, 2, Len(ts)) = Tail(ts)
    <3>1. DOMAIN SubSeq(ts, 1, 1) = {1} /\ SubSeq(ts, 1, 1)[1] = ts[1]
      BY <1>2, <1>5
    <3> QED
      BY <1>2, <1>5, <3>1, TailIsSubSeq DEF ToSet
  <2>4. Build!Pool!Dispatch(ts, {})
    BY <1>2, <1>5, <2>1, <2>2, <2>3, BuildOperators DEF Build!Pool!Dispatch
  <2>5. w \o ts = ts
    BY <1>2, <1>5, ConcatEmptySeq
  <2>6. Build!Pool!Arrive(ts)
    <3>1. ToSet(ts) \cap (building \cup ToSet(w)) = {}
      BY <1>1, <1>5
    <3> QED
      BY <2>1, <2>4, <2>5, <3>1, BuildOperators DEF Build!Pool!Arrive
  <2> QED
    BY <1>3, <1>5, <2>1, <2>6, LineIsBlock DEF BuildInv, Build!Pool!Next
<1>6. CASE ts # <<>> /\ buildQueue # <<>>
  <2>1. /\ building = {Head(buildQueue)} /\ building' = building
        /\ Tail(buildQueue) \in Seq(Tasks)
    BY <1>1, <1>2, <1>6 DEF BuildInv
  <2>2. /\ buildQueue' # <<>> /\ Head(buildQueue') = Head(buildQueue)
        /\ Tail(buildQueue') = Tail(buildQueue) \o ts
    BY <1>1, <1>2, <1>6, <2>1
  <2>3. w \o ts \in Seq(Tasks) /\ Len(w \o ts) > 0
    BY <1>2, <1>6, <2>1, ConcatProperties
  <2>4. Build!Pool!Admitted(w \o ts, building) = 0
    <3>1. Cardinality(building) = 1
      BY <2>1, FS_Singleton
    <3>2. Build!Pool!Admitted(w \o ts, building) = IF Len(w \o ts) <= 1 - 1 THEN Len(w \o ts) ELSE 1 - 1
      BY <3>1, BuildOperators DEF Build!Pool!Admitted
    <3> QED
      BY <2>3, <3>2
  <2>5. SubSeq(w \o ts, 0 + 1, Len(w \o ts)) = w \o ts
    BY <2>3, SubSeqFull
  <2>6. ToSet(SubSeq(w \o ts, 1, 0)) = {}
    <3>1. SubSeq(w \o ts, 1, 0) = <<>>
      BY SubSeqEmpty
    <3> QED
      BY <3>1, EmptyLine
  <2>7. Build!Pool!Dispatch(w \o ts, building)
    BY <1>6, <2>1, <2>2, <2>4, <2>5, <2>6, BuildOperators DEF Build!Pool!Dispatch
  <2>8. ToSet(ts) \cap (building \cup ToSet(w)) = {}
    BY <1>1, <1>6, HeadLeavesLine DEF BuildInv
  <2>9. Build!Pool!Arrive(ts)
    BY <2>7, <2>8, BuildOperators DEF Build!Pool!Arrive
  <2> QED
    BY <1>3, <1>6, <2>1, <2>2, <2>9, LineIsBlock DEF BuildInv, Build!Pool!Next
<1> QED
  BY <1>4, <1>5, <1>6

LEMMA BuildFinishInv ==
  ASSUME BuildInv, NEW t \in Tasks, Build!Finish(t)
  PROVE  BuildInv' /\ Build!Pool!Depart(t)
<1> DEFINE w == IF buildQueue = <<>> THEN <<>> ELSE Tail(buildQueue)
<1>1. /\ buildQueue # <<>> /\ building = {t} /\ t = Head(buildQueue)
      /\ buildQueue' = Tail(buildQueue)
      /\ building' = {} \cup (IF Len(buildQueue) > 1 THEN {buildQueue[2]} ELSE {})
  BY DEF Build!Finish, BuildInv
<1>2. /\ buildQueue \in Seq(Tasks) /\ Len(buildQueue) \in Nat \ {0}
      /\ Tail(buildQueue) \in Lines(Tasks) /\ Tail(buildQueue) \in Seq(Tasks)
      /\ Len(Tail(buildQueue)) = Len(buildQueue) - 1
  BY <1>1, EmptySeq, HeadLeavesLine DEF BuildInv, Lines
<1>3. CASE Len(buildQueue) = 1
  <2>1. Tail(buildQueue) = <<>> /\ building' = {}
    BY <1>1, <1>2, <1>3, EmptySeq
  <2>2. Build!Pool!Admitted(<<>>, {}) = 0
    BY FS_EmptySet, BuildOperators DEF Build!Pool!Admitted
  <2>3. SubSeq(<<>>, 1, 0) = <<>> /\ SubSeq(<<>>, 0 + 1, Len(<<>>)) = <<>>
    BY SubSeqEmpty
  <2>4. Build!Pool!Dispatch(<<>>, {})
    BY <1>1, <2>1, <2>2, <2>3, EmptyLine, BuildOperators DEF Build!Pool!Dispatch
  <2> QED
    BY <1>1, <1>2, <2>1, <2>4 DEF Build!Pool!Depart, BuildInv
<1>4. CASE Len(buildQueue) > 1
  <2>1. /\ Tail(buildQueue) # <<>> /\ building' = {Head(Tail(buildQueue))}
        /\ Len(Tail(buildQueue)) >= 1
    <3>1. Tail(buildQueue) # <<>>
      <4> SUFFICES ASSUME Tail(buildQueue) = <<>> PROVE FALSE
        OBVIOUS
      <4>1. Len(Tail(buildQueue)) = 0
        BY EmptySeq
      <4> QED
        BY <4>1, <1>2, <1>4
    <3>2. Head(Tail(buildQueue)) = buildQueue[2]
      BY <1>2, <1>4
    <3> QED
      BY <1>1, <1>2, <1>4, <3>1, <3>2
  <2>2. Build!Pool!Admitted(w, {}) = 1
    BY <1>1, <1>2, <2>1, FS_EmptySet, BuildOperators DEF Build!Pool!Admitted
  <2>3. ToSet(SubSeq(w, 1, 1)) = {Head(w)} /\ SubSeq(w, 1 + 1, Len(w)) = Tail(w)
    <3>1. DOMAIN SubSeq(w, 1, 1) = {1} /\ SubSeq(w, 1, 1)[1] = Head(w)
      BY <1>1, <1>2, <2>1
    <3> QED
      BY <1>1, <1>2, <2>1, <3>1, TailIsSubSeq DEF ToSet
  <2>4. Build!Pool!Dispatch(w, {})
    BY <1>1, <2>1, <2>2, <2>3, BuildOperators DEF Build!Pool!Dispatch
  <2> QED
    BY <1>1, <1>2, <2>1, <2>4 DEF Build!Pool!Depart, BuildInv
<1> QED
  BY <1>2, <1>3, <1>4

(* Both queues: the execute queue takes no notice of the build queue, and  *)
(* what it starts comes to the build queue as a line.                      *)
PipelineInv == Inv /\ BuildInv

LEMMA InitPipelineInv == PipelineInit => PipelineInv
<1> SUFFICES ASSUME PipelineInit PROVE PipelineInv
  OBVIOUS
<1>1. Init /\ buildQueue = <<>> /\ building = {}
  BY DEF PipelineInit, Build!Init
<1> QED
  BY <1>1, InitInv, EmptyLine DEF PipelineInv, BuildInv

LEMMA NextPipelineInv ==
  ASSUME PipelineInv, [PipelineNext]_pipelineVars
  PROVE  /\ PipelineInv' /\ [Next]_vars
         /\ [Build!Pool!Next]_(Build!Pool!vars)
<1> USE DEF PipelineInv
<1>1. ASSUME NEW ts \in Blocks, ExecuteAll(ts)
      PROVE  PipelineInv' /\ [Next]_vars /\ [Build!Pool!Next]_(Build!Pool!vars)
  <2>1. RunTasks(ts) /\ Build!RunTasks(StartedNow(ts))
    BY <1>1 DEF ExecuteAll
  <2>2. StartedNow(ts) \in Lines(Tasks)
    <3>1. PICK T \in SUBSET Tasks : ts \in SetToSeqs(T)
      BY DEF Blocks
    <3>2. ts \in Lines(Tasks)
      BY <3>1, TaskCount, FS_Subset, BlockIsLine
    <3> QED
      BY <3>2, BlockFillsSlots, LineIsCut DEF StartedNow
  <2>3. [Next]_vars
    BY <2>1 DEF Next
  <2> QED
    BY <2>1, <2>2, <2>3, NextInv, BuildRunsInv
<1>2. ASSUME NEW t \in Tasks, BuildEnds(t)
      PROVE  PipelineInv' /\ [Next]_vars /\ [Build!Pool!Next]_(Build!Pool!vars)
  <2>1. Build!Finish(t) /\ UNCHANGED vars
    BY <1>2 DEF BuildEnds
  <2>2. Build!Pool!Next
    BY <2>1, BuildFinishInv DEF Build!Pool!Next
  <2> QED
    BY <2>1, <2>2, NextInv, BuildFinishInv
<1>3. ASSUME NEW t \in Tasks, Ends(t)
      PROVE  PipelineInv' /\ [Next]_vars /\ [Build!Pool!Next]_(Build!Pool!vars)
  <2>1. Finish(t) /\ Build!RunTasks(IF queue = <<>> THEN <<>> ELSE <<Head(queue)>>)
    BY <1>3 DEF Ends
  <2>2. (IF queue = <<>> THEN <<>> ELSE <<Head(queue)>>) \in Lines(Tasks)
    <3>1. CASE queue = <<>>
      BY <3>1, EmptyLine
    <3>2. CASE queue # <<>>
      <4>1. Head(queue) \in Tasks
        BY <3>2, HeadLeavesLine DEF Inv, TypeOK, SlotCount, Lines
      <4>2. <<Head(queue)>> \in Seq(Tasks) /\ DOMAIN <<Head(queue)>> = {1}
        BY <4>1
      <4> QED
        BY <3>2, <4>2 DEF Lines, IsInjective
    <3> QED
      BY <3>1, <3>2
  <2>3. [Next]_vars
    BY <2>1 DEF Next
  <2> QED
    BY <2>1, <2>2, <2>3, NextInv, BuildRunsInv
<1>4. CASE UNCHANGED pipelineVars
  <2>1. UNCHANGED <<vars, buildQueue, building>>
    BY <1>4 DEF pipelineVars
  <2> QED
    BY <2>1, NextInv DEF BuildInv, Build!Pool!vars
<1> QED
  BY <1>1, <1>2, <1>3, <1>4 DEF PipelineNext

LEMMA PipelineSpecInv == PipelineSpec => []PipelineInv
<1>1. PipelineInv /\ [PipelineNext]_pipelineVars => PipelineInv'
  BY NextPipelineInv
<1> QED
  BY <1>1, InitPipelineInv, PTL DEF PipelineSpec

(* The shift of a finally callback (queue.ts:12) removes its own task:     *)
(* exactly the head of the build queue runs, whatever order the execute    *)
(* queue starts its tasks in.                                              *)
THEOREM HeadBuilds == PipelineSpec => []OnlyHeadBuilds
<1>1. PipelineInv => OnlyHeadBuilds
  <2> SUFFICES ASSUME PipelineInv PROVE OnlyHeadBuilds
    OBVIOUS
  <2>1. /\ buildQueue \in Seq(Tasks) /\ IsInjective(buildQueue)
        /\ building = IF buildQueue = <<>> THEN {} ELSE {Head(buildQueue)}
    BY DEF PipelineInv, BuildInv, Lines
  <2>2. building = (IF buildQueue = <<>> THEN {} ELSE {buildQueue[1]})
    BY <2>1
  <2>3. building \subseteq ToSet(buildQueue)
    BY <2>1, HeadLeavesLine DEF PipelineInv, BuildInv
  <2>4. Build!IsInjective(buildQueue)
    BY <2>1 DEF Build!IsInjective, IsInjective
  <2> QED
    BY <2>1, <2>2, <2>3, <2>4, BuildOperators DEF OnlyHeadBuilds, Build!TypeOK, Build!OnlyHeadRuns
<1> QED
  BY <1>1, PipelineSpecInv, PTL

(* SerialQueue as the executor uses it (parallel.ts:196) implements a pool *)
(* of one slot, and ParallelQueue in front of it is not disturbed.         *)
THEOREM BuildQueueIsPool == PipelineSpec => BuildPoolSpec
<1>1. PipelineInit => Build!Pool!Init
  BY DEF PipelineInit, Build!Init, Build!Pool!Init
<1>2. PipelineInv /\ [PipelineNext]_pipelineVars => [Build!Pool!Next]_(Build!Pool!vars)
  BY NextPipelineInv
<1> QED
  BY <1>1, <1>2, PipelineSpecInv, PTL DEF PipelineSpec, BuildPoolSpec, Build!PoolSpec, Build!Pool!Spec

(* And the execute queue (queue.ts:24-49) implements its pool while its    *)
(* tasks push onto the build queue from within runTask and the finally     *)
(* callback: no push reenters the queue that is being served.              *)
THEOREM ExecuteQueueIsPool == PipelineSpec => PoolSpec
<1>1. PipelineInit => Init
  BY DEF PipelineInit
<1>2. PipelineInv /\ [PipelineNext]_pipelineVars => [Next]_vars
  BY NextPipelineInv
<1> QED
  BY <1>1, <1>2, PipelineSpecInv, ImplementsPool, PTL DEF PipelineSpec, Spec
=============================================================================
