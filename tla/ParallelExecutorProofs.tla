----------------------- MODULE ParallelExecutorProofs -----------------------
(***************************************************************************)
(* The executor for any finite set of transactions, any objects and any    *)
(* pool size: it implements its parts (the object queues, the pipeline of  *)
(* its two task queues and the cache lock), whose theorems hold of it for  *)
(* that reason, and keeps the object cache in step with the chain.         *)
(***************************************************************************)
EXTENDS ParallelExecutor, FiniteSetTheorems, TLAPS

(* The tasks of the execute queue that are past their build.               *)
PastBuild == {"built", "sent", "failed", "failedLock", "ended", "released"}

Built == {t \in Txs : stage[t] \in PastBuild}

(* What is cited of the object queues does not speak of their history.     *)
Holders == INSTANCE ObjectQueuesHistoryProofs WITH ahead <- {}
Pipeline == INSTANCE TaskPipelineProofs
              WITH Tasks <- Txs, maxTasks <- MaxPoolSize, queue <- executeQueue,
                   running <- executing, built <- Built

-----------------------------------------------------------------------------
(* The object queues.                                                      *)
LEMMA SubmitsAcquire ==
  ASSUME NEW t \in Txs, NEW S \in SUBSET Objects, Objs!Acquire(t, S)
  PROVE  Holders!Acquire(t, S)
BY DEF Holders!Acquire, Objs!Acquire, Holders!Taken, Objs!Taken, Holders!Join, Objs!Join

LEMMA ReleasesRelease ==
  ASSUME NEW t \in Txs, Objs!Release(t)
  PROVE  Holders!Release(t)
BY DEF Holders!Release, Objs!Release, Holders!Ready, Objs!Ready, Holders!Handed, Objs!Handed,
       Holders!Shift, Objs!Shift, Holders!Waited, Objs!Waited

(* Only the submission and the release of a transaction touch the queues.  *)
LEMMA ObjectStep ==
  ASSUME [Next]_vars
  PROVE  \/ \E t \in Txs, S \in SUBSET Objects : Submit(t, S) /\ Objs!Acquire(t, S)
         \/ \E t \in Txs : Release(t) /\ Objs!Release(t)
         \/ UNCHANGED queueVars
<1>1. ASSUME NEW t \in Txs, Step(t), ~ Release(t) PROVE UNCHANGED queueVars
  BY <1>1 DEF Step, BuildFails, PassLock, Refill, TakeCoin, Resolve, Send, SendFails, Reply,
              Catch, Finish, UpdateCache
<1>2. ASSUME NEW t \in Txs, Index(t) PROVE UNCHANGED queueVars
  BY <1>2 DEF Index
<1>3. ASSUME NEW c \in Calls, UpdateEnds(c) PROVE UNCHANGED queueVars
  BY <1>3 DEF UpdateEnds
<1>4. ASSUME NEW kind \in ApiCalls, ApiCall(kind) PROVE UNCHANGED queueVars
  BY <1>4 DEF ApiCall
<1>5. CASE Terminated \/ UNCHANGED vars
  BY <1>5 DEF Terminated, vars
<1>6. ASSUME NEW t \in Txs, NEW S \in SUBSET Objects, Submit(t, S) PROVE Objs!Acquire(t, S)
  BY <1>6 DEF Submit
<1>7. ASSUME NEW t \in Txs, Release(t) PROVE Objs!Release(t)
  BY <1>7 DEF Release
<1> QED
  BY <1>1, <1>2, <1>3, <1>4, <1>5, <1>6, <1>7 DEF Next

LEMMA HoldersStep ==
  ASSUME Holders!Inv, [Next]_vars
  PROVE  Holders!Inv' /\ [Objs!Next]_(Objs!vars)
<1>1. CASE \E t \in Txs, S \in SUBSET Objects : Objs!Acquire(t, S)
  BY <1>1, SubmitsAcquire, Holders!AcquireInv DEF Objs!Next
<1>2. CASE \E t \in Txs : Objs!Release(t)
  BY <1>2, ReleasesRelease, Holders!ReleaseInv DEF Objs!Next
<1>3. CASE UNCHANGED queueVars
  <2>1. [Holders!Next]_(Holders!vars)
    BY <1>3 DEF queueVars, Holders!vars
  <2> QED
    BY <1>3, <2>1, Holders!NextInv DEF queueVars, Objs!vars
<1> QED
  BY <1>1, <1>2, <1>3, ObjectStep

-----------------------------------------------------------------------------
(* The cache lock.                                                         *)
LEMMA LockStep == 
  ASSUME [Next]_vars
  PROVE  [Lock!Next]_(Lock!vars)
<1>1. ASSUME NEW t \in Txs, NEW kind, NEW from, NEW wait, NEW to,
             UpdateCache(t, kind, from, wait, to),
             <<t, kind>> \in Calls
      PROVE  Lock!Next
  BY <1>1 DEF UpdateCache, Lock!Next
<1>2. \A t \in Txs : {<<t, "sync">>, <<t, "refill">>, <<t, "error">>} \subseteq Calls
  BY DEF Calls
<1>3. ASSUME NEW t \in Txs, Step(t) PROVE [Lock!Next]_(Lock!vars)
  <2>1. CASE PassLock(t) \/ Refill(t) \/ Catch(t)
    BY <1>1, <1>2, <2>1 DEF PassLock, Refill, Catch
  <2>2. CASE ~ (PassLock(t) \/ Refill(t) \/ Catch(t))
    BY <1>3, <2>2 DEF Step, BuildFails, TakeCoin, Resolve, Send, SendFails, Reply, Release, Finish,
                      lockVars, Lock!vars
  <2> QED
    BY <2>1, <2>2
<1>4. ASSUME NEW t \in Txs, Index(t) \/ \E S \in SUBSET Objects : Submit(t, S)
      PROVE  UNCHANGED Lock!vars
  BY <1>4 DEF Index, Submit, lockVars, Lock!vars
<1>5. ASSUME NEW c \in Calls, UpdateEnds(c) PROVE Lock!Next
  BY <1>5 DEF UpdateEnds, Lock!Next
<1>6. ASSUME NEW kind \in ApiCalls, ApiCall(kind) PROVE Lock!Next
  <2>1. <<Api, kind>> \in Calls
    BY DEF Calls
  <2> QED
    BY <1>6, <2>1 DEF ApiCall, Lock!Next
<1>7. CASE Terminated \/ UNCHANGED vars
  BY <1>7 DEF Terminated, vars, lockVars, Lock!vars
<1> QED
  BY <1>3, <1>4, <1>5, <1>6, <1>7 DEF Next

(* That a sleeper has not been woken as well is part of the invariant: a   *)
(* call that waits is not called again.                                    *)
LockInv ==
  SleepersHaveUpdate /\ updating \subseteq Calls /\ awaited \in [Calls -> Calls \cup {NoLock}]

LEMMA InitLock == Lock!Init => LockInv
BY DEF Lock!Init, LockInv, SleepersHaveUpdate, Lock!SleepersHaveUpdate

LEMMA NextLock ==
  ASSUME LockInv, [Lock!Next]_(Lock!vars)
  PROVE  LockInv'
<1> USE DEF LockInv, SleepersHaveUpdate, Lock!SleepersHaveUpdate
<1>1. ASSUME NEW c \in Calls, Lock!CallEnters(c) PROVE LockInv'
  BY <1>1 DEF Lock!CallEnters, Lock!Enter
<1>2. ASSUME NEW c \in Calls, Lock!CallWaits(c) PROVE LockInv'
  BY <1>2 DEF Lock!CallWaits, Lock!Waiting
<1>3. ASSUME NEW c \in Calls, Lock!Resume(c) PROVE LockInv'
  BY <1>3 DEF Lock!Resume, Lock!Enter
<1>4. ASSUME NEW c \in Calls, NEW ok \in BOOLEAN, Lock!Settle(c, ok) PROVE LockInv'
  BY <1>4 DEF Lock!Settle
<1>5. CASE UNCHANGED Lock!vars
  BY <1>5 DEF Lock!vars
<1> QED
  BY <1>1, <1>2, <1>3, <1>4, <1>5 DEF Lock!Next

-----------------------------------------------------------------------------
(* The pipeline of the two task queues.                                    *)
PipelineInv == Pipeline!PipelineInv

LEMMA PipelineOperators ==
  /\ \A s : Pipeline!ToSet(s) = ToSet(s) /\ Pipeline!Build!ToSet(s) = ToSet(s)
           /\ Slots!ToSet(s) = ToSet(s) /\ Build!ToSet(s) = ToSet(s)
  /\ \A S : Pipeline!SetToSeqs(S) = SetToSeqs(S) /\ Pipeline!Build!Pool!SetToSeqs(S) = SetToSeqs(S)
  /\ \A S : Pipeline!IsFiniteSet(S) <=> IsFiniteSet(S)
<1>1. \A s : /\ Pipeline!ToSet(s) = ToSet(s) /\ Pipeline!Build!ToSet(s) = ToSet(s)
             /\ Slots!ToSet(s) = ToSet(s) /\ Build!ToSet(s) = ToSet(s)
  BY DEF Pipeline!ToSet, Pipeline!Build!ToSet, Slots!ToSet, Build!ToSet, ToSet
<1>2. \A S : Pipeline!Cardinality(S) = Cardinality(S) /\ Pipeline!Build!Pool!Cardinality(S) = Cardinality(S)
  BY Zenon DEF Pipeline!Cardinality, Pipeline!Build!Pool!Cardinality, Cardinality
<1>3. \A S : Pipeline!SetToSeqs(S) = SetToSeqs(S) /\ Pipeline!Build!Pool!SetToSeqs(S) = SetToSeqs(S)
  BY <1>2, Zenon DEF Pipeline!SetToSeqs, Pipeline!Build!Pool!SetToSeqs, SetToSeqs
<1>4. \A S : Pipeline!IsFiniteSet(S) <=> IsFiniteSet(S)
  BY Zenon DEF Pipeline!IsFiniteSet, IsFiniteSet
<1> QED
  BY <1>1, <1>3, <1>4

LEMMA PipelineAssumption == Pipeline!TaskCount
BY Bounds, PipelineOperators DEF Pipeline!TaskCount

LEMMA ExecuteLine ==
  ASSUME PipelineInv, NEW ts \in Pipeline!Lines(Txs), Execute(ts), UNCHANGED Built
  PROVE  [Pipeline!PipelineNext]_(Pipeline!pipelineVars)
<1>1. CASE ts # <<>>
  <2>1. ts \in Pipeline!Blocks
    <3>1. ts \in Pipeline!Build!Pool!Blocks
      BY <1>1, PipelineAssumption, Pipeline!LineIsBlock
    <3> QED
      BY <3>1, PipelineOperators DEF Pipeline!Blocks, Pipeline!Build!Pool!Blocks
  <2>2. Pipeline!ExecuteAll(ts)
    BY PipelineOperators
    DEF Execute, Slots!RunTasks, Slots!Starts, Slots!StartedNow, Build!RunTasks,
        Pipeline!ExecuteAll, Pipeline!RunTasks, Pipeline!Starts, Pipeline!StartedNow,
        Pipeline!Build!RunTasks
  <2> QED
    BY <2>1, <2>2 DEF Pipeline!PipelineNext
<1>2. CASE ts = <<>>
  <2>1. Pipeline!Starts(ts) = 0
    <3>1. Pipeline!Starts(ts) \in 0..Len(ts) /\ Len(ts) = 0
      BY <1>2, PipelineAssumption, Pipeline!BlockFillsSlots DEF PipelineInv, Pipeline!PipelineInv
    <3> QED
      BY <3>1
  <2>2. Slots!Starts(ts) = 0 /\ Slots!StartedNow(ts) = <<>> /\ SubSeq(ts, 1, 0) = <<>>
    BY <1>2, <2>1 DEF Pipeline!Starts, Slots!Starts, Slots!StartedNow
  <2>3. /\ executeQueue \in Seq(Txs) /\ buildQueue \in Seq(Txs) /\ activeTasks \in Nat
        /\ executing \subseteq Txs /\ building \subseteq Txs
    BY DEF PipelineInv, Pipeline!PipelineInv, Pipeline!Inv, Pipeline!BuildInv, Pipeline!TypeOK,
           Pipeline!Lines
  <2>4. ToSet(<<>>) = {}
    BY DEF ToSet
  <2>5. activeTasks' = activeTasks /\ executing' = executing /\ executeQueue' = executeQueue
    BY <1>2, <2>2, <2>3, <2>4, PipelineOperators DEF Execute, Slots!RunTasks
  <2>6. buildQueue' = buildQueue /\ building' = building
    BY <2>2, <2>3 DEF Execute, Build!RunTasks
  <2> QED
    BY <2>5, <2>6 DEF Pipeline!pipelineVars, Pipeline!vars
<1> QED
  BY <1>1, <1>2

(* A build ends: its transaction is past the build.                        *)
LEMMA BuildEndsStep ==
  ASSUME NEW t \in Txs, NEW T, stage \in [Txs -> T], UNCHANGED slotVars, Build!Finish(t),
         NEW to \in PastBuild, stage' = [stage EXCEPT ![t] = to]
  PROVE  Pipeline!PipelineNext
<1>1. Built' = Built \cup {t}
  BY DEF Built
<1> QED
  BY <1>1 DEF slotVars, Build!Finish, Pipeline!PipelineNext, Pipeline!BuildEnds,
              Pipeline!Build!Finish, Pipeline!vars

LEMMA PipelineStep ==
  ASSUME PipelineInv, Holders!Inv, NEW T, stage \in [Txs -> T], [Next]_vars
  PROVE  [Pipeline!PipelineNext]_(Pipeline!pipelineVars)
<1> USE DEF PastBuild
<1>1. ASSUME NEW t \in Txs, NEW S \in SUBSET Objects, Submit(t, S)
      PROVE  [Pipeline!PipelineNext]_(Pipeline!pipelineVars)
  <2>1. UNCHANGED Built
    BY <1>1 DEF Submit, At, Built
  <2>2. <<t>> \in Pipeline!Lines(Txs) /\ <<>> \in Pipeline!Lines(Txs)
    BY DEF Pipeline!Lines, Pipeline!IsInjective
  <2> QED
    BY <1>1, <2>1, <2>2, ExecuteLine DEF Submit
<1>2. ASSUME NEW t \in Txs, BuildFails(t) \/ Resolve(t)
      PROVE  Pipeline!PipelineNext
  BY <1>2, BuildEndsStep DEF BuildFails, Resolve, At
<1>3. ASSUME NEW t \in Txs, Release(t)
      PROVE  [Pipeline!PipelineNext]_(Pipeline!pipelineVars)
  <2>1. UNCHANGED Built
    BY <1>3 DEF Release, At, Built
  <2>2. PICK ts \in SetToSeqs(Objs!Woken(t)) : Execute(ts)
    BY <1>3 DEF Release
  <2>3. Objs!Woken(t) \subseteq Txs /\ IsFiniteSet(Objs!Woken(t))
    BY Bounds, FS_Subset DEF Objs!Woken, Holders!Inv, Holders!TypeInv
  <2>4. ts \in Pipeline!Lines(Txs)
    BY <2>2, <2>3, PipelineAssumption, PipelineOperators, Pipeline!BlockIsLine
  <2> QED
    BY <2>1, <2>2, <2>4, ExecuteLine
<1>4. ASSUME NEW t \in Txs, Finish(t)
      PROVE  Pipeline!PipelineNext
  <2>1. t \in Built /\ Built' = Built \ {t}
    BY <1>4 DEF Finish, At, Built
  <2>2. Pipeline!Ends(t)
    BY <1>4, <2>1, PipelineOperators
    DEF Finish, Slots!Finish, Build!RunTasks, Pipeline!Ends, Pipeline!Finish, Pipeline!Build!RunTasks
  <2> QED
    BY <2>2 DEF Pipeline!PipelineNext
<1>5. ASSUME NEW t \in Txs,
             PassLock(t) \/ Refill(t) \/ TakeCoin(t) \/ Send(t) \/ SendFails(t) \/ Reply(t) \/ Catch(t)
      PROVE  UNCHANGED <<Built, slotVars, buildVars>>
  <2>1. UNCHANGED <<slotVars, buildVars>>
    BY <1>5 DEF PassLock, Refill, TakeCoin, Send, SendFails, Reply, Catch, UpdateCache
  <2>2. UNCHANGED Built
    <3>1. CASE PassLock(t) \/ Refill(t) \/ TakeCoin(t)
      BY <3>1 DEF PassLock, Refill, TakeCoin, UpdateCache, At, Built
    <3>2. CASE Send(t) \/ SendFails(t) \/ Reply(t) \/ Catch(t)
      BY <3>2 DEF Send, SendFails, Reply, Catch, UpdateCache, At, Built
    <3> QED
      BY <1>5, <3>1, <3>2
  <2> QED
    BY <2>1, <2>2
<1>6. ASSUME \/ \E t \in Txs : Index(t)
             \/ \E c \in Calls : UpdateEnds(c)
             \/ \E kind \in ApiCalls : ApiCall(kind)
      PROVE  UNCHANGED <<Built, slotVars, buildVars>>
  BY <1>6 DEF Index, UpdateEnds, ApiCall, Built
<1>7. CASE Terminated \/ UNCHANGED vars
  <2>1. UNCHANGED <<stage, slotVars, buildVars>>
    BY <1>7 DEF Terminated, vars
  <2> QED
    BY <2>1 DEF slotVars, buildVars, Built, Pipeline!pipelineVars, Pipeline!vars
<1>8. UNCHANGED <<Built, slotVars, buildVars>> => UNCHANGED Pipeline!pipelineVars
  BY DEF slotVars, buildVars, Pipeline!pipelineVars, Pipeline!vars
<1> QED
  BY <1>1, <1>2, <1>3, <1>4, <1>5, <1>6, <1>7, <1>8 DEF Next, Step

-----------------------------------------------------------------------------
(* Where the transactions are.  One that has begun to be built has all its *)
(* objects until it is released, and so has one that a task queue holds.   *)
Begun == {"submittedLock", "coin", "coinLock", "refilled", "resolve", "built", "sent",
          "failed", "failedLock", "ended"}

Stages == {"new", "submitted", "released", "done"} \cup Begun

HandedOver == ToSet(executeQueue) \cup executing \cup ToSet(buildQueue) \cup building

BegunHold == \A t \in Txs : stage[t] \in Begun => Objs!Ready(t)

HandedHold ==
  \A t \in HandedOver : stage[t] # "new" /\ (stage[t] = "submitted" => Objs!Ready(t))

NewWait == \A t \in Txs : stage[t] = "new" => t \notin active

PlacesInv == stage \in [Txs -> Stages] /\ BegunHold /\ HandedHold /\ NewWait

(* The members of sequences put together and cut.                          *)
LEMMA MembersOfSequences ==
  ASSUME NEW s \in Seq(Txs), NEW t \in Seq(Txs)
  PROVE  /\ ToSet(s \o t) \subseteq ToSet(s) \cup ToSet(t)
         /\ s # <<>> => Head(s) \in ToSet(s) /\ ToSet(Tail(s)) \subseteq ToSet(s)
         /\ \A n \in 0..Len(s) : /\ ToSet(SubSeq(s, 1, n)) \subseteq ToSet(s)
                                 /\ ToSet(SubSeq(s, n + 1, Len(s))) \subseteq ToSet(s)
<1>1. /\ DOMAIN (s \o t) = 1..(Len(s) + Len(t)) /\ Len(s) \in Nat /\ Len(t) \in Nat
      /\ \A i \in 1..Len(s) : (s \o t)[i] = s[i]
      /\ \A i \in 1..(Len(s) + Len(t)) : i \notin 1..Len(s) =>
           i - Len(s) \in 1..Len(t) /\ (s \o t)[i] = t[i - Len(s)]
  OBVIOUS
<1>2. DOMAIN s = 1..Len(s) /\ DOMAIN t = 1..Len(t)
  OBVIOUS
<1>3. ToSet(s \o t) \subseteq ToSet(s) \cup ToSet(t)
  BY <1>1, <1>2 DEF ToSet
<1>4. ASSUME s # <<>> PROVE Head(s) \in ToSet(s) /\ ToSet(Tail(s)) \subseteq ToSet(s)
  <2>1. /\ 1 \in 1..Len(s) /\ Head(s) = s[1] /\ DOMAIN Tail(s) = 1..(Len(s) - 1)
        /\ \A i \in 1..(Len(s) - 1) : i + 1 \in 1..Len(s) /\ Tail(s)[i] = s[i + 1]
    BY <1>4
  <2> QED
    BY <1>2, <2>1 DEF ToSet
<1>5. ASSUME NEW n \in 0..Len(s)
      PROVE  /\ ToSet(SubSeq(s, 1, n)) \subseteq ToSet(s)
             /\ ToSet(SubSeq(s, n + 1, Len(s))) \subseteq ToSet(s)
  <2>1. /\ DOMAIN SubSeq(s, 1, n) = 1..n
        /\ \A i \in 1..n : i \in 1..Len(s) /\ SubSeq(s, 1, n)[i] = s[i]
    OBVIOUS
  <2>2. /\ DOMAIN SubSeq(s, n + 1, Len(s)) = 1..(Len(s) - n)
        /\ \A i \in 1..(Len(s) - n) : n + i \in 1..Len(s) /\ SubSeq(s, n + 1, Len(s))[i] = s[n + i]
    OBVIOUS
  <2>3. ToSet(SubSeq(s, 1, n)) \subseteq ToSet(s)
    BY <1>2, <2>1 DEF ToSet
  <2>4. ToSet(SubSeq(s, n + 1, Len(s))) \subseteq ToSet(s)
    BY <1>2, <2>2 DEF ToSet
  <2> QED
    BY <2>3, <2>4
<1> QED
  BY <1>3, <1>4, <1>5

LEMMA QueuesTyped ==
  ASSUME PipelineInv
  PROVE  /\ executeQueue \in Seq(Txs) /\ buildQueue \in Seq(Txs) /\ activeTasks \in Nat
         /\ executing \subseteq Txs /\ building \subseteq Txs
BY DEF PipelineInv, Pipeline!PipelineInv, Pipeline!Inv, Pipeline!BuildInv, Pipeline!TypeOK,
       Pipeline!Lines

LEMMA HandedAreTxs == PipelineInv => HandedOver \subseteq Txs
<1> SUFFICES ASSUME PipelineInv PROVE HandedOver \subseteq Txs
  OBVIOUS
<1>1. ASSUME NEW s \in Seq(Txs) PROVE ToSet(s) \subseteq Txs
  BY DEF ToSet
<1> QED
  BY <1>1, QueuesTyped DEF HandedOver

(* Only those of a block are new in the queues, and a callback brings      *)
(* nobody in.                                                              *)
LEMMA BuildHands ==
  ASSUME buildQueue \in Seq(Txs), NEW ts \in Seq(Txs), Build!RunTasks(ts)
  PROVE  ToSet(buildQueue)' \cup building' \subseteq ToSet(buildQueue) \cup building \cup ToSet(ts)
<1>1. Len(ts) > 0 => ts[1] \in ToSet(ts)
  BY DEF ToSet
<1>2. building' \subseteq building \cup ToSet(ts)
  BY <1>1 DEF Build!RunTasks
<1>3. ToSet(buildQueue)' \subseteq ToSet(buildQueue) \cup ToSet(ts)
  BY MembersOfSequences DEF Build!RunTasks
<1> QED
  BY <1>2, <1>3

LEMMA ExecuteHands ==
  ASSUME PipelineInv, NEW ts \in Pipeline!Lines(Txs), Execute(ts)
  PROVE  HandedOver' \subseteq HandedOver \cup ToSet(ts)
<1>1. ts \in Seq(Txs)
  BY DEF Pipeline!Lines
<1>2. Slots!Starts(ts) \in 0..Len(ts)
  BY PipelineAssumption, Pipeline!BlockFillsSlots
  DEF PipelineInv, Pipeline!PipelineInv, Slots!Starts, Pipeline!Starts
<1>3. /\ Slots!StartedNow(ts) \in Seq(Txs) /\ ToSet(Slots!StartedNow(ts)) \subseteq ToSet(ts)
      /\ SubSeq(ts, Slots!Starts(ts) + 1, Len(ts)) \in Seq(Txs)
      /\ ToSet(SubSeq(ts, Slots!Starts(ts) + 1, Len(ts))) \subseteq ToSet(ts)
  BY <1>1, <1>2, MembersOfSequences DEF Slots!StartedNow
<1>4. ToSet(executeQueue)' \subseteq ToSet(executeQueue) \cup ToSet(ts)
  <2> DEFINE rest == SubSeq(ts, Slots!Starts(ts) + 1, Len(ts))
  <2>1. executeQueue' = executeQueue \o rest
    BY DEF Execute, Slots!RunTasks
  <2>2. executeQueue \in Seq(Txs) /\ rest \in Seq(Txs) /\ ToSet(rest) \subseteq ToSet(ts)
    BY <1>3, QueuesTyped
  <2> HIDE DEF rest
  <2>3. ToSet(executeQueue \o rest) \subseteq ToSet(executeQueue) \cup ToSet(rest)
    BY <2>2, MembersOfSequences
  <2> QED
    BY <2>1, <2>2, <2>3
<1>5. executing' \subseteq executing \cup ToSet(ts)
  BY <1>3, PipelineOperators DEF Execute, Slots!RunTasks
<1>6. ToSet(buildQueue)' \cup building' \subseteq ToSet(buildQueue) \cup building \cup ToSet(ts)
  BY <1>3, QueuesTyped, BuildHands DEF Execute
<1> QED
  BY <1>4, <1>5, <1>6 DEF HandedOver

LEMMA BuildFinishHands ==
  ASSUME PipelineInv, NEW t \in Txs, Build!Finish(t), UNCHANGED slotVars
  PROVE  HandedOver' \subseteq HandedOver
<1>1. buildQueue \in Seq(Txs) /\ buildQueue # <<>> /\ buildQueue' = Tail(buildQueue)
  BY QueuesTyped DEF Build!Finish, PipelineInv, Pipeline!PipelineInv, Pipeline!BuildInv
<1>2. ToSet(buildQueue)' \subseteq ToSet(buildQueue)
  BY <1>1, MembersOfSequences
<1>3. building' \subseteq building \cup ToSet(buildQueue)
  BY <1>1 DEF Build!Finish, ToSet
<1> QED
  BY <1>2, <1>3 DEF HandedOver, slotVars

LEMMA FinishHands ==
  ASSUME PipelineInv, NEW t \in Txs, Finish(t)
  PROVE  HandedOver' \subseteq HandedOver
<1>1. /\ executeQueue \in Seq(Txs) /\ buildQueue \in Seq(Txs)
      /\ executeQueue # <<>> =>
           Head(executeQueue) \in ToSet(executeQueue) /\ ToSet(Tail(executeQueue)) \subseteq ToSet(executeQueue)
  BY QueuesTyped, MembersOfSequences
<1>2. ToSet(executeQueue)' \cup executing' \subseteq ToSet(executeQueue) \cup executing
  BY <1>1 DEF Finish, Slots!Finish
<1>3. ToSet(buildQueue)' \cup building' \subseteq ToSet(buildQueue) \cup building \cup ToSet(executeQueue)
  <2>1. \A x \in ToSet(executeQueue) : x \in Txs
    BY <1>1 DEF ToSet
  <2>2. CASE executeQueue = <<>>
    <3>1. <<>> \in Seq(Txs) /\ ToSet(<<>>) = {} /\ Build!RunTasks(<<>>)
      BY <2>2 DEF Finish, ToSet
    <3> QED
      BY <1>1, <3>1, BuildHands
  <2>3. CASE executeQueue # <<>>
    <3>1. /\ <<Head(executeQueue)>> \in Seq(Txs) /\ ToSet(<<Head(executeQueue)>>) \subseteq ToSet(executeQueue)
          /\ Build!RunTasks(<<Head(executeQueue)>>)
      BY <1>1, <2>1, <2>3 DEF Finish, ToSet
    <3> QED
      BY <1>1, <3>1, BuildHands
  <2> QED
    BY <2>2, <2>3
<1> QED
  BY <1>2, <1>3 DEF HandedOver

(* A transaction that is ready stays ready until it is released.           *)
LEMMA ReadyStays ==
  ASSUME Holders!Inv, [Next]_vars, NEW u \in Txs, Objs!Ready(u), ~ Release(u)
  PROVE  Objs!Ready(u)'
<1> USE DEF Holders!Inv, Holders!TypeInv, Objs!Ready
<1>1. CASE \E t \in Txs, S \in SUBSET Objects : Objs!Acquire(t, S)
  BY <1>1 DEF Objs!Acquire
<1>2. CASE \E t \in Txs : Release(t) /\ Objs!Release(t)
  BY <1>2 DEF Objs!Release
<1>3. CASE UNCHANGED queueVars
  BY <1>3 DEF queueVars
<1> QED
  BY <1>1, <1>2, <1>3, ObjectStep

(* The steps by which a transaction goes on: none of them submits one or   *)
(* puts one into the task queues, and the objects stay where they are.     *)
GoesOn(t) ==
  \/ BuildFails(t) \/ PassLock(t) \/ Refill(t) \/ TakeCoin(t) \/ Resolve(t)
  \/ Send(t) \/ SendFails(t) \/ Reply(t) \/ Catch(t)

LEMMA GoingOn ==
  ASSUME PipelineInv, PlacesInv, NEW t \in Txs, GoesOn(t)
  PROVE  /\ \E s \in Begun : stage' = [stage EXCEPT ![t] = s]
         /\ stage[t] \in Begun \/ (stage[t] = "submitted" /\ t \in building)
         /\ HandedOver' \subseteq HandedOver
         /\ UNCHANGED queueVars
<1>1. UNCHANGED queueVars
  BY DEF GoesOn, BuildFails, PassLock, Refill, TakeCoin, Resolve, Send, SendFails, Reply, Catch,
         UpdateCache
<1>2. CASE BuildFails(t) \/ Resolve(t)
  <2>1. Build!Finish(t) /\ UNCHANGED slotVars
    BY <1>2 DEF BuildFails, Resolve
  <2>2. HandedOver' \subseteq HandedOver
    BY <2>1, BuildFinishHands
  <2> QED
    BY <1>1, <1>2, <2>2 DEF BuildFails, Resolve, At, Begun
<1>3. CASE PassLock(t) \/ Refill(t) \/ Catch(t)
  <2>1. UNCHANGED <<slotVars, buildVars>>
    BY <1>3 DEF PassLock, Refill, Catch, UpdateCache
  <2>2. HandedOver' \subseteq HandedOver
    BY <2>1 DEF HandedOver, slotVars, buildVars
  <2> QED
    BY <1>1, <1>3, <2>2 DEF PassLock, Refill, Catch, UpdateCache, At, Begun
<1>4. CASE TakeCoin(t) \/ Send(t) \/ SendFails(t) \/ Reply(t)
  <2>1. UNCHANGED <<slotVars, buildVars>>
    BY <1>4 DEF TakeCoin, Send, SendFails, Reply
  <2>2. HandedOver' \subseteq HandedOver
    BY <2>1 DEF HandedOver, slotVars, buildVars
  <2> QED
    BY <1>1, <1>4, <2>2 DEF TakeCoin, Send, SendFails, Reply, At, Begun
<1> QED
  BY <1>2, <1>3, <1>4 DEF GoesOn

LEMMA InitPlaces == Init => PlacesInv
<1> SUFFICES ASSUME Init PROVE PlacesInv
  OBVIOUS
<1>1. HandedOver = {}
  BY DEF Init, Slots!Init, Build!Init, HandedOver, ToSet
<1> QED
  BY <1>1 DEF Init, Objs!Init, PlacesInv, BegunHold, HandedHold, NewWait, Stages, Begun

(* Whoever a step makes ready to be handed over is ready after it.         *)
LEMMA NextPlaces ==
  ASSUME PipelineInv, Holders!Inv, PlacesInv, [Next]_vars
  PROVE  PlacesInv'
<1> USE DEF PlacesInv
<1>1. ASSUME NEW t \in Txs, NEW S \in SUBSET Objects, Submit(t, S)
      PROVE  PlacesInv'
  <2>1. stage[t] = "new" /\ stage' = [stage EXCEPT ![t] = "submitted"] /\ t \notin HandedOver
    BY <1>1 DEF Submit, At, HandedHold
  <2>2. /\ HandedOver' \subseteq HandedOver \cup {t}
        /\ t \in HandedOver' => Objs!Ready(t)'
    <3>1. <<t>> \in Pipeline!Lines(Txs) /\ <<>> \in Pipeline!Lines(Txs)
          /\ ToSet(<<t>>) = {t} /\ ToSet(<<>>) = {}
      BY DEF Pipeline!Lines, Pipeline!IsInjective, ToSet
    <3>2. CASE Objs!Taken(S) = {}
      <4>1. HandedOver' \subseteq HandedOver \cup {t}
        BY <1>1, <3>1, <3>2, ExecuteHands DEF Submit
      <4>2. Objs!Ready(t)'
        BY <1>1, <3>2 DEF Submit, Objs!Acquire, Objs!Ready, Holders!Inv, Holders!TypeInv
      <4> QED
        BY <4>1, <4>2
    <3>3. CASE Objs!Taken(S) # {}
      BY <1>1, <2>1, <3>1, <3>3, ExecuteHands DEF Submit
    <3> QED
      BY <3>2, <3>3
  <2>3. \A u \in Txs : Objs!Ready(u) => Objs!Ready(u)'
    <3>1. \A u \in Txs : ~ Release(u)
      BY <2>1 DEF Release, At
    <3> QED
      BY <3>1, ReadyStays
  <2>4. stage' \in [Txs -> Stages]
    BY <2>1 DEF Stages
  <2>5. BegunHold'
    BY <2>1, <2>3 DEF BegunHold, Begun
  <2>6. HandedHold'
    BY <2>1, <2>2, <2>3, HandedAreTxs DEF HandedHold
  <2>7. NewWait'
    BY <1>1, <2>1 DEF Submit, Objs!Acquire, NewWait
  <2> QED
    BY <2>4, <2>5, <2>6, <2>7
<1>2. ASSUME NEW t \in Txs, Release(t)
      PROVE  PlacesInv'
  <2>1. stage[t] = "ended" /\ stage' = [stage EXCEPT ![t] = "released"]
    BY <1>2 DEF Release, At
  <2>2. PICK ts \in SetToSeqs(Objs!Woken(t)) : Execute(ts)
    BY <1>2 DEF Release
  <2>3. Objs!Woken(t) \subseteq Txs /\ IsFiniteSet(Objs!Woken(t))
    BY Bounds, FS_Subset DEF Objs!Woken, Holders!Inv, Holders!TypeInv
  <2>4. ts \in Pipeline!Lines(Txs) /\ ToSet(ts) \subseteq Objs!Woken(t)
    <3>1. ts \in Pipeline!SetToSeqs(Objs!Woken(t)) /\ Pipeline!IsFiniteSet(Objs!Woken(t))
      BY <2>2, <2>3, PipelineOperators
    <3>2. ts \in Pipeline!Lines(Objs!Woken(t)) /\ ts \in Pipeline!Lines(Txs)
      BY <2>3, <3>1, PipelineAssumption, Pipeline!BlockIsLine
    <3>3. ToSet(ts) \subseteq Objs!Woken(t)
      BY <3>2 DEF Pipeline!Lines, ToSet
    <3> QED
      BY <3>2, <3>3
  <2>5. HandedOver' \subseteq HandedOver \cup Objs!Woken(t)
    BY <2>2, <2>4, ExecuteHands
  <2>6. \A u \in Objs!Woken(t) : Objs!Ready(u)'
    BY <1>2 DEF Release, Objs!Release, Objs!Woken, Objs!Ready, Holders!Inv, Holders!TypeInv
  <2>7. \A u \in Txs : u # t /\ Objs!Ready(u) => Objs!Ready(u)'
    BY <1>2 DEF Release, Objs!Release, Objs!Ready
  <2>8. \A u \in Objs!Woken(t) : u \in Txs /\ u # t /\ stage[u] # "new"
    BY <2>3 DEF NewWait, Objs!Woken
  <2>9. stage' \in [Txs -> Stages]
    BY <2>1 DEF Stages
  <2>10. BegunHold'
    BY <2>1, <2>7 DEF BegunHold, Begun
  <2>11. HandedHold'
    BY <2>1, <2>5, <2>6, <2>7, <2>8, HandedAreTxs DEF HandedHold
  <2>12. NewWait'
    BY <1>2, <2>1 DEF Release, Objs!Release, NewWait
  <2> QED
    BY <2>9, <2>10, <2>11, <2>12
<1>3. ASSUME NEW t \in Txs, Finish(t)
      PROVE  PlacesInv'
  <2>1. stage[t] = "released" /\ stage' = [stage EXCEPT ![t] = "done"] /\ UNCHANGED queueVars
    BY <1>3 DEF Finish, At
  <2>2. HandedOver' \subseteq HandedOver /\ HandedOver \subseteq Txs
    BY <1>3, FinishHands, HandedAreTxs
  <2> QED
    BY <2>1, <2>2 DEF BegunHold, HandedHold, NewWait, Begun, Stages, Objs!Ready, queueVars
<1>4. ASSUME NEW t \in Txs, GoesOn(t)
      PROVE  PlacesInv'
  <2>1. PICK s \in Begun : stage' = [stage EXCEPT ![t] = s]
    BY <1>4, GoingOn
  <2>2. /\ UNCHANGED queueVars /\ HandedOver' \subseteq HandedOver /\ HandedOver \subseteq Txs
        /\ stage[t] \in Begun \/ (stage[t] = "submitted" /\ t \in HandedOver)
    BY <1>4, GoingOn, HandedAreTxs DEF HandedOver
  <2>3. Objs!Ready(t)
    BY <2>2 DEF BegunHold, HandedHold
  <2> QED
    BY <2>1, <2>2, <2>3 DEF BegunHold, HandedHold, NewWait, Begun, Stages, Objs!Ready, queueVars
<1>5. ASSUME \/ \E t \in Txs : Index(t)
             \/ \E c \in Calls : UpdateEnds(c)
             \/ \E kind \in ApiCalls : ApiCall(kind)
             \/ Terminated
             \/ UNCHANGED vars
      PROVE  PlacesInv'
  <2>1. UNCHANGED <<queueVars, slotVars, buildVars, stage>>
    BY <1>5 DEF Index, UpdateEnds, ApiCall, Terminated, vars
  <2> QED
    BY <2>1 DEF queueVars, slotVars, buildVars, BegunHold, HandedHold, NewWait, HandedOver, Objs!Ready
<1> QED
  BY <1>1, <1>2, <1>3, <1>4, <1>5 DEF Next, Step, GoesOn
-----------------------------------------------------------------------------
(* What the transactions, the cache and the chain say of the objects.      *)
References == UNION {[S -> Nat] : S \in SUBSET Objects}

MayHaveLanded == {"sent", "failed", "failedLock", "ended", "released", "done"}

ReferencesTyped == refs \in [Txs -> References] /\ cache \in References

ChainInv ==
  /\ indexed \subseteq landed
  /\ landed \subseteq {t \in Txs : stage[t] \in MayHaveLanded}

DigestsLanded ==
  /\ {lastDigest, cacheDigest} \subseteq landed \cup {NoTx}
  /\ waitsFor \in [Calls -> landed \cup {NoTx}]
  /\ \A t \in Txs : stage[t] = "sent" => t \in landed

DataInv == ReferencesTyped /\ ChainInv /\ DigestsLanded

LEMMA ReferenceDomain ==
  ASSUME NEW f \in References
  PROVE  DOMAIN f \subseteq Objects /\ \A o \in DOMAIN f : f[o] \in Nat
<1>1. PICK S \in SUBSET Objects : f \in [S -> Nat]
  BY DEF References
<1> QED
  BY <1>1

LEMMA NewReference ==
  ASSUME NEW S \in SUBSET Objects, NEW f \in [S -> Nat]
  PROVE  f \in References
BY DEF References

(* The versions on chain and on the fullnode are numbers, and the fullnode *)
(* is never ahead.                                                         *)
LEMMA VersionTyped ==
  ASSUME ChainInv, NEW o
  PROVE  /\ LedgerVersion(o) \in Nat /\ NodeVersion(o) \in Nat
         /\ NodeVersion(o) <= LedgerVersion(o)
<1> DEFINE L == {t \in landed : o \in DOMAIN refs[t]}
           I == {t \in indexed : o \in DOMAIN refs[t]}
<1>1. L \subseteq Txs /\ I \subseteq L
  BY DEF ChainInv
<1>2. IsFiniteSet(L)
  BY <1>1, Bounds, FS_Subset
<1>3. IsFiniteSet(I) /\ Cardinality(I) <= Cardinality(L)
  BY <1>1, <1>2, FS_Subset
<1>4. Cardinality(L) \in Nat /\ Cardinality(I) \in Nat
  BY <1>2, <1>3, FS_CardinalityType
<1> QED
  BY <1>3, <1>4 DEF LedgerVersion, NodeVersion, Version

(* No reference of an executed transaction changes.                        *)
LEMMA VersionStays ==
  ASSUME UNCHANGED landed, \A t \in landed : refs'[t] = refs[t], NEW o
  PROVE  LedgerVersion(o)' = LedgerVersion(o)
<1>1. {t \in landed' : o \in DOMAIN refs'[t]} = {t \in landed : o \in DOMAIN refs[t]}
  OBVIOUS
<1> QED
  BY <1>1 DEF LedgerVersion, Version

LEMMA VersionGrows ==
  ASSUME ChainInv, NEW t \in Txs, t \notin landed, landed' = landed \cup {t},
         UNCHANGED refs, NEW o
  PROVE  LedgerVersion(o)' = IF o \in DOMAIN refs[t] THEN LedgerVersion(o) + 1 ELSE LedgerVersion(o)
<1> DEFINE L == {u \in landed : o \in DOMAIN refs[u]}
<1>1. L \subseteq Txs /\ t \notin L
  BY DEF ChainInv
<1>2. IsFiniteSet(L)
  BY <1>1, Bounds, FS_Subset
<1>3. {u \in landed' : o \in DOMAIN refs'[u]} = IF o \in DOMAIN refs[t] THEN L \cup {t} ELSE L
  OBVIOUS
<1>4. Cardinality(L \cup {t}) = Cardinality(L) + 1
  BY <1>1, <1>2, FS_AddElement
<1> QED
  BY <1>3, <1>4 DEF LedgerVersion, Version

(* Everything an update of the executor does to the cache and the digests. *)
LEMMA UpdateEffects ==
  ASSUME NEW c \in Calls, StartUpdate(c)
  PROVE  /\ \/ UNCHANGED cache
            \/ c[2] = "error" /\ Forget(usedObjects[c[1]])
            \/ c[2] = "reset" /\ cache' = <<>>
         /\ \/ UNCHANGED <<lastDigest, waitsFor>>
            \/ lastDigest' = NoTx /\ waitsFor' = [waitsFor EXCEPT ![c] = lastDigest]
            \/ UNCHANGED lastDigest /\ waitsFor' = [waitsFor EXCEPT ![c] = cacheDigest]
         /\ UNCHANGED cacheDigest
         /\ c[2] = "error" => Forget(usedObjects[c[1]])
<1>1. c[2] \in {"sync", "refill", "error", "wait", "reset"}
  BY Bounds DEF Calls
<1> QED
  BY <1>1 DEF StartUpdate, WaitForLastDigest, dataVars

(* Every step changes some of the data, moves a transaction on, or neither.*)
Moves(t, to) == stage' = [stage EXCEPT ![t] = to]

StageMoves ==
  \E t \in Txs, to \in Stages :
    /\ Moves(t, to)
    /\ stage[t] \in MayHaveLanded => to \in MayHaveLanded
    /\ to = "sent" => t \in landed' /\ stage[t] = "built"

LEMMA StageStep ==
  ASSUME [Next]_vars
  PROVE  UNCHANGED stage \/ StageMoves
<1> USE DEF StageMoves, Moves, Stages, Begun, MayHaveLanded, At
<1>1. ASSUME NEW t \in Txs, NEW S \in SUBSET Objects, Submit(t, S) PROVE StageMoves
  <2>1. stage[t] = "new" /\ stage' = [stage EXCEPT ![t] = "submitted"] /\ "submitted" \in Stages
    BY <1>1 DEF Submit
  <2> QED
    BY <2>1
<1>2. ASSUME NEW t \in Txs, BuildFails(t) \/ TakeCoin(t) \/ Resolve(t) PROVE StageMoves
  BY <1>2 DEF BuildFails, TakeCoin, Resolve
<1>3. ASSUME NEW t \in Txs, PassLock(t) \/ Refill(t) \/ Catch(t) PROVE StageMoves
  BY <1>3 DEF PassLock, Refill, Catch, UpdateCache
<1>4. ASSUME NEW t \in Txs, Send(t) PROVE StageMoves
  BY <1>4 DEF Send
<1>5. ASSUME NEW t \in Txs, SendFails(t) \/ Reply(t) \/ Release(t) \/ Finish(t) PROVE StageMoves
  BY <1>5 DEF SendFails, Reply, Release, Finish
<1>6. ASSUME \/ \E t \in Txs : Index(t)
             \/ \E c \in Calls : UpdateEnds(c)
             \/ \E kind \in ApiCalls : ApiCall(kind)
             \/ Terminated
             \/ UNCHANGED vars
      PROVE  UNCHANGED stage
  BY <1>6 DEF Index, UpdateEnds, ApiCall, Terminated, vars
<1> QED
  BY <1>1, <1>2, <1>3, <1>4, <1>5, <1>6 DEF Next, Step

LEMMA ChainStep ==
  ASSUME [Next]_vars
  PROVE  \/ UNCHANGED chainVars
         \/ \E t \in Txs : Send(t) /\ UNCHANGED indexed
         \/ \E t \in landed : UNCHANGED <<stage, landed>> /\ indexed' = indexed \cup {t}
<1>1. ASSUME NEW t \in Txs, Step(t), ~ Send(t) PROVE UNCHANGED chainVars
  BY <1>1 DEF Step, BuildFails, PassLock, Refill, TakeCoin, Resolve, SendFails, Reply,
              Catch, Release, Finish, UpdateCache
<1>2. ASSUME NEW t \in Txs, NEW S \in SUBSET Objects, Submit(t, S) PROVE UNCHANGED chainVars
  BY <1>2 DEF Submit
<1>3. CASE \E c \in Calls : UpdateEnds(c)
  BY <1>3 DEF UpdateEnds
<1>4. CASE \E kind \in ApiCalls : ApiCall(kind)
  BY <1>4 DEF ApiCall
<1>5. CASE Terminated \/ UNCHANGED vars
  BY <1>5 DEF Terminated, vars
<1>6. ASSUME NEW t \in Txs, Index(t)
      PROVE  t \in landed /\ UNCHANGED <<stage, landed>> /\ indexed' = indexed \cup {t}
  BY <1>6 DEF Index
<1>7. ASSUME NEW t \in Txs, Send(t) PROVE UNCHANGED indexed
  BY <1>7 DEF Send
<1> QED
  BY <1>1, <1>2, <1>3, <1>4, <1>5, <1>6, <1>7 DEF Next

LEMMA NextChain ==
  ASSUME ChainInv, stage \in [Txs -> Stages], [Next]_vars
  PROVE  ChainInv' /\ landed \subseteq landed'
<1> USE DEF ChainInv
<1>1. UNCHANGED stage \/ StageMoves
  BY StageStep
<1>2. CASE UNCHANGED chainVars
  BY <1>1, <1>2 DEF chainVars, StageMoves, Moves
<1>3. ASSUME NEW t \in Txs, Send(t), UNCHANGED indexed PROVE ChainInv' /\ landed \subseteq landed'
  BY <1>3 DEF Send, At, MayHaveLanded
<1>4. CASE \E t \in landed : UNCHANGED <<stage, landed>> /\ indexed' = indexed \cup {t}
  BY <1>4
<1> QED
  BY <1>2, <1>3, <1>4, ChainStep
LEMMA RefsStep ==
  ASSUME [Next]_vars
  PROVE  UNCHANGED refs \/ \E t \in Txs : TakeCoin(t) \/ Resolve(t)
<1>1. ASSUME NEW t \in Txs, Step(t), ~ (TakeCoin(t) \/ Resolve(t)) PROVE UNCHANGED refs
  BY <1>1 DEF Step, BuildFails, PassLock, Refill, Send, SendFails, Reply, Catch, Release, Finish,
              UpdateCache
<1>2. ASSUME NEW t \in Txs, Index(t) \/ \E S \in SUBSET Objects : Submit(t, S) PROVE UNCHANGED refs
  BY <1>2 DEF Index, Submit
<1>3. CASE (\E c \in Calls : UpdateEnds(c)) \/ (\E kind \in ApiCalls : ApiCall(kind))
  BY <1>3 DEF UpdateEnds, ApiCall
<1>4. CASE Terminated \/ UNCHANGED vars
  BY <1>4 DEF Terminated, vars
<1> QED
  BY <1>1, <1>2, <1>3, <1>4 DEF Next

(* An update that starts within a step, and the step of the data it makes. *)
LEMMA UpdateStarts ==
  ASSUME NEW t \in Txs, PassLock(t) \/ Refill(t) \/ Catch(t)
  PROVE  \/ UNCHANGED dataVars
         \/ \E c \in Calls : /\ StartUpdate(c)
                             /\ c[1] = t /\ c[2] # "reset" /\ (c[2] = "error" <=> Catch(t))
<1>1. \A kind \in {"sync", "refill", "error"} :
        <<t, kind>> \in Calls /\ <<t, kind>>[1] = t /\ <<t, kind>>[2] = kind
  BY DEF Calls
<1>2. CASE PassLock(t)
  <2>1. UNCHANGED dataVars \/ StartUpdate(<<t, "sync">>)
    BY <1>2 DEF PassLock, UpdateCache
  <2>2. ~ Catch(t)
    BY <1>2 DEF PassLock, Catch, UpdateCache, At
  <2> QED
    BY <1>1, <2>1, <2>2
<1>3. CASE Refill(t)
  <2>1. UNCHANGED dataVars \/ StartUpdate(<<t, "refill">>)
    BY <1>3 DEF Refill, UpdateCache
  <2>2. ~ Catch(t)
    BY <1>3 DEF Refill, Catch, UpdateCache, At
  <2> QED
    BY <1>1, <2>1, <2>2
<1>4. CASE Catch(t)
  <2>1. UNCHANGED dataVars \/ StartUpdate(<<t, "error">>)
    BY <1>4 DEF Catch, UpdateCache
  <2> QED
    BY <1>1, <1>4, <2>1
<1> QED
  BY <1>2, <1>3, <1>4

LEMMA DataStep ==
  ASSUME [Next]_vars
  PROVE  \/ UNCHANGED dataVars
         \/ \E t \in Txs : Reply(t)
         \/ \E t \in Txs, c \in Calls :
              /\ StartUpdate(c) /\ c[1] = t /\ c[2] # "reset"
              /\ c[2] = "error" <=> Catch(t)
              /\ UNCHANGED landed
         \/ \E c \in Calls : StartUpdate(c) /\ c[2] \in ApiCalls /\ UNCHANGED <<stage, landed>>
         \/ \E c \in Calls : UpdateEnds(c)
<1>1. ASSUME NEW t \in Txs, PassLock(t) \/ Refill(t) \/ Catch(t)
      PROVE  \/ UNCHANGED dataVars
             \/ \E c \in Calls : /\ StartUpdate(c) /\ c[1] = t /\ c[2] # "reset"
                                 /\ c[2] = "error" <=> Catch(t)
                                 /\ UNCHANGED landed
  BY <1>1, UpdateStarts DEF PassLock, Refill, Catch, UpdateCache, chainVars
<1>2. ASSUME NEW t \in Txs,
             \/ BuildFails(t) \/ TakeCoin(t) \/ Resolve(t) \/ Send(t) \/ SendFails(t)
             \/ Release(t) \/ Finish(t) \/ Index(t) \/ \E S \in SUBSET Objects : Submit(t, S)
      PROVE  UNCHANGED dataVars
  BY <1>2 DEF BuildFails, TakeCoin, Resolve, Send, SendFails, Release, Finish, Index, Submit
<1>3. ASSUME NEW kind \in ApiCalls, ApiCall(kind)
      PROVE  \/ UNCHANGED dataVars
             \/ \E c \in Calls : StartUpdate(c) /\ c[2] \in ApiCalls /\ UNCHANGED <<stage, landed>>
  <2>1. <<Api, kind>> \in Calls /\ <<Api, kind>>[2] = kind
    BY DEF Calls
  <2>2. UNCHANGED <<stage, landed>> /\ (UNCHANGED dataVars \/ StartUpdate(<<Api, kind>>))
    BY <1>3 DEF ApiCall, chainVars
  <2> QED
    BY <2>1, <2>2
<1>4. CASE Terminated \/ UNCHANGED vars
  BY <1>4 DEF Terminated, vars
<1> QED
  BY <1>1, <1>2, <1>3, <1>4 DEF Next, Step

LEMMA NextReferences ==
  ASSUME ReferencesTyped, ChainInv, Holders!Inv, [Next]_vars
  PROVE  ReferencesTyped'
<1> USE DEF ReferencesTyped
<1>1. refs' \in [Txs -> References]
  <2>1. ASSUME NEW t \in Txs, TakeCoin(t) PROVE refs' \in [Txs -> References]
    <3>1. usedObjects[t] \cap DOMAIN cache \in SUBSET Objects
      BY DEF Holders!Inv, Holders!TypeInv
    <3>2. Cached(usedObjects[t]) \in [usedObjects[t] \cap DOMAIN cache -> Nat]
      BY ReferenceDomain DEF Cached
    <3>3. Cached(usedObjects[t]) \in References
      BY <3>1, <3>2, NewReference
    <3> QED
      BY <2>1, <3>3 DEF TakeCoin
  <2>2. ASSUME NEW t \in Txs, Resolve(t) PROVE refs' \in [Txs -> References]
    <3>1. usedObjects[t] \in SUBSET Objects
      BY DEF Holders!Inv, Holders!TypeInv
    <3>2. Resolved(t) \in [usedObjects[t] -> Nat]
      BY ReferenceDomain, VersionTyped DEF Resolved
    <3>3. Resolved(t) \in References
      BY <3>1, <3>2, NewReference
    <3> QED
      BY <2>2, <3>3 DEF Resolve
  <2> QED
    BY <2>1, <2>2, RefsStep
<1>2. cache' \in References
  <2>1. ASSUME NEW S, Forget(S) PROVE cache' \in References
    <3>1. DOMAIN cache \ S \in SUBSET Objects /\ cache' \in [DOMAIN cache \ S -> Nat]
      BY <2>1, ReferenceDomain DEF Forget
    <3> QED
      BY <3>1, NewReference
  <2>2. ASSUME cache' = <<>> PROVE cache' \in References
    <3>1. cache' \in [{} -> Nat]
      BY <2>2
    <3> QED
      BY <3>1, NewReference
  <2>3. ASSUME NEW c \in Calls, StartUpdate(c) PROVE cache' \in References
    BY <2>1, <2>2, <2>3, UpdateEffects
  <2>4. ASSUME NEW t \in Txs, Reply(t) PROVE cache' \in References
    <3>1. DOMAIN cache \cup DOMAIN refs[t] \in SUBSET Objects
      BY ReferenceDomain
    <3>2. cache' \in [DOMAIN cache \cup DOMAIN refs[t] -> Nat]
      BY <2>4, ReferenceDomain DEF Reply
    <3> QED
      BY <3>1, <3>2, NewReference
  <2>5. ASSUME NEW c \in Calls, UpdateEnds(c) PROVE cache' = cache
    BY <2>5 DEF UpdateEnds
  <2> QED
    BY <2>3, <2>4, <2>5, DataStep DEF dataVars
<1> QED
  BY <1>1, <1>2

LEMMA NextDigests ==
  ASSUME DigestsLanded, ChainInv, stage \in [Txs -> Stages], [Next]_vars
  PROVE  DigestsLanded'
<1> USE DEF DigestsLanded
<1>1. landed \subseteq landed'
  BY NextChain
<1>2. \A t \in Txs : stage'[t] = "sent" => t \in landed'
  BY <1>1, StageStep DEF StageMoves, Moves
<1>3. ({lastDigest, cacheDigest} \subseteq landed \cup {NoTx})' /\ waitsFor' \in [Calls -> landed' \cup {NoTx}]
  <2>1. CASE UNCHANGED dataVars
    BY <1>1, <2>1 DEF dataVars
  <2>2. ASSUME NEW t \in Txs, Reply(t)
        PROVE  ({lastDigest, cacheDigest} \subseteq landed \cup {NoTx})' /\ UNCHANGED waitsFor
    BY <2>2 DEF Reply, At, chainVars
  <2>3. ASSUME NEW c \in Calls, StartUpdate(c)
        PROVE  /\ ({lastDigest, cacheDigest} \subseteq landed \cup {NoTx})'
               /\ waitsFor' \in [Calls -> landed' \cup {NoTx}]
    BY <1>1, <2>3, UpdateEffects
  <2>4. ASSUME NEW c \in Calls, UpdateEnds(c)
        PROVE  /\ ({lastDigest, cacheDigest} \subseteq landed \cup {NoTx})'
               /\ waitsFor' \in [Calls -> landed' \cup {NoTx}]
    BY <1>1, <2>4 DEF UpdateEnds
  <2> QED
    BY <1>1, <2>1, <2>2, <2>3, <2>4, DataStep
<1> QED
  BY <1>2, <1>3

LEMMA NextData ==
  ASSUME DataInv, Holders!Inv, stage \in [Txs -> Stages], [Next]_vars
  PROVE  DataInv'
BY NextReferences, NextChain, NextDigests DEF DataInv

LEMMA InitData == Init => DataInv
<1> SUFFICES ASSUME Init PROVE DataInv
  OBVIOUS
<1>1. <<>> \in References
  <2>1. <<>> \in [{} -> Nat]
    OBVIOUS
  <2> QED
    BY <2>1, NewReference
<1> QED
  BY <1>1 DEF Init, DataInv, ReferencesTyped, ChainInv, DigestsLanded
-----------------------------------------------------------------------------
(* The cache and the chain.  An object in the cache has its current version*)
(* unless a transaction is under way with it; one that has been executed   *)
(* gave it the version after the one it names, and one that has come to    *)
(* its end leaves either that version in the cache or nothing.             *)
RefsAreUsed ==
  \A t \in Txs :
    /\ stage[t] = "resolve" => DOMAIN refs[t] \subseteq usedObjects[t]
    /\ stage[t] \in {"built", "sent"} => DOMAIN refs[t] = usedObjects[t]

SentIsNewest ==
  \A t \in Txs : stage[t] = "sent" => \A o \in usedObjects[t] : LedgerVersion(o) = refs[t][o] + 1

EndedIsCurrent ==
  \A t \in Txs : stage[t] = "ended" =>
    \A o \in usedObjects[t] \cap DOMAIN cache : cache[o] = LedgerVersion(o)

CacheInv == RefsAreUsed /\ SentIsNewest /\ EndedIsCurrent /\ CacheIsCurrent

LEMMA ReadyDisjoint ==
  ASSUME Holders!Inv, PlacesInv,
         NEW t \in Txs, NEW u \in Txs, t # u, stage[t] \in Begun, stage[u] \in Begun
  PROVE  usedObjects[t] \cap usedObjects[u] = {}
<1>1. Objs!Ready(t) /\ Objs!Ready(u)
  BY DEF PlacesInv, BegunHold
<1> QED
  BY <1>1 DEF Objs!Ready, Holders!Inv, Holders!GrantedOnce, Holders!Granted

LEMMA FlightDisjoint == Holders!Inv /\ PlacesInv => InFlightDisjoint
BY ReadyDisjoint DEF InFlightDisjoint, InFlight, Begun

(* The objects of a submitted transaction stay the same until its release. *)
LEMMA UsedStays ==
  ASSUME [Next]_vars, NEW u \in Txs, stage[u] # "new", ~ Release(u)
  PROVE  usedObjects'[u] = usedObjects[u]
<1>1. ASSUME NEW t \in Txs, NEW S \in SUBSET Objects, Submit(t, S), Objs!Acquire(t, S)
      PROVE  usedObjects'[u] = usedObjects[u]
  BY <1>1 DEF Submit, At, Objs!Acquire
<1>2. ASSUME NEW t \in Txs, Release(t), Objs!Release(t)
      PROVE  usedObjects'[u] = usedObjects[u]
  BY <1>2 DEF Objs!Release
<1>3. CASE UNCHANGED queueVars
  BY <1>3 DEF queueVars
<1> QED
  BY <1>1, <1>2, <1>3, ObjectStep

(* A step that resolves, executes, answers and releases nothing, and only  *)
(* takes something out of the cache, all objects of a transaction whose    *)
(* catch block is done among it.                                           *)
Quiet ==
  /\ UNCHANGED <<refs, landed>>
  /\ DOMAIN cache' \subseteq DOMAIN cache /\ \A o \in DOMAIN cache' : cache'[o] = cache[o]
  /\ \A u \in Txs :
       /\ stage[u] # "new" => usedObjects'[u] = usedObjects[u]
       /\ stage'[u] \in {"resolve", "built", "sent"} => stage'[u] = stage[u]
       /\ stage'[u] = "ended" =>
            \/ stage[u] = "ended"
            \/ stage[u] \in {"failed", "failedLock"} /\ usedObjects'[u] \cap DOMAIN cache' = {}
       /\ u \in InFlight => u \in InFlight'

LEMMA QuietCache ==
  ASSUME CacheInv, Quiet
  PROVE  CacheInv'
<1> USE DEF CacheInv, Quiet
<1>1. \A o : LedgerVersion(o)' = LedgerVersion(o)
  BY VersionStays
<1>2. RefsAreUsed'
  BY DEF RefsAreUsed
<1>3. SentIsNewest'
  BY <1>1 DEF SentIsNewest
<1>4. EndedIsCurrent'
  BY <1>1 DEF EndedIsCurrent
<1>5. CacheIsCurrent'
  <2> SUFFICES ASSUME NEW o \in DOMAIN cache', \A t \in InFlight' : o \notin usedObjects'[t]
               PROVE  cache'[o] = LedgerVersion(o)'
    BY DEF CacheIsCurrent
  <2>1. \A t \in InFlight : o \notin usedObjects[t]
    BY DEF InFlight
  <2> QED
    BY <1>1, <2>1 DEF CacheIsCurrent
<1> QED
  BY <1>2, <1>3, <1>4, <1>5

LEMMA ResolvingCache ==
  ASSUME CacheInv, ChainInv, stage \in [Txs -> Stages], refs \in [Txs -> References],
         NEW t \in Txs, TakeCoin(t) \/ Resolve(t)
  PROVE  CacheInv'
<1> USE DEF CacheInv
<1>1. /\ UNCHANGED <<queueVars, cache, landed>> /\ t \notin landed
      /\ \/ stage[t] \in {"coin", "refilled"} /\ stage' = [stage EXCEPT ![t] = "resolve"]
            /\ refs' = [refs EXCEPT ![t] = Cached(usedObjects[t])]
         \/ stage[t] = "resolve" /\ stage' = [stage EXCEPT ![t] = "built"]
            /\ refs' = [refs EXCEPT ![t] = Resolved(t)]
  BY DEF TakeCoin, Resolve, At, dataVars, chainVars, ChainInv, MayHaveLanded
<1>2. \A u \in Txs : u # t => refs'[u] = refs[u]
  BY <1>1
<1>3. \A o : LedgerVersion(o)' = LedgerVersion(o)
  BY <1>1, <1>2, VersionStays DEF ChainInv
<1>4. RefsAreUsed'
  BY <1>1 DEF RefsAreUsed, Cached, Resolved, queueVars
<1>5. SentIsNewest'
  BY <1>1, <1>2, <1>3 DEF SentIsNewest, queueVars
<1>6. EndedIsCurrent'
  BY <1>1, <1>3 DEF EndedIsCurrent, queueVars
<1>7. CacheIsCurrent'
  <2>1. InFlight \subseteq InFlight' /\ UNCHANGED usedObjects
    BY <1>1 DEF InFlight, queueVars
  <2> QED
    BY <1>1, <1>3, <2>1 DEF CacheIsCurrent
<1> QED
  BY <1>4, <1>5, <1>6, <1>7

(* The objects of t get new versions; nobody else under way uses them.     *)
LEMMA SendCache ==
  ASSUME CacheInv, DataInv, Holders!Inv, PlacesInv, NEW t \in Txs, Send(t)
  PROVE  CacheInv'
<1> USE DEF CacheInv, PlacesInv
<1>1. /\ stage[t] = "built" /\ stage' = [stage EXCEPT ![t] = "sent"] /\ landed' = landed \cup {t}
      /\ UNCHANGED <<usedObjects, refs, cache>> /\ Current(t)
  BY DEF Send, At, queueVars, dataVars
<1>2. DOMAIN refs[t] = usedObjects[t] /\ t \notin landed /\ ChainInv
  BY <1>1 DEF RefsAreUsed, DataInv, ChainInv, MayHaveLanded
<1>3. \A o : LedgerVersion(o)' = IF o \in usedObjects[t] THEN LedgerVersion(o) + 1 ELSE LedgerVersion(o)
  BY <1>1, <1>2, VersionGrows
<1>4. \A u \in Txs : u # t /\ stage[u] \in Begun => usedObjects[t] \cap usedObjects[u] = {}
  BY <1>1, ReadyDisjoint DEF Begun
<1>5. RefsAreUsed'
  BY <1>1 DEF RefsAreUsed
<1>6. SentIsNewest'
  <2>1. \A o \in usedObjects[t] : LedgerVersion(o)' = refs[t][o] + 1
    BY <1>1, <1>2, <1>3 DEF Current
  <2>2. \A u \in Txs : u # t /\ stage[u] = "sent" =>
          \A o \in usedObjects[u] : LedgerVersion(o)' = refs[u][o] + 1
    BY <1>3, <1>4 DEF SentIsNewest, Begun
  <2> QED
    BY <1>1, <2>1, <2>2 DEF SentIsNewest
<1>7. EndedIsCurrent'
  BY <1>1, <1>3, <1>4 DEF EndedIsCurrent, Begun
<1>8. CacheIsCurrent'
  <2>1. InFlight' = InFlight /\ t \in InFlight
    BY <1>1 DEF InFlight
  <2> QED
    BY <1>1, <1>3, <2>1 DEF CacheIsCurrent
<1> QED
  BY <1>5, <1>6, <1>7, <1>8

LEMMA ReplyCache ==
  ASSUME CacheInv, Holders!Inv, PlacesInv, NEW t \in Txs, Reply(t)
  PROVE  CacheInv'
<1> USE DEF CacheInv, PlacesInv
<1>1. /\ stage[t] = "sent" /\ stage' = [stage EXCEPT ![t] = "ended"]
      /\ UNCHANGED <<usedObjects, refs, landed>>
      /\ cache' = [o \in DOMAIN cache \cup usedObjects[t] |->
           IF o \in usedObjects[t] THEN refs[t][o] + 1 ELSE cache[o]]
  BY DEF Reply, At, queueVars, chainVars, RefsAreUsed
<1>2. \A o : LedgerVersion(o)' = LedgerVersion(o)
  BY <1>1, VersionStays
<1>3. \A u \in Txs : u # t /\ stage[u] \in Begun => usedObjects[t] \cap usedObjects[u] = {}
  BY <1>1, ReadyDisjoint DEF Begun
<1>4. RefsAreUsed'
  BY <1>1 DEF RefsAreUsed
<1>5. SentIsNewest'
  BY <1>1, <1>2 DEF SentIsNewest
<1>6. EndedIsCurrent'
  <2>1. \A o \in usedObjects[t] : cache'[o] = LedgerVersion(o)
    BY <1>1 DEF SentIsNewest
  <2>2. \A u \in Txs : u # t /\ stage[u] = "ended" =>
          \A o \in usedObjects[u] \cap DOMAIN cache' : o \in DOMAIN cache /\ cache'[o] = cache[o]
    BY <1>1, <1>3 DEF Begun
  <2> QED
    BY <1>1, <1>2, <2>1, <2>2 DEF EndedIsCurrent
<1>7. CacheIsCurrent'
  <2>1. InFlight' = InFlight /\ t \in InFlight
    BY <1>1 DEF InFlight
  <2> QED
    BY <1>1, <1>2, <2>1 DEF CacheIsCurrent
<1> QED
  BY <1>4, <1>5, <1>6, <1>7

(* The objects of t are free again: whatever the cache has of them is      *)
(* current.                                                                *)
LEMMA ReleaseCache ==
  ASSUME CacheInv, Holders!Inv, stage \in [Txs -> Stages], NEW t \in Txs, Release(t)
  PROVE  CacheInv'
<1> USE DEF CacheInv, Holders!Inv, Holders!TypeInv
<1>1. /\ stage[t] = "ended" /\ stage' = [stage EXCEPT ![t] = "released"]
      /\ usedObjects' = [usedObjects EXCEPT ![t] = {}]
      /\ UNCHANGED <<refs, cache, landed>>
  BY DEF Release, At, Objs!Release, dataVars, chainVars
<1>2. \A o : LedgerVersion(o)' = LedgerVersion(o)
  BY <1>1, VersionStays
<1>3. RefsAreUsed'
  BY <1>1 DEF RefsAreUsed
<1>4. SentIsNewest'
  BY <1>1, <1>2 DEF SentIsNewest
<1>5. EndedIsCurrent'
  BY <1>1, <1>2 DEF EndedIsCurrent
<1>6. CacheIsCurrent'
  <2> SUFFICES ASSUME NEW o \in DOMAIN cache, \A u \in InFlight' : o \notin usedObjects'[u]
               PROVE  cache[o] = LedgerVersion(o)
    BY <1>1, <1>2 DEF CacheIsCurrent
  <2>1. \A u \in InFlight : u # t => o \notin usedObjects[u]
    BY <1>1 DEF InFlight
  <2>2. CASE o \in usedObjects[t]
    BY <1>1, <2>2 DEF EndedIsCurrent
  <2>3. CASE o \notin usedObjects[t]
    BY <2>1, <2>3 DEF CacheIsCurrent
  <2> QED
    BY <2>2, <2>3
<1> QED
  BY <1>3, <1>4, <1>5, <1>6
(* All other steps are quiet.                                              *)
LEMMA QuietStep ==
  ASSUME PlacesInv, Holders!Inv, DataInv, [Next]_vars,
         \A t \in Txs : ~ (TakeCoin(t) \/ Resolve(t) \/ Send(t) \/ Reply(t) \/ Release(t))
  PROVE  Quiet
<1> USE DEF PlacesInv
<1>1. \A u \in Txs : stage[u] # "new" => usedObjects'[u] = usedObjects[u]
  BY UsedStays
<1>2. UNCHANGED refs
  BY RefsStep
<1>3. UNCHANGED landed
  BY ChainStep DEF chainVars
<1>4. UNCHANGED stage \/ \E t \in Txs : Submit(t, usedObjects'[t]) \/ Finish(t) \/ GoesOn(t)
  <2>1. ASSUME NEW t \in Txs, NEW S \in SUBSET Objects, Submit(t, S)
        PROVE  Submit(t, usedObjects'[t])
    BY <2>1 DEF Submit, Objs!Acquire, Holders!Inv, Holders!TypeInv
  <2>2. ASSUME \/ \E t \in Txs : Index(t)
               \/ \E c \in Calls : UpdateEnds(c)
               \/ \E kind \in ApiCalls : ApiCall(kind)
               \/ Terminated
               \/ UNCHANGED vars
        PROVE  UNCHANGED stage
    BY <2>2 DEF Index, UpdateEnds, ApiCall, Terminated, vars
  <2> QED
    BY <2>1, <2>2 DEF Next, Step, GoesOn
<1>5. \A u \in Txs : /\ stage'[u] \in {"resolve", "built", "sent"} => stage'[u] = stage[u]
                     /\ u \in InFlight => u \in InFlight'
                     /\ stage'[u] = "ended" => stage[u] = "ended" \/ Catch(u)
  <2>1. ASSUME NEW t \in Txs, BuildFails(t) \/ SendFails(t)
        PROVE  stage[t] # "ended" /\ stage' = [stage EXCEPT ![t] = "failed"]
    BY <2>1 DEF BuildFails, SendFails, At
  <2>2. ASSUME NEW t \in Txs, PassLock(t) \/ Refill(t)
        PROVE  \E to \in {"submittedLock", "coin", "coinLock", "refilled"} :
                 /\ stage[t] \in {"submitted", "submittedLock", "coin", "coinLock"}
                 /\ stage' = [stage EXCEPT ![t] = to]
    BY <2>2 DEF PassLock, Refill, UpdateCache, At
  <2>3. ASSUME NEW t \in Txs, Catch(t)
        PROVE  \E to \in {"failedLock", "ended"} :
                 /\ stage[t] \in {"failed", "failedLock"} /\ stage' = [stage EXCEPT ![t] = to]
    BY <2>3 DEF Catch, UpdateCache, At
  <2>4. ASSUME NEW t \in Txs, Submit(t, usedObjects'[t])
        PROVE  stage[t] = "new" /\ stage' = [stage EXCEPT ![t] = "submitted"]
    BY <2>4 DEF Submit, At
  <2>5. ASSUME NEW t \in Txs, Finish(t)
        PROVE  stage[t] = "released" /\ stage' = [stage EXCEPT ![t] = "done"]
    BY <2>5 DEF Finish, At
  <2>6. CASE UNCHANGED stage
    BY <2>6 DEF InFlight
  <2> QED
    BY <1>4, <2>1, <2>2, <2>3, <2>4, <2>5, <2>6 DEF GoesOn, InFlight
<1>6. DOMAIN cache' \subseteq DOMAIN cache /\ \A o \in DOMAIN cache' : cache'[o] = cache[o]
  <2>1. ASSUME NEW c \in Calls, StartUpdate(c)
        PROVE  DOMAIN cache' \subseteq DOMAIN cache /\ \A o \in DOMAIN cache' : cache'[o] = cache[o]
    <3>1. CASE Forget(usedObjects[c[1]])
      BY <3>1 DEF Forget
    <3>2. CASE cache' = <<>>
      BY <3>2
    <3> QED
      BY <2>1, <3>1, <3>2, UpdateEffects
  <2>2. ASSUME NEW c \in Calls, UpdateEnds(c) PROVE UNCHANGED cache
    BY <2>2 DEF UpdateEnds
  <2> QED
    BY <2>1, <2>2, DataStep DEF dataVars
<1>7. ASSUME NEW u \in Txs, stage'[u] = "ended", Catch(u), stage[u] # "ended"
      PROVE  stage[u] \in {"failed", "failedLock"} /\ usedObjects'[u] \cap DOMAIN cache' = {}
  <2>1. /\ StartUpdate(<<u, "error">>) /\ <<u, "error">> \in Calls
        /\ stage[u] \in {"failed", "failedLock"}
    BY <1>7 DEF Catch, UpdateCache, At, Calls
  <2>2. Forget(usedObjects[u])
    BY <2>1, UpdateEffects
  <2> QED
    BY <1>1, <2>1, <2>2 DEF Forget
<1> QED
  BY <1>1, <1>2, <1>3, <1>5, <1>6, <1>7 DEF Quiet

LEMMA NextCache ==
  ASSUME CacheInv, DataInv, PlacesInv, Holders!Inv, [Next]_vars
  PROVE  CacheInv'
<1>1. ChainInv /\ stage \in [Txs -> Stages] /\ refs \in [Txs -> References]
  BY DEF DataInv, ReferencesTyped, PlacesInv
<1> QED
  BY <1>1, QuietStep, QuietCache, ResolvingCache, SendCache, ReplyCache, ReleaseCache

-----------------------------------------------------------------------------
Inv == Holders!Inv /\ LockInv /\ PipelineInv /\ PlacesInv /\ DataInv /\ CacheInv

LEMMA InitInv == Init => Inv
<1> SUFFICES ASSUME Init PROVE Inv
  OBVIOUS
<1>1. Holders!Inv
  <2>1. Holders!Init
    BY DEF Init, Objs!Init, Holders!Init
  <2> QED
    BY <2>1, Holders!InitInv
<1>2. PipelineInv
  <2>1. Pipeline!PipelineInit
    BY DEF Init, Slots!Init, Build!Init, Built, PastBuild, Pipeline!PipelineInit, Pipeline!Init,
           Pipeline!Build!Init
  <2> QED
    BY <2>1, PipelineAssumption, Pipeline!InitPipelineInv DEF PipelineInv
<1>3. LockInv
  BY InitLock DEF Init
<1>4. CacheInv
  BY DEF Init, CacheInv, RefsAreUsed, SentIsNewest, EndedIsCurrent, CacheIsCurrent
<1> QED
  BY <1>1, <1>2, <1>3, <1>4, InitPlaces, InitData DEF Inv

LEMMA NextInv == Inv /\ [Next]_vars => Inv'
<1> SUFFICES ASSUME Inv, [Next]_vars PROVE Inv'
  OBVIOUS
<1> USE DEF Inv
<1>1. stage \in [Txs -> Stages]
  BY DEF PlacesInv
<1>2. Holders!Inv'
  BY HoldersStep
<1>3. LockInv'
  BY LockStep, NextLock
<1>4. PipelineInv'
  BY <1>1, PipelineStep, PipelineAssumption, Pipeline!NextPipelineInv DEF PipelineInv
<1>5. PlacesInv'
  BY NextPlaces
<1>6. DataInv'
  BY <1>1, NextData
<1>7. CacheInv'
  BY NextCache
<1> QED
  BY <1>2, <1>3, <1>4, <1>5, <1>6, <1>7

LEMMA SpecInv == Spec => []Inv
BY InitInv, NextInv, PTL DEF Spec
-----------------------------------------------------------------------------
(* When nothing fails and the cache is not reset, an object that has left  *)
(* version 0 is in the cache or with a transaction whose reply will put it *)
(* there, so that the fullnode is asked for untouched objects only.        *)
NoneFailed == \A t \in Txs : stage[t] \notin {"failed", "failedLock"}

UncachedAreUntouched ==
  \A o \in Objects \ DOMAIN cache :
    (\A t \in Txs : stage[t] = "sent" => o \notin usedObjects[t]) => LedgerVersion(o) = 0

ResolvedAreCurrent ==
  \A t \in Txs : stage[t] = "resolve" =>
    \A o \in usedObjects[t] : LedgerVersion(o) = IF o \in DOMAIN refs[t] THEN refs[t][o] ELSE 0

FreshInv == NoneFailed /\ UncachedAreUntouched /\ ResolvedAreCurrent /\ FreshRefs

NoFault == Faults = {} /\ "reset" \notin ApiCalls

LEMMA InitFresh == Init => FreshInv
<1> SUFFICES ASSUME Init PROVE FreshInv
  OBVIOUS
<1>1. \A o : LedgerVersion(o) = 0
  <2>1. \A o : {t \in landed : o \in DOMAIN refs[t]} = {}
    BY DEF Init
  <2> QED
    BY <2>1, FS_EmptySet DEF LedgerVersion, Version
<1> QED
  BY <1>1 DEF Init, FreshInv, NoneFailed, UncachedAreUntouched, ResolvedAreCurrent, FreshRefs

(* A step that changes nothing these say.                                  *)
LEMMA QuietFresh ==
  ASSUME FreshInv, Quiet, Holders!Inv', UNCHANGED cache,
         NoneFailed', \A u \in Txs : stage[u] = "sent" => stage'[u] = "sent" 
  PROVE  FreshInv'
<1> USE DEF FreshInv, Quiet
<1>1. \A o : LedgerVersion(o)' = LedgerVersion(o)
  BY VersionStays
<1>2. UncachedAreUntouched'
  BY <1>1 DEF UncachedAreUntouched
<1>3. ResolvedAreCurrent'
  BY <1>1 DEF ResolvedAreCurrent
<1>4. FreshRefs'
  BY <1>1 DEF FreshRefs, Current
<1> QED
  BY <1>2, <1>3, <1>4

(* Nothing fails, and nothing but a reply changes the cache.               *)
LEMMA NoneFails ==
  ASSUME NoFault, FreshInv, [Next]_vars, NEW t \in Txs
  PROVE  ~ (BuildFails(t) \/ SendFails(t) \/ Catch(t))
<1>1. ~ BuildFails(t)
  BY DEF NoFault, BuildFails
<1>2. ~ Catch(t)
  BY DEF FreshInv, NoneFailed, Catch, UpdateCache, At
<1>3. ~ SendFails(t)
  BY DEF NoFault, FreshInv, FreshRefs, SendFails, At
<1> QED
  BY <1>1, <1>2, <1>3

LEMMA OnlyRepliesCache ==
  ASSUME NoFault, FreshInv, [Next]_vars, \A t \in Txs : ~ Reply(t)
  PROVE  UNCHANGED cache
<1>1. ASSUME NEW c \in Calls, StartUpdate(c), c[2] \notin {"error", "reset"} PROVE UNCHANGED cache
  BY <1>1, UpdateEffects
<1>2. "error" \notin ApiCalls /\ "reset" \notin ApiCalls
  BY Bounds DEF NoFault
<1>3. ASSUME NEW c \in Calls, UpdateEnds(c) PROVE UNCHANGED cache
  BY <1>3 DEF UpdateEnds
<1> QED
  BY <1>1, <1>2, <1>3, NoneFails, DataStep DEF dataVars

LEMMA TakeCoinFresh ==
  ASSUME FreshInv, Inv, NEW t \in Txs, TakeCoin(t), NoneFailed'
  PROVE  FreshInv'
<1> USE DEF FreshInv, Inv, PlacesInv, DataInv, ReferencesTyped
<1>1. /\ stage[t] \in {"coin", "refilled"} /\ stage' = [stage EXCEPT ![t] = "resolve"]
      /\ refs' = [refs EXCEPT ![t] = Cached(usedObjects[t])]
      /\ UNCHANGED <<usedObjects, cache, landed>> /\ t \notin landed
  BY DEF TakeCoin, queueVars, dataVars, chainVars, ChainInv, MayHaveLanded
<1>2. \A o : LedgerVersion(o)' = LedgerVersion(o)
  BY <1>1, VersionStays DEF ChainInv
<1>3. \A u \in Txs : u # t /\ stage[u] \in Begun => usedObjects[t] \cap usedObjects[u] = {}
  BY <1>1, ReadyDisjoint DEF Begun
<1>4. \A o \in usedObjects[t] \cap DOMAIN cache : cache[o] = LedgerVersion(o)
  BY <1>1, <1>3 DEF CacheInv, CacheIsCurrent, InFlight, Begun
<1>5. \A o \in usedObjects[t] \ DOMAIN cache : LedgerVersion(o) = 0
  <2>1. usedObjects[t] \subseteq Objects
    BY DEF Holders!Inv, Holders!TypeInv
  <2> QED
    BY <1>1, <1>3, <2>1 DEF UncachedAreUntouched, Begun
<1>6. UncachedAreUntouched'
  BY <1>1, <1>2 DEF UncachedAreUntouched
<1>7. ResolvedAreCurrent'
  BY <1>1, <1>2, <1>4, <1>5 DEF ResolvedAreCurrent, Cached
<1>8. FreshRefs'
  BY <1>1, <1>2 DEF FreshRefs, Current
<1> QED
  BY <1>6, <1>7, <1>8

LEMMA ResolveFresh ==
  ASSUME FreshInv, Inv, NEW t \in Txs, Resolve(t), NoneFailed'
  PROVE  FreshInv'
<1> USE DEF FreshInv, Inv, PlacesInv, DataInv, ReferencesTyped
<1>1. /\ stage[t] = "resolve" /\ stage' = [stage EXCEPT ![t] = "built"]
      /\ refs' = [refs EXCEPT ![t] = Resolved(t)]
      /\ UNCHANGED <<usedObjects, cache, landed>> /\ t \notin landed
  BY DEF Resolve, At, queueVars, dataVars, chainVars, ChainInv, MayHaveLanded
<1>2. \A o : LedgerVersion(o)' = LedgerVersion(o)
  BY <1>1, VersionStays DEF ChainInv
<1>3. \A o \in usedObjects[t] : Resolved(t)[o] = LedgerVersion(o)
  <2> TAKE o \in usedObjects[t]
  <2>1. CASE o \in DOMAIN refs[t]
    BY <1>1, <2>1 DEF ResolvedAreCurrent, Resolved
  <2>2. CASE o \notin DOMAIN refs[t]
    <3>1. LedgerVersion(o) = 0
      BY <1>1, <2>2 DEF ResolvedAreCurrent
    <3>2. NodeVersion(o) = 0
      BY <3>1, VersionTyped
    <3> QED
      BY <2>2, <3>1, <3>2 DEF Resolved
  <2> QED
    BY <2>1, <2>2
<1>4. UncachedAreUntouched'
  BY <1>1, <1>2 DEF UncachedAreUntouched
<1>5. ResolvedAreCurrent'
  BY <1>1, <1>2 DEF ResolvedAreCurrent
<1>6. FreshRefs'
  <2>1. DOMAIN refs'[t] = usedObjects[t] /\ \A o \in usedObjects[t] : refs'[t][o] = Resolved(t)[o]
    BY <1>1 DEF Resolved
  <2> QED
    BY <1>1, <1>2, <1>3, <2>1 DEF FreshRefs, Current
<1> QED
  BY <1>4, <1>5, <1>6

LEMMA SendFresh ==
  ASSUME FreshInv, Inv, NEW t \in Txs, Send(t), NoneFailed'
  PROVE  FreshInv'
<1> USE DEF FreshInv, Inv, PlacesInv, DataInv
<1>1. /\ stage[t] = "built" /\ stage' = [stage EXCEPT ![t] = "sent"] /\ landed' = landed \cup {t}
      /\ UNCHANGED <<usedObjects, refs, cache>>
  BY DEF Send, At, queueVars, dataVars
<1>2. DOMAIN refs[t] = usedObjects[t] /\ t \notin landed
  BY <1>1 DEF CacheInv, RefsAreUsed, ChainInv, MayHaveLanded
<1>3. \A o : LedgerVersion(o)' = IF o \in usedObjects[t] THEN LedgerVersion(o) + 1 ELSE LedgerVersion(o)
  BY <1>1, <1>2, VersionGrows
<1>4. \A u \in Txs : u # t /\ stage[u] \in Begun => usedObjects[t] \cap usedObjects[u] = {}
  BY <1>1, ReadyDisjoint DEF Begun
<1>5. UncachedAreUntouched'
  BY <1>1, <1>3 DEF UncachedAreUntouched
<1>6. ResolvedAreCurrent'
  BY <1>1, <1>3, <1>4 DEF ResolvedAreCurrent, Begun
<1>7. FreshRefs'
  <2>1. \A u \in Txs : u # t /\ stage[u] = "built" => DOMAIN refs[u] = usedObjects[u]
    BY DEF CacheInv, RefsAreUsed
  <2> QED
    BY <1>1, <1>3, <1>4, <2>1 DEF FreshRefs, Current, Begun
<1> QED
  BY <1>5, <1>6, <1>7

LEMMA ReplyFresh ==
  ASSUME FreshInv, Inv, NEW t \in Txs, Reply(t), NoneFailed'
  PROVE  FreshInv'
<1> USE DEF FreshInv, Inv, PlacesInv
<1>1. /\ stage[t] = "sent" /\ stage' = [stage EXCEPT ![t] = "ended"]
      /\ UNCHANGED <<usedObjects, refs, landed>>
      /\ DOMAIN cache' = DOMAIN cache \cup usedObjects[t]
  BY DEF Reply, At, queueVars, chainVars, CacheInv, RefsAreUsed
<1>2. \A o : LedgerVersion(o)' = LedgerVersion(o)
  BY <1>1, VersionStays
<1>3. UncachedAreUntouched'
  BY <1>1, <1>2 DEF UncachedAreUntouched
<1>4. ResolvedAreCurrent' /\ FreshRefs'
  BY <1>1, <1>2 DEF ResolvedAreCurrent, FreshRefs, Current
<1> QED
  BY <1>3, <1>4

LEMMA ReleaseFresh ==
  ASSUME FreshInv, Inv, NEW t \in Txs, Release(t), NoneFailed'
  PROVE  FreshInv'
<1> USE DEF FreshInv, Inv, PlacesInv, Holders!Inv, Holders!TypeInv
<1>1. /\ stage[t] = "ended" /\ stage' = [stage EXCEPT ![t] = "released"]
      /\ usedObjects' = [usedObjects EXCEPT ![t] = {}]
      /\ UNCHANGED <<refs, cache, landed>>
  BY DEF Release, At, Objs!Release, dataVars, chainVars
<1>2. \A o : LedgerVersion(o)' = LedgerVersion(o)
  BY <1>1, VersionStays
<1>3. UncachedAreUntouched'
  BY <1>1, <1>2 DEF UncachedAreUntouched
<1>4. ResolvedAreCurrent' /\ FreshRefs'
  BY <1>1, <1>2 DEF ResolvedAreCurrent, FreshRefs, Current
<1> QED
  BY <1>3, <1>4

LEMMA NextFresh ==
  ASSUME NoFault, FreshInv, Inv, [Next]_vars
  PROVE  FreshInv'
<1>1. NoneFailed'
  <2> SUFFICES ASSUME NEW t \in Txs, stage'[t] \in {"failed", "failedLock"} PROVE FALSE
    BY DEF NoneFailed
  <2>1. stage[t] \notin {"failed", "failedLock"}
    BY DEF FreshInv, NoneFailed
  <2>2. \A u \in Txs : ~ (BuildFails(u) \/ SendFails(u) \/ Catch(u))
    BY NoneFails
  <2>3. stage \in [Txs -> Stages]
    BY DEF Inv, PlacesInv
  <2>4. ASSUME NEW u \in Txs, PassLock(u) \/ Refill(u) PROVE FALSE
    BY <2>1, <2>3, <2>4 DEF PassLock, Refill, UpdateCache, At
  <2>5. ASSUME NEW u \in Txs, TakeCoin(u) \/ Resolve(u) \/ Send(u) \/ Reply(u) PROVE FALSE
    BY <2>1, <2>3, <2>5 DEF TakeCoin, Resolve, Send, Reply, At
  <2>6. ASSUME NEW u \in Txs, Release(u) \/ Finish(u) \/ \E S \in SUBSET Objects : Submit(u, S)
        PROVE  FALSE
    BY <2>1, <2>3, <2>6 DEF Release, Finish, Submit, At
  <2>7. ASSUME \/ \E u \in Txs : Index(u)
               \/ \E c \in Calls : UpdateEnds(c)
               \/ \E kind \in ApiCalls : ApiCall(kind)
               \/ Terminated
               \/ UNCHANGED vars
        PROVE  FALSE
    BY <2>1, <2>7 DEF Index, UpdateEnds, ApiCall, Terminated, vars
  <2> QED
    BY <2>2, <2>4, <2>5, <2>6, <2>7 DEF Next, Step
<1>2. ASSUME \A t \in Txs : ~ (TakeCoin(t) \/ Resolve(t) \/ Send(t) \/ Reply(t) \/ Release(t))
      PROVE  FreshInv'
  <2>1. Quiet
    BY <1>2, QuietStep DEF Inv
  <2>2. UNCHANGED cache
    BY <1>2, OnlyRepliesCache
  <2>3. \A u \in Txs : stage[u] = "sent" => stage'[u] = "sent"
    <3> SUFFICES ASSUME NEW u \in Txs, stage[u] = "sent", stage'[u] # "sent" PROVE FALSE
      OBVIOUS
    <3>1. u \in InFlight' /\ stage'[u] \notin {"resolve", "built", "failed", "failedLock"}
      BY <1>1, <2>1 DEF Quiet, InFlight, NoneFailed
    <3> QED
      BY <2>1, <3>1 DEF Quiet, InFlight
  <2> QED
    BY <1>1, <2>1, <2>2, <2>3, QuietFresh, NextInv DEF Inv
<1> QED
  BY <1>1, <1>2, TakeCoinFresh, ResolveFresh, SendFresh, ReplyFresh, ReleaseFresh
-----------------------------------------------------------------------------
(* Each part runs within the executor as its own specification says: the   *)
(* object queues (parallel.ts:132-150, 295-302) are only ever touched by   *)
(* acquiring and releasing all objects of a transaction.                   *)
THEOREM ImplementsObjectQueues == Spec => Objs!Spec
<1>1. Init => Objs!Init
  BY DEF Init
<1>2. Inv /\ [Next]_vars => [Objs!Next]_(Objs!vars)
  BY HoldersStep DEF Inv
<1> QED
  BY <1>1, <1>2, SpecInv, PTL DEF Spec, Objs!Spec

(* The field #cacheLock and those that await it (parallel.ts:308-320) take *)
(* the steps of the lock alone, from whichever of the five callers.        *)
THEOREM ImplementsCacheLock == Spec => Lock!Spec
<1>1. Init => Lock!Init
  BY DEF Init
<1>2. [Next]_vars => [Lock!Next]_(Lock!vars)
  BY LockStep
<1> QED
  BY <1>1, <1>2, PTL DEF Spec, Lock!Spec

(* #executeQueue and #buildQueue (parallel.ts:124, 196) are pools of       *)
(* maxPoolSize slots and of one slot, although the tasks of one push onto  *)
(* the other and a release starts several at once.                         *)
THEOREM ImplementsPools == Spec => Pipeline!PoolSpec /\ Pipeline!BuildPoolSpec
<1>1. Init => Pipeline!Pool!Init /\ Pipeline!Build!Pool!Init
  BY DEF Init, Slots!Init, Build!Init, Pipeline!Pool!Init, Pipeline!Build!Pool!Init
<1>2. Inv /\ [Next]_vars => /\ [Pipeline!Pool!Next]_(Pipeline!Pool!vars)
                            /\ [Pipeline!Build!Pool!Next]_(Pipeline!Build!Pool!vars)
  <2> SUFFICES ASSUME Inv, [Next]_vars
               PROVE  /\ [Pipeline!Pool!Next]_(Pipeline!Pool!vars)
                      /\ [Pipeline!Build!Pool!Next]_(Pipeline!Build!Pool!vars)
    OBVIOUS
  <2>1. [Pipeline!PipelineNext]_(Pipeline!pipelineVars)
    BY PipelineStep DEF Inv, PlacesInv
  <2>2. /\ Pipeline!PipelineInv /\ [Pipeline!Next]_(Pipeline!vars)
        /\ [Pipeline!Build!Pool!Next]_(Pipeline!Build!Pool!vars)
    BY <2>1, PipelineAssumption, Pipeline!NextPipelineInv DEF Inv, PipelineInv
  <2>3. [Pipeline!Pool!Next]_(Pipeline!Pool!vars)
    BY <2>2, PipelineAssumption, Pipeline!PoolStep DEF Pipeline!PipelineInv
  <2> QED
    BY <2>2, <2>3
<1> QED
  BY <1>1, <1>2, SpecInv, PTL
  DEF Spec, Pipeline!PoolSpec, Pipeline!Pool!Spec, Pipeline!BuildPoolSpec,
      Pipeline!Build!PoolSpec, Pipeline!Build!Pool!Spec

-----------------------------------------------------------------------------
(* #lastDigest, the digest of the cache and those that updates wait for    *)
(* are of transactions that have been executed, or null; the fullnode      *)
(* serves executed transactions only.                                      *)
THEOREM TypeCorrect == Spec => []TypeOK
<1>1. Inv => TypeOK
  <2> SUFFICES ASSUME Inv PROVE TypeOK
    OBVIOUS
  <2>1. DataInv /\ stage \in [Txs -> Stages]
    BY DEF Inv, PlacesInv
  <2>2. (\A t \in Txs : DOMAIN refs[t] \subseteq Objects) /\ DOMAIN cache \subseteq Objects
    BY <2>1, ReferenceDomain DEF DataInv, ReferencesTyped
  <2> QED
    BY <2>1, <2>2 DEF DataInv, ChainInv, DigestsLanded, TypeOK, Stages, Begun
<1> QED
  BY <1>1, SpecInv, PTL

(* From the resolution of its references to its finally block a            *)
(* transaction has its objects for itself, through both task queues and    *)
(* whatever failed before (parallel.ts:132-150).                           *)
THEOREM InFlightNeverShare == Spec => []InFlightDisjoint
<1>1. Inv => InFlightDisjoint
  BY FlightDisjoint DEF Inv
<1> QED
  BY <1>1, SpecInv, PTL

(* No call of #updateCache sleeps on an update that has ended, although    *)
(* #cacheLock is overwritten by whoever passes it (parallel.ts:308-320).   *)
THEOREM SleepersAreWoken == Spec => []SleepersHaveUpdate
<1>1. Inv => SleepersHaveUpdate
  BY DEF Inv, LockInv
<1> QED
  BY <1>1, SpecInv, PTL

(* What the ObjectCache says of an object that no transaction is under way *)
(* with is its version on chain, for any number of transactions, failures, *)
(* lost replies and resets: the catch block takes the objects of a failed  *)
(* transaction out before the finally block gives them to another one.     *)
THEOREM CacheStaysCurrent == Spec => []CacheIsCurrent
<1>1. Inv => CacheIsCurrent
  BY DEF Inv, CacheInv
<1> QED
  BY <1>1, SpecInv, PTL

(* The promise of executors.mdx:134-138 where it holds: as long as nothing *)
(* fails and nobody resets the cache, every reference that is written into *)
(* a transaction is the object's current version when it is sent, however  *)
(* far the fullnode lags behind.                                           *)
THEOREM NeverStale ==
  ASSUME Faults = {}, "reset" \notin ApiCalls
  PROVE  Spec => []FreshRefs
<1>1. NoFault
  BY DEF NoFault
<1>2. Inv /\ FreshInv /\ [Next]_vars => FreshInv'
  BY <1>1, NextFresh
<1>3. FreshInv => FreshRefs
  BY DEF FreshInv
<1> QED
  BY <1>2, <1>3, InitFresh, SpecInv, PTL DEF Spec
=============================================================================
