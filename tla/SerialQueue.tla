----------------------------- MODULE SerialQueue -----------------------------
(***************************************************************************)
(* SerialQueue of transactions/executor/queue.ts.  Its queue keeps the     *)
(* closure of the running task at the head until the finally callback of   *)
(* that task shifts it out and runs the next one; a push runs its own task *)
(* only when it finds itself alone.                                        *)
(***************************************************************************)
EXTENDS Naturals, Sequences, FiniteSets, SequencesExt

CONSTANT Tasks

VARIABLES queue,    \* the running task at the head, the waiting ones behind it
          running   \* tasks called and whose finally callback has not run

vars == <<queue, running>>

Blocks == UNION {SetToSeqs(S) : S \in (SUBSET Tasks) \ {{}}}

Init == queue = <<>> /\ running = {}

(* The calls runTask(ts[1]), runTask(ts[2]), ... of one synchronous        *)
(* stretch: only the first one can find the queue empty.                   *)
RunTasks(ts) ==
  /\ ToSet(ts) \cap (running \cup ToSet(queue)) = {}
  /\ queue' = queue \o ts
  /\ running' = IF Len(queue) = 0 /\ Len(ts) > 0 THEN running \cup {ts[1]} ELSE running

(* Mutants: the next task is not run, or the newest one is.                *)
FinishForgetsNext(t) ==
  /\ t \in running
  /\ queue' = Tail(queue)
  /\ running' = running \ {t}

FinishRunsLast(t) ==
  /\ t \in running
  /\ queue' = IF Len(queue) > 2 THEN <<Last(queue)>> \o Front(Tail(queue)) ELSE Tail(queue)
  /\ running' = (running \ {t}) \cup (IF queue' = <<>> THEN {} ELSE {Head(queue')})

(* The finally callback of a task that has settled, either way.            *)
Finish(t) ==
  /\ t \in running
  /\ queue' = Tail(queue)
  /\ running' = (running \ {t}) \cup (IF Len(queue) > 1 THEN {queue[2]} ELSE {})

Next == \/ \E ts \in Blocks : RunTasks(ts)
        \/ \E t \in Tasks : Finish(t)

Spec == Init /\ [][Next]_vars

-----------------------------------------------------------------------------
TypeOK == queue \in Seq(Tasks) /\ running \subseteq ToSet(queue)

(* Exactly the head of a nonempty queue runs: the shift of a finally       *)
(* callback always removes its own task and never somebody else's.         *)
OnlyHeadRuns ==
  /\ running = IF queue = <<>> THEN {} ELSE {queue[1]}
  /\ IsInjective(queue)

Pool == INSTANCE TaskPool
          WITH Slots <- 1,
               waiting <- IF queue = <<>> THEN <<>> ELSE Tail(queue),
               started <- running

(* The queue implements the abstract pool with a single slot.              *)
PoolSpec == Pool!Spec
=============================================================================
