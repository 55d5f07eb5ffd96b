---------------------------- MODULE ParallelQueue ----------------------------
(***************************************************************************)
(* ParallelQueue of transactions/executor/queue.ts: at most maxTasks       *)
(* promises at a time, the rest queued as closures.  A finished task hands *)
(* its slot directly to the head of the queue, without touching            *)
(* activeTasks; only a task that finds the queue empty gives the slot up.  *)
(*                                                                         *)
(* A step is a synchronous stretch of JavaScript.  A caller may start      *)
(* several tasks in one stretch (the executor does when one release frees  *)
(* several transactions), so RunTasks takes the block of the tasks handed  *)
(* over in it and states the effect of the calls one after the other.      *)
(***************************************************************************)
EXTENDS Naturals, Sequences, FiniteSets, SequencesExt

CONSTANTS Tasks,     \* the tasks; an identity may be used again once it is done
          maxTasks

ASSUMPTION TaskCount == IsFiniteSet(Tasks) /\ maxTasks \in Nat

VARIABLES queue,        \* closures of the tasks not started yet
          activeTasks,
          running       \* started tasks whose finally callback has not run

vars == <<queue, activeTasks, running>>

Blocks == UNION {SetToSeqs(S) : S \in (SUBSET Tasks) \ {{}}}

Init == queue = <<>> /\ activeTasks = 0 /\ running = {}

(* How many of the tasks of ts find activeTasks < maxTasks.                *)
Starts(ts) ==
  IF Len(ts) <= maxTasks - activeTasks THEN Len(ts) ELSE maxTasks - activeTasks

StartedNow(ts) == SubSeq(ts, 1, Starts(ts))

RunTasks(ts) ==
  /\ ToSet(ts) \cap (running \cup ToSet(queue)) = {}
  /\ activeTasks' = activeTasks + Starts(ts)
  /\ running' = running \cup ToSet(StartedNow(ts))
  /\ queue' = queue \o SubSeq(ts, Starts(ts) + 1, Len(ts))

(* Mutant: the callback hands the slot on and counts it as free as well.   *)
FinishCountsTwice(t) ==
  /\ t \in running
  /\ activeTasks' = activeTasks - 1
  /\ running' = (running \ {t}) \cup (IF queue = <<>> THEN {} ELSE {Head(queue)})
  /\ queue' = IF queue = <<>> THEN <<>> ELSE Tail(queue)

(* Mutant: the count goes down twice when nobody waits for the slot.       *)
FinishDecrementsTwice(t) ==
  /\ t \in running
  /\ activeTasks' = IF queue = <<>> THEN activeTasks - 2 ELSE activeTasks
  /\ running' = (running \ {t}) \cup (IF queue = <<>> THEN {} ELSE {Head(queue)})
  /\ queue' = IF queue = <<>> THEN <<>> ELSE Tail(queue)

(* Mutant: the task that was queued last gets the slot.                    *)
FinishPopsLast(t) ==
  /\ t \in running
  /\ queue # <<>>
  /\ running' = (running \ {t}) \cup {Last(queue)}
  /\ queue' = Front(queue)
  /\ UNCHANGED activeTasks

(* The finally callback of a task that has settled, either way.            *)
Finish(t) ==
  /\ t \in running
  /\ \/ /\ queue # <<>>
        /\ running' = (running \ {t}) \cup {Head(queue)}
        /\ queue' = Tail(queue)
        /\ UNCHANGED activeTasks
     \/ /\ queue = <<>>
        /\ running' = running \ {t}
        /\ activeTasks' = activeTasks - 1
        /\ UNCHANGED queue

Next == \/ \E ts \in Blocks : RunTasks(ts)
        \/ \E t \in Tasks : Finish(t)

Spec == Init /\ [][Next]_vars

-----------------------------------------------------------------------------
TypeOK == /\ queue \in Seq(Tasks)
          /\ activeTasks \in Nat
          /\ running \subseteq Tasks

(* activeTasks (queue.ts:38-46) counts the started tasks exactly, no       *)
(* task is queued twice or both queued and started, and the queue is used  *)
(* only while every slot is taken, so that no slot idles while tasks wait. *)
SlotCount ==
  /\ activeTasks = Cardinality(running)
  /\ activeTasks <= maxTasks
  /\ queue # <<>> => activeTasks = maxTasks
  /\ IsInjective(queue)
  /\ ToSet(queue) \cap running = {}

Pool == INSTANCE TaskPool WITH Slots <- maxTasks, waiting <- queue, started <- running

(* The queue implements the abstract pool: first come first served, never  *)
(* more than maxTasks started, no slot idle while a task waits.            *)
PoolSpec == Pool!Spec
=============================================================================
