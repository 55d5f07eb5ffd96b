------------------------------ MODULE TaskPool ------------------------------
(***************************************************************************)
(* What a promise queue of the transaction executors promises, without its *)
(* counters: tasks wait in the order in which they were handed over, at    *)
(* most Slots of them are started, and a slot is never left free while a   *)
(* task waits.  ParallelQueue implements this with Slots <- maxTasks and   *)
(* SerialQueue with Slots <- 1.                                            *)
(***************************************************************************)
EXTENDS Naturals, Sequences, FiniteSets, SequencesExt

CONSTANTS Tasks,  \* the tasks that may be handed to the queue
          Slots   \* how many of them may be started at the same time

VARIABLES waiting,  \* tasks not started yet, in order of arrival
          started   \* tasks started and not finished yet

vars == <<waiting, started>>

(* The blocks of tasks a caller may hand over at once, each task once.     *)
Blocks == UNION {SetToSeqs(S) : S \in (SUBSET Tasks) \ {{}}}

(* The number of tasks of the line w that find a slot next to those of s.  *)
Admitted(w, s) ==
  IF Len(w) <= Slots - Cardinality(s) THEN Len(w) ELSE Slots - Cardinality(s)

(* Every free slot goes to the task that has waited longest.               *)
Dispatch(w, s) ==
  /\ started' = s \cup ToSet(SubSeq(w, 1, Admitted(w, s)))
  /\ waiting' = SubSeq(w, Admitted(w, s) + 1, Len(w))

Init == waiting = <<>> /\ started = {}

(* A caller hands over the tasks of ts, one after the other.               *)
Arrive(ts) ==
  /\ ToSet(ts) \cap (started \cup ToSet(waiting)) = {}
  /\ Dispatch(waiting \o ts, started)

Depart(t) ==
  /\ t \in started
  /\ Dispatch(waiting, started \ {t})

Next == \/ \E ts \in Blocks : Arrive(ts)
        \/ \E t \in Tasks : Depart(t)

Spec == Init /\ [][Next]_vars
=============================================================================
