------------------------- MODULE ObjectQueuesHistory -------------------------
(* ObjectQueues with a history variable: the order in which the submitted   *)
(* transactions were submitted.  It constrains no step.                     *)
EXTENDS ObjectQueues

VARIABLE ahead  \* the transactions submitted before each one that are active

hvars == <<vars, ahead>>

Line == INSTANCE ConflictLine WITH submitted <- active, uses <- usedObjects

HInit == Init /\ ahead = [t \in Txs |-> {}]

HNext ==
  \E t \in Txs :
    \/ \E S \in SUBSET Objects : Acquire(t, S) /\ Line!Join(t)
    \/ Release(t) /\ Line!Leave(t)

(* A transaction that may execute ends at some time, either way.           *)
HSpec ==
  /\ HInit /\ [][HNext]_hvars
  /\ \A t \in Txs : WF_hvars(Release(t) /\ Line!Leave(t))

(* A transaction waits for exactly the objects that one submitted before   *)
(* it uses, so conflicting transactions execute in the order of submission *)
(* and no others wait.                                                     *)
ConflictsAreContention == \A t \in active : conflicts[t] = Line!Contended(t)

(* The per-object queues implement the line.                               *)
LineSpec == Line!Spec
=============================================================================
