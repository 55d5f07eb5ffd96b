---------------------------- MODULE ConflictLine ----------------------------
(***************************************************************************)
(* What the parallel executor promises about transactions that use the     *)
(* same owned objects, without its queues: a transaction stands behind all *)
(* those that were submitted before it and have not ended, and may be      *)
(* executed once none of them uses an object that it uses.  Transactions   *)
(* without a common object never wait for each other.                      *)
(***************************************************************************)
CONSTANTS Txs, Objects

VARIABLES submitted,  \* the transactions that have not ended
          ahead,      \* those of them that each one stands behind
          uses        \* the objects that each of them uses

vars == <<submitted, ahead, uses>>

(* The objects for which t has to wait.                                    *)
Contended(t) == {o \in uses[t] : \E u \in ahead[t] : o \in uses[u]}

Init ==
  /\ submitted = {}
  /\ ahead = [t \in Txs |-> {}]
  /\ uses = [t \in Txs |-> {}]

(* A transaction joins the end of the line.                                *)
Join(t) == ahead' = [ahead EXCEPT ![t] = submitted]

(* A transaction leaves the line, wherever it stands.                      *)
Leave(t) == ahead' = [u \in Txs |-> IF u = t THEN {} ELSE ahead[u] \ {t}]

Submit(t, S) ==
  /\ t \notin submitted
  /\ submitted' = submitted \cup {t}
  /\ Join(t)
  /\ uses' = [uses EXCEPT ![t] = S]

End(t) ==
  /\ t \in submitted /\ Contended(t) = {}
  /\ submitted' = submitted \ {t}
  /\ Leave(t)
  /\ uses' = [uses EXCEPT ![t] = {}]

Next == \E t \in Txs : End(t) \/ \E S \in SUBSET Objects : Submit(t, S)

Spec == Init /\ [][Next]_vars
=============================================================================
