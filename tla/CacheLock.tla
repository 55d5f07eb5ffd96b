------------------------------ MODULE CacheLock ------------------------------
(***************************************************************************)
(* #updateCache of ParallelTransactionExecutor.  A call awaits the promise *)
(* in #cacheLock, if there is one, and then, whatever the field holds by   *)
(* now, starts its update and stores the new promise.  It does not await   *)
(* that promise: a call returns as soon as its update has started.  A call *)
(* without an update stores null.  A successful update stores null when it *)
(* ends, a failed one leaves its resolved promise in the field.            *)
(***************************************************************************)
EXTENDS FiniteSets

CONSTANTS Callers,   \* the calls of #updateCache, one at a time each
          Updaters,  \* those that pass an update
          NoLock     \* null

VARIABLES cacheLock,  \* whose update's promise the field holds
          updating,   \* callers whose update has not ended
          awaited,    \* the update whose end a call waits for
          woken       \* calls that have awaited a promise that is resolved

vars == <<cacheLock, updating, awaited, woken>>

Init ==
  /\ cacheLock = NoLock
  /\ updating = {}
  /\ awaited = [c \in Callers |-> NoLock]
  /\ woken = {}

Waiting(c) == awaited[c] # NoLock \/ c \in woken

(* The rest of a call, once it has got past the lock.                      *)
Enter(c) ==
  /\ cacheLock' = IF c \in Updaters THEN c ELSE NoLock
  /\ updating' = IF c \in Updaters THEN updating \cup {c} ELSE updating

(* A call that finds no lock runs to its end at once; one that finds the   *)
(* resolved promise of a failed update still gives up the current turn.    *)
CallEnters(c) ==
  /\ ~ Waiting(c) /\ c \notin updating
  /\ cacheLock = NoLock
  /\ Enter(c)
  /\ UNCHANGED <<awaited, woken>>

CallWaits(c) ==
  /\ ~ Waiting(c) /\ c \notin updating
  /\ cacheLock # NoLock
  /\ IF cacheLock \in updating
     THEN awaited' = [awaited EXCEPT ![c] = cacheLock] /\ UNCHANGED woken
     ELSE woken' = woken \cup {c} /\ UNCHANGED awaited
  /\ UNCHANGED <<cacheLock, updating>>

Resume(c) ==
  /\ c \in woken
  /\ woken' = woken \ {c}
  /\ Enter(c)
  /\ UNCHANGED awaited

(* Mutant: without a rejection handler the waiters of a failed update are  *)
(* not woken.                                                              *)
SettleForgetsFailure(c, ok) ==
  /\ c \in updating
  /\ updating' = updating \ {c}
  /\ cacheLock' = IF ok THEN NoLock ELSE cacheLock
  /\ woken' = IF ok THEN woken \cup {d \in Callers : awaited[d] = c} ELSE woken
  /\ awaited' = IF ok THEN [d \in Callers |-> IF awaited[d] = c THEN NoLock ELSE awaited[d]]
                ELSE awaited

(* The update of c ends: its promise resolves and wakes all the waiters.   *)
Settle(c, ok) ==
  /\ c \in updating
  /\ updating' = updating \ {c}
  /\ cacheLock' = IF ok THEN NoLock ELSE cacheLock
  /\ woken' = woken \cup {d \in Callers : awaited[d] = c}
  /\ awaited' = [d \in Callers |-> IF awaited[d] = c THEN NoLock ELSE awaited[d]]

Next == \E c \in Callers :
  \/ CallEnters(c) \/ CallWaits(c) \/ Resume(c)
  \/ \E ok \in BOOLEAN : Settle(c, ok)

Spec == Init /\ [][Next]_vars

-----------------------------------------------------------------------------
(* A waiting call sleeps on an update that is still running, which will    *)
(* wake it, even when the field has been overwritten in the meantime.      *)
SleepersHaveUpdate ==
  \A c \in Callers :
    /\ awaited[c] # NoLock => awaited[c] \in updating
    /\ awaited[c] # NoLock => c \notin woken
=============================================================================
