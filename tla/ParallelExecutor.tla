-------------------------- MODULE ParallelExecutor --------------------------
(***************************************************************************)
(* ParallelTransactionExecutor: the path of a transaction from             *)
(* executeTransaction to its last callback, composed of the object queues, *)
(* the execute queue, the build queue and the cache lock, together with    *)
(* the object cache and the fullnode the references come from.  The gas    *)
(* pool is left to module GasPool; here a coin is got at once, after a     *)
(* refill, or not at all.                                                  *)
(*                                                                         *)
(* A step is a synchronous stretch of JavaScript; stretches that only      *)
(* microtasks separate and that touch nothing another stretch reads in     *)
(* between are one step.  The cache is the InMemoryCache, whose promises   *)
(* are resolved when they are returned.                                    *)
(***************************************************************************)
EXTENDS Naturals, Sequences, FiniteSets, SequencesExt

CONSTANTS Txs,          \* transactions the caller submits, each once
          Objects,      \* the owned objects they use as unresolved inputs
          MaxPoolSize,
          Faults,       \* what may fail: see Fault
          ApiCalls,     \* the public calls made: a subset of {"wait", "reset"}
          Api, NoLock, NoTx

Fault == {"price",    \* getLatestSuiSystemState or the refill transaction
          "build",    \* resolving the inputs, the dry run, the signer
          "execute",  \* executeTransactionBlock, before or after execution
          "timeout"}  \* waitForTransaction gives up

ASSUMPTION Bounds == /\ IsFiniteSet(Txs) /\ MaxPoolSize \in Nat \ {0}
                     /\ Faults \subseteq Fault /\ ApiCalls \subseteq {"wait", "reset"}

VARIABLES
  objectIdQueues, usedObjects, conflicts, active,   \* ObjectQueues
  executeQueue, activeTasks, executing,             \* ParallelQueue
  buildQueue, building,                             \* SerialQueue
  cacheLock, updating, awaited, woken,              \* CacheLock
  stage,        \* how far each transaction has got
  refs,         \* the object versions written into each transaction
  cache,        \* the owned objects' versions in the ObjectCache
  lastDigest,   \* #lastDigest of the executor
  cacheDigest,  \* #lastDigest of its CachingTransactionExecutor
  waitsFor,     \* the transaction that a running update waits for
  called,       \* the public calls made so far: each is made once (a bound)
  landed,       \* external: the transactions executed on chain
  indexed       \* external: those the fullnode serves

queueVars == <<objectIdQueues, usedObjects, conflicts, active>>
slotVars == <<executeQueue, activeTasks, executing>>
buildVars == <<buildQueue, building>>
lockVars == <<cacheLock, updating, awaited, woken>>
dataVars == <<cache, lastDigest, cacheDigest, waitsFor>>
chainVars == <<landed, indexed>>
vars == <<queueVars, slotVars, buildVars, lockVars, stage, refs, dataVars, called, chainVars>>

(* The calls of #updateCache: before the coin is taken, from the refill,   *)
(* from the catch block, and the two of the public interface.              *)
Calls == (Txs \X {"sync", "refill", "error"}) \cup ({Api} \X ApiCalls)

Objs == INSTANCE ObjectQueues
Slots == INSTANCE ParallelQueue
           WITH Tasks <- Txs, maxTasks <- MaxPoolSize, queue <- executeQueue, running <- executing
Build == INSTANCE SerialQueue WITH Tasks <- Txs, queue <- buildQueue, running <- building
Lock == INSTANCE CacheLock WITH Callers <- Calls, Updaters <- {c \in Calls : c[2] # "sync"}

-----------------------------------------------------------------------------
(* The chain and the fullnode.  Every transaction that executes gives each *)
(* of its objects a new version.                                           *)
Version(o, txs) == Cardinality({t \in txs : o \in DOMAIN refs[t]})

LedgerVersion(o) == Version(o, landed)

NodeVersion(o) == Version(o, indexed)

(* The fullnode serves a transaction after those it depends on.            *)
Index(t) ==
  /\ t \in landed \ indexed
  /\ \A o \in DOMAIN refs[t] : NodeVersion(o) = refs[t][o]
  /\ indexed' = indexed \cup {t}
  /\ UNCHANGED <<queueVars, slotVars, buildVars, lockVars, stage, refs, dataVars, called, landed>>

-----------------------------------------------------------------------------
Init ==
  /\ Objs!Init /\ Slots!Init /\ Build!Init /\ Lock!Init
  /\ stage = [t \in Txs |-> "new"]
  /\ refs = [t \in Txs |-> <<>>]
  /\ cache = <<>>
  /\ lastDigest = NoTx /\ cacheDigest = NoTx
  /\ waitsFor = [c \in Calls |-> NoTx]
  /\ called = {}
  /\ landed = {} /\ indexed = {}

At(t, from, to) == stage[t] = from /\ stage' = [stage EXCEPT ![t] = to]

(* execute() of the transactions of ts in one stretch: those that get a    *)
(* slot run #execute up to its first await, the push onto the build queue. *)
Execute(ts) == Slots!RunTasks(ts) /\ Build!RunTasks(Slots!StartedNow(ts))

(* executeTransaction, from the reply of #getUsedObjects on.               *)
Submit(t, S) ==
  /\ At(t, "new", "submitted")
  /\ Objs!Acquire(t, S)
  /\ Execute(IF Objs!Taken(S) = {} THEN <<t>> ELSE <<>>)
  /\ UNCHANGED <<lockVars, refs, dataVars, called, chainVars>>

-----------------------------------------------------------------------------
(* What an update does when it starts; the digest it waits for is taken    *)
(* out of #lastDigest there and then.                                      *)
WaitForLastDigest(c) ==
  /\ waitsFor' = [waitsFor EXCEPT ![c] = lastDigest]
  /\ lastDigest' = NoTx
  /\ UNCHANGED cacheDigest

Forget(S) == cache' = [o \in DOMAIN cache \ S |-> cache[o]]

(* Mutant: the failed transaction's objects stay in the cache.             *)
StartUpdateKeepsObjects(c) ==
  CASE c[2] = "error" -> UNCHANGED cache /\ WaitForLastDigest(c)
    [] c[2] \in {"refill", "wait"} -> UNCHANGED cache /\ WaitForLastDigest(c)
    [] c[2] = "reset" ->
         /\ cache' = <<>>
         /\ waitsFor' = [waitsFor EXCEPT ![c] = cacheDigest]
         /\ UNCHANGED <<lastDigest, cacheDigest>>
    [] c[2] = "sync" -> UNCHANGED dataVars

StartUpdate(c) ==
  CASE c[2] = "error" -> Forget(usedObjects[c[1]]) /\ WaitForLastDigest(c)
    [] c[2] \in {"refill", "wait"} -> UNCHANGED cache /\ WaitForLastDigest(c)
    [] c[2] = "reset" ->
         /\ cache' = <<>>
         /\ waitsFor' = [waitsFor EXCEPT ![c] = cacheDigest]
         /\ UNCHANGED <<lastDigest, cacheDigest>>
    [] c[2] = "sync" -> UNCHANGED dataVars

(* A call of #updateCache in stage from: it returns, in stage to, or waits *)
(* for the lock in the meantime, in stage wait.                            *)
UpdateCache(t, kind, from, wait, to) ==
  /\ \/ At(t, from, to) /\ Lock!CallEnters(<<t, kind>>) /\ StartUpdate(<<t, kind>>)
     \/ At(t, from, wait) /\ Lock!CallWaits(<<t, kind>>) /\ UNCHANGED dataVars
     \/ At(t, wait, to) /\ Lock!Resume(<<t, kind>>) /\ StartUpdate(<<t, kind>>)
  /\ UNCHANGED <<queueVars, slotVars, buildVars, refs, called, chainVars>>

Landed(c) == waitsFor[c] \in indexed \cup {NoTx}

(* The promise of an update settles.  A reset nulls the cache's #lastDigest *)
(* only now, whatever has been stored there since.                         *)
UpdateEnds(c) ==
  /\ \/ Landed(c) /\ Lock!Settle(c, TRUE)
        /\ cacheDigest' = IF c[2] = "reset" /\ waitsFor[c] # NoTx THEN NoTx ELSE cacheDigest
     \/ ~ Landed(c) /\ "timeout" \in Faults /\ Lock!Settle(c, FALSE) /\ UNCHANGED cacheDigest
  /\ waitsFor' = [waitsFor EXCEPT ![c] = NoTx]
  /\ UNCHANGED <<queueVars, slotVars, buildVars, stage, refs, cache, lastDigest, called, chainVars>>

(* The public waitForLastTransaction and resetCache.                       *)
ApiCall(kind) ==
  LET c == <<Api, kind>> IN
  /\ \/ kind \notin called /\ Lock!CallEnters(c) /\ StartUpdate(c)
     \/ kind \notin called /\ Lock!CallWaits(c) /\ UNCHANGED dataVars
     \/ Lock!Resume(c) /\ StartUpdate(c)
  /\ called' = called \cup {kind}
  /\ UNCHANGED <<queueVars, slotVars, buildVars, stage, refs, chainVars>>

-----------------------------------------------------------------------------
(* The task of the build queue.  A transaction that is at the head waits   *)
(* for the gas price, passes the cache lock, takes a coin, fills its       *)
(* references in from the cache and asks the fullnode for the others.      *)

(* The task rejects: its finally callback starts the next build.           *)
BuildFails(t) ==
  /\ t \in building
  /\ \/ "price" \in Faults /\ stage[t] \in {"submitted", "coin", "refilled"}
     \/ "build" \in Faults /\ stage[t] = "resolve"
  /\ stage' = [stage EXCEPT ![t] = "failed"]
  /\ Build!Finish(t)
  /\ UNCHANGED <<queueVars, slotVars, lockVars, refs, dataVars, called, chainVars>>

PassLock(t) == t \in building /\ UpdateCache(t, "sync", "submitted", "submittedLock", "coin")

(* The pool is empty: #refillCoinPool waits for the last transaction.      *)
Refill(t) == UpdateCache(t, "refill", "coin", "coinLock", "refilled")

Cached(S) == [o \in S \cap DOMAIN cache |-> cache[o]]

TakeCoin(t) ==
  /\ stage[t] \in {"coin", "refilled"}
  /\ stage' = [stage EXCEPT ![t] = "resolve"]
  /\ refs' = [refs EXCEPT ![t] = Cached(usedObjects[t])]
  /\ UNCHANGED <<queueVars, slotVars, buildVars, lockVars, dataVars, called, chainVars>>

(* The references that are not cached come from the fullnode.              *)
Resolved(t) == [o \in usedObjects[t] |->
                  IF o \in DOMAIN refs[t] THEN refs[t][o] ELSE NodeVersion(o)]

(* Mutant: #lastDigest is set when the bytes, and so the digest, are known.*)
ResolveRecordsDigest(t) ==
  /\ At(t, "resolve", "built")
  /\ refs' = [refs EXCEPT ![t] = Resolved(t)]
  /\ Build!Finish(t)
  /\ lastDigest' = t
  /\ UNCHANGED <<queueVars, slotVars, lockVars, cache, cacheDigest, waitsFor, called, chainVars>>

(* The fullnode answers, and the build task ends.                          *)
Resolve(t) ==
  /\ At(t, "resolve", "built")
  /\ refs' = [refs EXCEPT ![t] = Resolved(t)]
  /\ Build!Finish(t)
  /\ UNCHANGED <<queueVars, slotVars, lockVars, dataVars, called, chainVars>>

(* The network accepts t only if each of its input versions is current.    *)
Current(t) == \A o \in DOMAIN refs[t] : refs[t][o] = LedgerVersion(o)

(* executeTransactionBlock: the network executes the transaction.          *)
Send(t) ==
  /\ Current(t)
  /\ At(t, "built", "sent")
  /\ landed' = landed \cup {t}
  /\ UNCHANGED <<queueVars, slotVars, buildVars, lockVars, refs, dataVars, called, indexed>>

(* The network rejects it, the signing or the call fails, or the reply to  *)
(* an executed transaction is lost.                                        *)
SendFails(t) ==
  /\ \/ At(t, "built", "failed") /\ (~ Current(t) \/ {"build", "execute"} \cap Faults # {})
     \/ At(t, "sent", "failed") /\ "execute" \in Faults
  /\ UNCHANGED <<queueVars, slotVars, buildVars, lockVars, refs, dataVars, called, chainVars>>

(* Mutant: the effects are not written to the cache.                       *)
ReplyWithoutEffects(t) ==
  /\ At(t, "sent", "ended")
  /\ cacheDigest' = t
  /\ lastDigest' = t
  /\ UNCHANGED <<queueVars, slotVars, buildVars, lockVars, refs, cache, waitsFor, called, chainVars>>

(* The reply with the effects: the cache takes the new versions.           *)
Reply(t) ==
  /\ At(t, "sent", "ended")
  /\ cache' = [o \in DOMAIN cache \cup DOMAIN refs[t] |->
       IF o \in DOMAIN refs[t] THEN refs[t][o] + 1 ELSE cache[o]]
  /\ cacheDigest' = t
  /\ lastDigest' = t
  /\ UNCHANGED <<queueVars, slotVars, buildVars, lockVars, refs, waitsFor, called, chainVars>>

Catch(t) == UpdateCache(t, "error", "failed", "failedLock", "ended")

(* Mutant: the transactions that the release frees are not executed.       *)
ReleaseWithoutExecute(t) ==
  /\ At(t, "ended", "released")
  /\ Objs!Release(t)
  /\ UNCHANGED <<slotVars, buildVars, lockVars, refs, dataVars, called, chainVars>>

(* The finally block.                                                      *)
Release(t) ==
  /\ At(t, "ended", "released")
  /\ Objs!Release(t)
  /\ \E ts \in SetToSeqs(Objs!Woken(t)) : Execute(ts)
  /\ UNCHANGED <<lockVars, refs, dataVars, called, chainVars>>

(* The finally callback of the execute queue hands the slot on.            *)
Finish(t) ==
  /\ At(t, "released", "done")
  /\ Slots!Finish(t)
  /\ Build!RunTasks(IF executeQueue = <<>> THEN <<>> ELSE <<Head(executeQueue)>>)
  /\ UNCHANGED <<queueVars, lockVars, refs, dataVars, called, chainVars>>

-----------------------------------------------------------------------------
Step(t) ==
  \/ BuildFails(t) \/ PassLock(t) \/ Refill(t) \/ TakeCoin(t) \/ Resolve(t)
  \/ Send(t) \/ SendFails(t) \/ Reply(t) \/ Catch(t) \/ Release(t) \/ Finish(t)

(* All transactions are done.                                              *)
Terminated ==
  /\ \A t \in Txs : stage[t] = "done"
  /\ updating = {} /\ woken = {}
  /\ UNCHANGED vars

Next ==
  \/ \E t \in Txs : Step(t) \/ Index(t) \/ \E S \in SUBSET Objects : Submit(t, S)
  \/ \E c \in Calls : UpdateEnds(c)
  \/ \E kind \in ApiCalls : ApiCall(kind)
  \/ Terminated

(* Replies arrive or fail, callbacks run, and the fullnode serves what has *)
(* landed.  Nobody has to submit a transaction or call the interface.      *)
Spec ==
  /\ Init /\ [][Next]_vars
  /\ \A t \in Txs : WF_vars(Step(t)) /\ WF_vars(Index(t))
  /\ \A c \in Calls : WF_vars(UpdateEnds(c))

-----------------------------------------------------------------------------
TypeOK ==
  /\ stage \in [Txs -> {"new", "submitted", "submittedLock", "coin", "coinLock", "refilled",
                        "resolve", "built", "sent", "failed", "failedLock", "ended",
                        "released", "done"}]
  /\ \A t \in Txs : DOMAIN refs[t] \subseteq Objects
  /\ DOMAIN cache \subseteq Objects
  /\ {lastDigest, cacheDigest} \subseteq landed \cup {NoTx}
  /\ waitsFor \in [Calls -> landed \cup {NoTx}]
  /\ indexed \subseteq landed /\ landed \subseteq Txs

InFlight == {t \in Txs : stage[t] \in {"resolve", "built", "sent", "failed", "failedLock", "ended"}}

(* Transactions between the resolution of their references and the release *)
(* of their objects share no object, whatever failed before.               *)
InFlightDisjoint ==
  \A t, u \in InFlight : t # u => usedObjects[t] \cap usedObjects[u] = {}

(* What the cache says of an object that no transaction is using is the    *)
(* version on chain, however many transactions failed, lost their reply or *)
(* were reset around: a failed transaction's objects leave the cache       *)
(* before anybody else gets them.                                          *)
CacheIsCurrent ==
  \A o \in DOMAIN cache :
    (\A t \in InFlight : o \notin usedObjects[t]) => cache[o] = LedgerVersion(o)

(* A call of #updateCache that waits sleeps on an update that is still     *)
(* running and will wake it, even if #cacheLock has been overwritten by    *)
(* then or a failed update has left its promise there.                     *)
SleepersHaveUpdate == Lock!SleepersHaveUpdate

(* executors.mdx:134-138: the executor avoids executing transactions with  *)
(* stale object versions.                                                  *)
FreshRefs == \A t \in Txs : stage[t] = "built" => Current(t)

(* Every submitted transaction comes to its end and gives its slot back,   *)
(* whatever fails around it and however often the lock is overwritten.     *)
SubmittedEnds == \A t \in Txs : stage[t] = "submitted" ~> stage[t] = "done"
=============================================================================
