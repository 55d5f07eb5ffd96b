--------------------------- MODULE SerialExecutor ---------------------------
(***************************************************************************)
(* SerialTransactionExecutor over CachingTransactionExecutor and           *)
(* ObjectCache: one transaction at a time is built from the cache or from  *)
(* what the fullnode serves, clean, and its effects are cached; a refused   *)
(* one resets the cache.  The signer may use its objects elsewhere.        *)
(*                                                                         *)
(* A version is the number of the transaction that wrote it, so version 0  *)
(* is the state at first, and No stands for an entry that is not cached.   *)
(***************************************************************************)
EXTENDS Integers, Sequences, FiniteSets, SequencesExt

CONSTANTS Txs,
          Uses,        \* the unresolved object input of each transaction
          BuildOnly,   \* those passed to buildTransaction only
          Coins, Objects,
          Faults,      \* what may fail: see Fault
          MaxElsewhere,    \* bound: transactions of the signer made elsewhere
          Patient      \* whether the caller makes its other calls only while
                       \* nothing is queued, and awaits them before it goes on

Fault == {"failed",    \* a request of the resolver fails, or signTransaction
          "refused",   \* executeTransactionBlock fails and nothing is executed
          "lost",      \* it fails although the transaction is executed
          "timeout"}   \* waitForTransaction gives up

Thing == Coins \cup Objects

ASSUMPTION Sizes == /\ IsFiniteSet(Txs) /\ Uses \in [Txs -> Objects] /\ BuildOnly \subseteq Txs
                    /\ Coins \cap Objects = {} /\ Coins # {} /\ Faults \subseteq Fault
                    /\ MaxElsewhere \in Nat /\ Patient \in BOOLEAN

VARIABLES queue, running,  \* SerialQueue
          pc,              \* how far the running task is
          refs,            \* the references written into its transaction
          mine,            \* the transaction it has executed
          owned,           \* OwnedObject entries of the cache: thing -> version
          shared,          \* the SharedOrImmutableObject entries
          gasCoin,         \* the Custom entry "gasCoin"
          lastDigest,      \* #lastDigest of the caching executor
          awaits,          \* what waitForLastTransaction waits for, per caller
          done,            \* transactions that have settled
          clean,           \* for the properties: no effects were cached since
                           \* a reset after an error
          ledger,          \* external: what each transaction on chain wrote
          indexed,         \* external: how many of them the fullnode serves
          told,            \* for the properties: the last transaction on each thing
                           \* that the executor knows of; No after a timeout
          elsewhere        \* external: those not made by the executor

queueVars == <<queue, running>>
cacheVars == <<owned, shared, gasCoin, lastDigest>>
chainVars == <<ledger, indexed, told, elsewhere>>
vars == <<queueVars, pc, refs, mine, cacheVars, awaits, done, clean, chainVars>>

Queue == INSTANCE SerialQueue WITH Tasks <- Txs

No == -1
NoCoin == [id |-> "none", version |-> No]

Owner == {"signer", "other", "shared", "gone"}

(* The state of the chain after its first k transactions.                  *)
VersionAt(x, k) == LET W == {i \in 1..k : x \in DOMAIN ledger[i].writes}
                   IN  IF W = {} THEN 0 ELSE Max(W)

OwnerAt(x, k) == LET v == VersionAt(x, k)
                 IN  IF v = 0 THEN "signer" ELSE ledger[v].writes[x]

Now == Len(ledger)

Ref(x, v) == [id |-> x, version |-> v]

(* A shared object is named without its version.                           *)
SharedRef(x) == Ref(x, No)

Valid(r) == IF r.version = No THEN OwnerAt(r.id, Now) = "shared"
            ELSE OwnerAt(r.id, Now) = "signer" /\ VersionAt(r.id, Now) = r.version

Init ==
  /\ Queue!Init /\ pc = "idle" /\ refs = {} /\ mine = 0
  /\ owned = [x \in Thing |-> No] /\ shared = {} /\ gasCoin = NoCoin /\ lastDigest = 0
  /\ awaits = [w \in {"task", "user"} |-> 0]
  /\ done = {} /\ clean = FALSE
  /\ ledger = <<>> /\ indexed = 0 /\ told = [x \in Thing |-> 0] /\ elsewhere = {}
-----------------------------------------------------------------------------
(* Mutants: the effects reach the gas coin only, are one version ahead, or *)
(* a reset leaves the gas coin alone.                                      *)
ApplyEffectsAhead(i) ==
  /\ owned' = [x \in Thing |-> IF x \in DOMAIN ledger[i].writes THEN i + 1 ELSE owned[x]]
  /\ gasCoin' = Ref(ledger[i].gas, i) /\ UNCHANGED shared
  /\ lastDigest' = i /\ clean' = FALSE
  /\ told' = [x \in Thing |-> IF x \in DOMAIN ledger[i].writes THEN i ELSE told[x]]

ApplyEffectsToGasOnly(i) ==
  /\ gasCoin' = Ref(ledger[i].gas, i) /\ UNCHANGED <<owned, shared>>
  /\ lastDigest' = i /\ clean' = FALSE
  /\ told' = [x \in Thing |-> IF x \in DOMAIN ledger[i].writes THEN i ELSE told[x]]

(* ObjectCache.applyEffects and #cacheGasCoin for the i-th transaction.  A *)
(* thing with an owner, whoever that is, goes into one map and any other   *)
(* into the second; only what no longer exists is taken out of both.       *)
ApplyEffects(i) ==
  LET e == ledger[i]
      Is(S) == {x \in DOMAIN e.writes : e.writes[x] \in S}
  IN  /\ owned' = [x \in Thing |-> IF x \in Is({"signer", "other"}) THEN i
                                   ELSE IF x \in Is({"gone"}) THEN No ELSE owned[x]]
      /\ shared' = (shared \ Is({"gone"})) \cup Is({"shared"})
      /\ gasCoin' = Ref(e.gas, i)
      /\ lastDigest' = i /\ clean' = FALSE
      /\ told' = [x \in Thing |-> IF x \in DOMAIN e.writes THEN i ELSE told[x]]

ClearOwnedObjects == owned' = [x \in Thing |-> No] /\ UNCHANGED <<gasCoin, shared, lastDigest>>

Clear == /\ owned' = [x \in Thing |-> No] /\ gasCoin' = NoCoin
         /\ UNCHANGED <<shared, lastDigest>>

(* A transaction with the references R goes on chain: its input ends up    *)
(* anywhere, its first coin is kept or given away and takes up the others. *)
Land(R, T) ==
  \E gas \in {r.id : r \in R} \cap Coins, to \in {"signer", "other"},
     at \in [{r.id : r \in R} \cap Objects -> Owner] :
    /\ \A x \in DOMAIN at : OwnerAt(x, Now) = "shared" => at[x] \in {"shared", "gone"}
    /\ ledger' = Append(ledger,
         [gas |-> gas,
          writes |-> [x \in {r.id : r \in R} |->
            IF x = gas THEN to ELSE IF x \in Coins THEN "gone" ELSE at[x]]])
    /\ elsewhere' = elsewhere \cup T

(* Mutant: the task that comes next is not called.                          *)
SettleForgets ==
  /\ Queue!Finish(Head(queue))
  /\ pc' = "idle"
  /\ done' = done \cup {Head(queue)} /\ refs' = {} /\ mine' = 0

(* The running task settles; the next one, if any, is called at once.      *)
Settle ==
  /\ Queue!Finish(Head(queue))
  /\ pc' = IF Len(queue) > 1 THEN "build" ELSE "idle"
  /\ done' = done \cup {Head(queue)}
  /\ refs' = {} /\ mine' = 0

Goes(to) == pc' = to /\ UNCHANGED <<queueVars, done>>
-----------------------------------------------------------------------------
(* executeTransaction and buildTransaction.                                *)
Submit(t) ==
  /\ t \notin done
  /\ Patient => awaits["user"] = 0
  /\ Queue!RunTasks(<<t>>)
  /\ pc' = IF queue = <<>> THEN "build" ELSE pc
  /\ UNCHANGED <<refs, mine, cacheVars, awaits, done, clean, chainVars>>

(* The gas coin and the cache's plugin give what they have.                *)
Cached == (IF gasCoin = NoCoin THEN {} ELSE {gasCoin}) \cup
          LET x == Uses[Head(queue)]
          IN  IF owned[x] # No THEN {Ref(x, owned[x])}
              ELSE IF x \in shared THEN {SharedRef(x)} ELSE {}

Complete(R) == Uses[Head(queue)] \in {r.id : r \in R} /\ \E r \in R : r.id \in Coins

BuildFromCache ==
  /\ pc = "build"
  /\ refs' = Cached
  /\ Goes(IF Complete(Cached) THEN "sign" ELSE "resolve")
  /\ UNCHANGED <<mine, cacheVars, awaits, clean, chainVars>>

(* The resolver asks the fullnode for the rest: the object, and all coins  *)
(* of the signer.  Without them the build fails, and nothing is reset.     *)
Served ==
  LET missing == {x \in {Uses[Head(queue)]} \ {r.id : r \in refs} : OwnerAt(x, indexed) # "gone"}
      object == {IF OwnerAt(x, indexed) = "shared" THEN SharedRef(x)
                                                   ELSE Ref(x, VersionAt(x, indexed)) : x \in missing}
      coins == IF \E r \in refs : r.id \in Coins THEN {}
               ELSE {Ref(c, VersionAt(c, indexed)) : c \in {y \in Coins : OwnerAt(y, indexed) = "signer"}}
  IN  object \cup coins

Resolve ==
  /\ pc = "resolve"
  /\ \/ LET R == refs \cup Served
        IN  IF Complete(R) THEN refs' = R /\ Goes("sign") /\ UNCHANGED mine
            ELSE Settle
     \/ "failed" \in Faults /\ Settle
  /\ UNCHANGED <<cacheVars, awaits, clean, chainVars>>

(* buildTransaction has its bytes; executeTransaction signs and sends.     *)
(* Without a signature it fails, and nothing is reset either.              *)
Sign ==
  /\ pc = "sign"
  /\ IF Head(queue) \in BuildOnly
     THEN Settle
     ELSE \/ Goes("send") /\ UNCHANGED <<refs, mine>>
          \/ "failed" \in Faults /\ Settle
  /\ UNCHANGED <<cacheVars, awaits, clean, chainVars>>

(* The network executes the transaction if its references are current, and *)
(* refuses it, or cannot be reached, otherwise.                            *)
Send ==
  /\ pc = "send"
  /\ \/ /\ \A r \in refs : Valid(r)
        /\ Land(refs, {})
        /\ mine' = Now + 1
        /\ \E to \in {"reply"} \cup (IF "lost" \in Faults THEN {"reset"} ELSE {}) : Goes(to)
     \/ /\ (\E r \in refs : ~Valid(r)) \/ "refused" \in Faults
        /\ Goes("reset") /\ UNCHANGED <<mine, ledger, elsewhere>>
  /\ UNCHANGED <<refs, cacheVars, awaits, clean, indexed, told>>

Reply ==
  /\ pc = "reply"
  /\ ApplyEffects(mine)
  /\ Settle
  /\ UNCHANGED <<awaits, ledger, indexed, elsewhere>>

WaitForLastTransaction(w) == awaits' = [awaits EXCEPT ![w] = lastDigest]

(* The catch handler: resetCache(), awaited before the task fails.         *)
ResetOnError ==
  /\ pc = "reset"
  /\ Clear /\ WaitForLastTransaction("task")
  /\ IF lastDigest = 0 THEN Settle ELSE Goes("wait") /\ UNCHANGED <<refs, mine>>
  /\ clean' = TRUE
  /\ UNCHANGED chainVars

(* waitForTransaction ends, and #lastDigest, as it is by now, is dropped.  *)
Waited(w) ==
  /\ awaits[w] # 0
  /\ \/ awaits[w] <= indexed /\ lastDigest' = 0 /\ UNCHANGED told
     \/ /\ "timeout" \in Faults /\ UNCHANGED lastDigest
        /\ told' = [x \in Thing |-> IF told[x] > indexed THEN No ELSE told[x]]
  /\ awaits' = [awaits EXCEPT ![w] = 0]
  /\ IF w = "task" THEN Settle ELSE UNCHANGED <<queueVars, pc, refs, mine, done>>
  /\ UNCHANGED <<owned, shared, gasCoin, clean, ledger, indexed, elsewhere>>

Free == awaits["user"] = 0 /\ (Patient => queue = <<>>)

(* The caller's own resetCache, waitForLastTransaction and applyEffects.   *)
UserResets ==
  /\ Free /\ Clear /\ WaitForLastTransaction("user")
  /\ UNCHANGED <<queueVars, pc, refs, mine, done, clean, chainVars>>

UserWaits ==
  /\ Free /\ lastDigest # 0 /\ WaitForLastTransaction("user")
  /\ UNCHANGED <<queueVars, pc, refs, mine, cacheVars, done, clean, chainVars>>

UserApplies(i) ==
  /\ Free /\ i \in elsewhere /\ i > lastDigest /\ \A x \in DOMAIN ledger[i].writes : told[x] < i
  /\ ApplyEffects(i)
  /\ UNCHANGED <<queueVars, pc, refs, mine, awaits, done, ledger, indexed, elsewhere>>

(* The signer uses an object and one of its coins with another client.     *)
Elsewhere ==
  /\ Cardinality(elsewhere) < MaxElsewhere
  /\ \E x \in Objects, c \in Coins :
       /\ OwnerAt(x, Now) \in {"signer", "shared"} /\ OwnerAt(c, Now) = "signer"
       /\ Land({Ref(x, VersionAt(x, Now)), Ref(c, VersionAt(c, Now))}, {Now + 1})
  /\ UNCHANGED <<queueVars, pc, refs, mine, cacheVars, awaits, done, clean, indexed, told>>

Index ==
  /\ indexed < Now /\ indexed' = indexed + 1
  /\ UNCHANGED <<queueVars, pc, refs, mine, cacheVars, awaits, done, clean, ledger, told, elsewhere>>

Step == BuildFromCache \/ Resolve \/ Sign \/ Send \/ Reply \/ ResetOnError

Next == \/ \E t \in Txs : Submit(t)
        \/ Step \/ \E w \in {"task", "user"} : Waited(w)
        \/ UserResets \/ UserWaits \/ \E i \in 1..Now : UserApplies(i)
        \/ Elsewhere \/ Index

Spec == Init /\ [][Next]_vars

(* Requests end, and the fullnode catches up with the chain.               *)
FairSpec == Spec /\ WF_vars(Step) /\ WF_vars(Waited("task")) /\ WF_vars(Index)
-----------------------------------------------------------------------------
TypeOK ==
  /\ Queue!TypeOK /\ pc \in {"idle", "build", "resolve", "sign", "send", "reply", "reset", "wait"}
  /\ refs \subseteq [id : Thing, version : {No} \cup 0..Now]
  /\ mine \in 0..Now /\ owned \in [Thing -> {No} \cup 0..Now] /\ shared \subseteq Objects
  /\ gasCoin \in [id : Coins, version : 1..Now] \cup {NoCoin}
  /\ lastDigest \in 0..Now /\ awaits \in [{"task", "user"} -> 0..Now]
  /\ done \subseteq Txs
  /\ clean \in BOOLEAN
  /\ indexed \in 0..Now /\ told \in [Thing -> {No} \cup 0..Now] /\ elsewhere \subseteq 1..Now

(* Whatever the signer still owns is named at its current version when a   *)
(* transaction is clean, if the executor has been told of that version: it  *)
(* is never taken from a cache that missed an update, nor, after a reset,  *)
(* from a fullnode that lags behind.                                       *)
OwnedRefsCurrent ==
  pc = "sign" => \A r \in refs :
    OwnerAt(r.id, Now) = "signer" /\ told[r.id] = VersionAt(r.id, Now)
      => r.version = VersionAt(r.id, Now)

(* After an error and its reset the next transaction is accepted, whatever *)
(* had become stale (an object that is now shared, a gas coin that is not  *)
(* the signer's any more), if the executor knows all that happened to its  *)
(* objects and the caller names one it may use: 'Resets cache on errors'.  *)
HealsAfterReset ==
  pc = "sign" /\ clean /\ (\A x \in Thing : told[x] = VersionAt(x, Now))
    /\ OwnerAt(Uses[Head(queue)], Now) \in {"signer", "shared"}
    => \A r \in refs : Valid(r)

(* The queue drains, so every transaction handed over settles, although an *)
(* error waits for the fullnode while the queue stands still.              *)
QueueDrains == queue # <<>> ~> queue = <<>>
=============================================================================
