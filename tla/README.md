# Verification of the Mysten TypeScript SDKs

TLA+ models of the stateful core of this repository, the TLC configurations
that check them, and TLAPS proofs about them. Paths are relative to the
repository; `executor/` stands for
`packages/typescript/src/transactions/executor/`.

## 1. Inventory

The repository is a set of client libraries for the Sui network. Most of them
assemble transactions or wrap requests and keep no state between calls. The
parts below do, and they are where concurrency, failures and caching meet.

| Part | State | Operations | Works with |
|---|---|---|---|
| `SerialQueue`, `ParallelQueue` (`executor/queue.ts`) | closures waiting, `activeTasks` | `runTask`, the `finally` callback of a task | the executors |
| `ParallelTransactionExecutor` (`executor/parallel.ts`) | `#objectIdQueues`, two queues, `#cacheLock`, `#lastDigest`, `#coinPool`, `#sourceCoins`, `#pendingTransactions`, `#gasPrice` | `executeTransaction`, `resetCache`, `waitForLastTransaction` | `CachingTransactionExecutor`, the fullnode, the signer |
| `CachingTransactionExecutor` (`executor/caching.ts`) | `#lastDigest` | `buildTransaction`, `executeTransaction`, `applyEffects`, `reset`, `waitForLastTransaction` | `ObjectCache`, the fullnode |
| `ObjectCache` (`transactions/ObjectCache.ts`) | owned objects, shared objects, Move functions, custom entries | lookups of the build plugin, `applyEffects`, `deleteObjects`, `clear*` | both executors |
| `SerialTransactionExecutor` (`executor/serial.ts`) | a queue, the cached gas coin | `executeTransaction`, `buildTransaction`, `applyEffects`, `resetCache`, `waitForLastTransaction` | the caching executor |
| `WebsocketClient` (`client/rpc-websocket-client.ts`) | socket, connection promise, pending requests, subscriptions | `makeRequest`, `subscribe`, unsubscription, reconnects, timeouts | the server |
| Transaction builder (`transactions/Transaction.ts`, `TransactionData.ts`) | commands and their order, inputs, forks and promises of asynchronous thunks, the results each function may use | `add`, `#sortCommandsAndInputs`, `replaceCommand`, `build` | plugins, resolvers |
| Coin intents (`transactions/intents/CoinWithBalance.ts`) | none | choice of coins, merges and splits | the builder |
| `DataLoader` (`packages/utils/src/dataloader.ts`, copied from graphql/dataloader) | batch, promise cache | `load`, `clear`, `prime` | Seal, MVR |
| Walrus client (`packages/walrus/src/client.ts`) | the committee of the reads, cached staking and system state, node clients | `readBlob` with status, metadata and sliver reads, `reset`, one retry at an epoch change; writes | storage nodes, the chain |
| Seal client (`packages/seal/src/client.ts`) | cached keys and key servers | `fetchKeys` with a threshold | key servers |
| Window wallet channel (`packages/window-wallet-core`) | popup, pending request | `send`, `close` | the wallet's window |

What has to be right in the executors:

* two transactions that use the same owned object are never in flight
  together, or they name the same object version and equivocate; those that
  conflict execute in the order of submission and nobody waits for ever;
* a transaction that fails anywhere (gas price, resolution, signature,
  execution, a lost reply, a time-out) gives back its objects and its slot and
  leaves no stale version in the cache;
* at most `maxPoolSize` transactions are under way and no slot idles;
* a gas coin is in one place at a time, under its current version, and a
  transaction is turned away for want of a coin only if there is no money.

In the serial executor: what it has learnt of an object is what the next
transaction names; after an error and the reset that follows, the next
transaction is acceptable; the queue drains although a reset waits for the
fullnode.

In the builder: every argument refers to the command whose result was passed,
and every command stands once, where its function was added, through
asynchronous thunks, repeated and failing builds and the replacement of intents.

In the Walrus client: a read is denied only on the word of an honest node; it
asks a committee that holds the blob; metadata and slivers of one attempt are
of one committee; a read ends; a retry begins afresh.

In the websocket client: a call settles; there is one connection at a time and
a bounded number of attempts; a listener gets the messages of its own
subscription, once each, from when it subscribes until it unsubscribes, across
reconnects.

The hard part is the order of things. JavaScript runs one synchronous stretch
at a time, but between the stretches replies arrive in any order, callbacks run
inside the `finally` blocks of other transactions, and a promise that several
calls await resumes them all. What can go wrong is listed, line by line, under
`hazards` in `PROJECT.json`.

## 2. Modules

A step of a model is a synchronous stretch of JavaScript, from one `await` to
the next. Stretches that only microtasks separate, and between which no other
stretch touches the same state, are one step.

| Module | Models | Notes |
|---|---|---|
| `TaskPool` | what a promise queue promises | abstract: a line, and slots that are filled at once |
| `ParallelQueue` | `ParallelQueue` | `RunTasks` = the `runTask` calls of one stretch, `Finish` = the `finally` callback; `running` is the set of started promises |
| `SerialQueue` | `SerialQueue` | the running task stays at the head of `queue` |
| `TaskPipeline` | the two queues as the executor uses them | a started task pushes a build task and goes on after it |
| `ConflictLine` | what the executor promises about shared objects | abstract: `ahead`, the transactions submitted before each one; it executes when none of those ahead shares an object with it |
| `ObjectQueues` | `#objectIdQueues`, from `executeTransaction` to the `finally` block | `Acquire`, `Release` |
| `ObjectQueuesHistory` | the same with `ahead` recorded | carries the refinement of `ConflictLine` |
| `CacheLock` | `#updateCache` | what an update does is left to the instantiating module |
| `ParallelExecutor` | the life of a transaction in `parallel.ts` | composes instances of `ParallelQueue`, `SerialQueue`, `ObjectQueues` and `CacheLock` with the object cache, the two `#lastDigest` fields, the chain and the fullnode |
| `GasPool` | `#getGasCoin`, `#refillCoinPool` and what `#execute` does with coins | composed with the rest through `Start` (a slot) and `EnterBuild` (the build queue) |
| `SerialExecutor` | `SerialTransactionExecutor` over `CachingTransactionExecutor` and `ObjectCache` | an instance of `SerialQueue`; the chain, the fullnode and other clients of the signer are external |
| `TransactionBuilder` | the command list of `Transaction` and `TransactionDataBuilder`, and the replacement of `coinWithBalance` intents | sequential but for the thunks, which end in any order |
| `WalrusQuorum` | the thresholds of `utils/index.ts` | operators of the number of shards |
| `WalrusReads` | `readBlob` and all it calls | one attempt is a chain of phases; storage nodes, some of them faulty, and the chain are external |
| `WebsocketClient` | `WebsocketClient`, `RpcSubscription` | on its own: nothing it calls is in another module; the server is external |
| `TaskPipelineProofs`, `ObjectQueuesHistoryProofs`, `ParallelExecutorProofs`, `GasPoolProofs`, `SerialExecutorProofs`, `TransactionBuilderProofs`, `WalrusReadsProofs`, `WebsocketClientProofs` | | theorems |
| `MC*` | | constants for TLC |

### State and code

`ParallelExecutor.stage` is the position of a transaction in `#execute`:
`submitted` waits for its objects, a slot and its turn in the build queue;
`coin` has passed the cache lock (line 205); `refilled` has passed it once more
inside the refill (425); `resolve` has its coin and what the cache knew (217);
`built` has all its references; `sent` has been executed by the network;
`failed` is in the catch block; `ended` has reached the `finally` block;
`released` has run it and `done` the callback of the execute queue. A stage
with `Lock` at its end is a call of `#updateCache` that awaits the lock.

An object version is the number of executed transactions that wrote the object.
The network executes a transaction only if all its input versions are current;
the fullnode serves executed transactions later, in an order compatible with
their dependencies. Both are external: modelled from what the code awaits.

`CacheLock` distinguishes a promise that is still pending (`awaited`) from one
that is resolved already (`woken`), because a failed update leaves its resolved
promise in `#cacheLock` and the next call still gives up its turn. It keeps two
facts of the code that one would not expect: a call returns as soon as its
update has *started* (line 313 does not await it), and waiters that wake up do
not look at the lock again.

`GasPool.stage` is finer where coins are at stake: `build`, `fetch`
(`multiGetObjects`, 399, answered with whatever versions the fullnode has got
to, `MayServe`), `refill` (the refill transaction, 425-427), `confirm`
(453), `flight`. The chain keeps version and balance of every coin; the refill
merges its payment into one coin, charges gas and splits the batch off, or only
charges gas if there is not enough. `TotalUsed` counts the storage cost twice,
as lines 240-244 do. `pendingTransactions` may become negative, as in the code.

`SerialExecutor.pc` is the position of the running task: `build` and `resolve`
(lines 39-56 of `serial.ts` with `ObjectCache.asPlugin`), `sign`, `send`,
`reply` (the effects are applied), `reset` (the catch block) and `wait`
(`waitForTransaction` inside the reset). A version is the number of the
transaction that wrote it, so `ledger` is the whole chain and `indexed` the
prefix of it that the fullnode serves. `told` is a history variable: the last
transaction on each object that the executor has been told of. The model keeps
what the code does and one would not expect: the owned entry of an object that
becomes shared stays and is preferred (`ObjectCache.ts:47-55`), the gas coin of
the last effects is kept whoever owns it afterwards (`serial.ts:48-50`), and a
build that fails resets nothing.

In `TransactionBuilder` a command is a number in the order of creation, and the
index of its result is `handle`, fixed when it is added. `section` is
`#commandSection` of the transaction and of each thunk's fork, in which a fork
stands for the commands added by its function; `commands` is `#data.commands`,
in the order of arrival until `Sort` puts it in the order of the sections.
`aliased` records that after sorting both are the same array
(`Transaction.ts:823-826`) until the plugins have ended (790-791).
`ResolveIntents` replaces every intent in one step, since nothing else can touch
the list between two replacements while the caller is `Careful`. `Sort` also
gives the placeholders of thunks their new indices (lines 872-880), so that what
`add` returned for a thunk can be used after a build: `Renumbered` is that loop,
one placeholder after another, each looked up with the indices as they are by
then (`Reached`). `StillRefer` says which results from before a careful caller
goes on using: those of thunks that have just been sorted, and those whose index
is still that of the same command.

`WalrusReads.phase` is where `readBlob` is: `begin` looks at `#readCommittee`,
`choose` and `certify` read the staking state twice (`snapshot` is the first
one), `status`, `metadata` and `slivers` ask. `order` is the client's shuffled
order; `Lane` says which requests run side by side: the chunks of
`getBlobMetadata`, or the columns of the table of `getSlivers`. `answers` keeps
what each target has said, and weights are counted from it as the code counts
them: one for each sliver (lines 536-548), where the mutant `DeniedByNode`
counts the node's whole weight each time.
Epochs begin in `EpochChangeSync`, in which the committee of the epoch before
serves the blobs that were certified before.

In `WebsocketClient` a step is an event (open, close, message, timer, signal,
a call) with the microtasks it sets off. Sockets are numbered; `connection` is
`#connectionPromise` by the number of its socket, so the promise is resolved if
that socket has been open. `waiting` holds, for each socket, the operations that
await its promise, `requests` what has been sent, by request id, and `pendingRequests` the ids with an entry.
`RejectAll` deletes the entry of the *latest* request, as the closures in lines
115 and 121 do. Entries of answered requests stay. Notifications change no
state; `Hears` says who would get one. A request on a lost socket is not
answered any more; one that is sent to it is dropped.

## 3. Runs

| Run | Instance | Shows |
|---|---|---|
| `task_queues` | 5 tasks (used again and again), 3 slots | slot count, first come first served in both queues (refinement of `TaskPool`), every task handed over ends |
| `object_queues` | 3 transactions, 2 objects, any sets of objects | exclusion, agreement of queues and conflict sets, refinement of `ConflictLine`, no deadlock |
| `executor` | 3 transactions, 2 objects, 2 slots, `waitForLastTransaction`, no faults | every transaction is built with current versions |
| `executor_faults` | 2 transactions, 1 object, 2 slots, every fault, `resetCache` | exclusion, the cache is current for objects at rest, sleepers on the lock are woken, everything submitted ends |
| `gas_pool` | 4 transactions, 2 slots, batches of 4, wallet of one coin given or not, every fault, a lagging fullnode | coins exclusive, references current but for what a fullnode answered, balances not overstated, a refill feeds its transaction, the bounds on coins, everything started ends |
| `websocket` | 1 call with a signal, 2 subscriptions, 1 reconnect, 1 lost connection | one connection at a time, the bound on attempts, ids and listeners after reconnects and unsubscriptions, a timeout behind every request sent |
| `websocket_calls` | 1 call, 1 subscription | *violated*: every call settles |
| `executor_stale` | 4 transactions, 2 objects, 1 slot, builds fail | *violated*: no stale references |
| `serial_executor` | 3 transactions on one object (one is only built), 2 coins, 1 transaction elsewhere, every fault (failing requests and signatures, lost replies, timeouts) | known references are used, a reset heals, the queue drains |
| `builder` | any program of 4 commands, intents and thunks, with any builds and uses of results from before them | arguments follow their commands, every command once and in place |
| `walrus_reads` | 4 shards, 3 epochs, 1 faulty node, 1 read, failing requests to the chain, 1 reset, an abort | denials have honest witnesses, the committee holds the blob unless a reset and a change of the epoch meet in its choice, and stays the same, a read ends |
| `walrus_retry` | the same with 2 reads | *violated*: a retry begins afresh |

### Why these bounds

For the queues, three slots and five tasks leave two to wait behind three
started ones. Two slots and three transactions give a holder, a waiter and a newcomer for
every queue; two objects give the crossing orders of a deadlock. With faults
two transactions and one object are enough for every pair of interleaved
catch blocks, and the third participant of the cache lock is the public call.
The gas pool needs a second refill that asks the fullnode for a coin whose
transaction has lost its reply, perhaps after it gave the coin away, and builds
that fail before a refill, so that the batch outgrows the pool: four
transactions over a batch of four reach both (four coins for a pool of two). They
are numbered in the order in which the execute queue starts them. The coins hold
twice the gas of a use, so that some fall below the minimum and some can pay no
more. A fullnode answers any version a coin has had and may not know a new coin;
how far it lags is not bounded, since nobody waits for the digest of a
transaction whose reply was lost. The `called` variable of `ParallelExecutor` bounds each public call to
one; transactions are submitted once in `ParallelExecutor` and `GasPool`, and
any number of times in the queue modules, whose state is finite without a
bound. The runs use symmetry only where they check invariants alone.

The serial executor needs three transactions on one object: one whose error
resets the cache, one that was queued behind it, and a third that is only built.
One transaction made elsewhere makes any entry stale. `Patient` restricts the
caller to waiting and resetting while nothing is queued: without it the run
finds the hazard of `caching.ts:107`, where a wait nulls a digest that was
stored meanwhile. A caller applies the effects of a transaction made elsewhere
only if they are newer than what the executor knows.

Four commands hold a thunk, a command it adds, the intent among them and a use
of each, before a build or after it. `Careful` keeps the caller away from two
hazards: adding while the plugins run or after they failed (`Transaction.ts:825`),
and using results from before a build that do not refer to their command any
more (`:486`); what else it uses of those, the results of thunks first of all, is
in the run.

Four shards are the least with `f = 1`, and one node has three of them before
epoch 2 and one in it, so that counting nodes instead of shards shows. The
blob is certified before the epochs of the run or in the last of them.
`ConcurrencyLimit` 2 gives two chunks side by side, and a committee with fewer
nodes than the limit. The retry of `readBlob` is the code's own bound; `MaxReads`
bounds calls, `MaxResets` those of the user. Proofs need none of these.

The websocket client needs one lost connection and one failing attempt to have
requests from before and after, waiting and sent; two listeners, for ids that
the server uses again for the other one; and one call whose timeout or signal
hits a request of a listener. `MaxDrops` bounds the lost connections, each user
calls once, and the failing attempts are bounded by the code. Listeners are
symmetric; the run checks invariants only.

### Fairness

Weak fairness for each transaction's next step: a request is answered or fails
(all clients have time-outs), and resumed promises run. Weak fairness for the
fullnode to serve what has landed, and for updates to settle. Submitting a
transaction, calling the interface and handing over a task are not fair: nobody
has to. No liveness property relies on a fault to happen. In `WebsocketClient` an attempt
to connect ends one way or the other and timers fire; servers need not answer,
open connections need not close and nobody has to call. In `SerialExecutor` the
running task goes on, its wait ends and the fullnode catches up; the caller's
own wait is not fair. In `WalrusReads` every request ends by an answer or by the
time-out of the node client; epochs, resets and aborts need not happen.

### Findings

* **executor_stale.** `executors.mdx:136-138` promises that no stale versions
  are used. `#lastDigest` remembers one transaction, and the first to ask takes
  it out. If two transactions have executed and are not indexed yet, a failed
  build that drops the object of the earlier one waits only for the later one,
  and the next transaction takes the old version from the fullnode.
* **websocket_calls.** A call's timeout (`rpc-websocket-client.ts:53`) starts
  when the connection is there, and the promise of a connection that fails is
  never settled: whoever waits for it, called before the failure or between it
  and the next attempt, waits for ever, also when the client has reconnected
  since.

* **walrus_retry.** `reset()` (`client.ts:2089-2091`) clears the cached objects
  but not `#readCommittee`. The committee chosen for an earlier read, or the
  rejected promise of a choice that failed (an abort by one caller or a failed
  request to the chain included),
  stays there, and the retry that `packages/walrus/README.md:364-384` speaks of
  goes on with it.

Smaller disagreements, stated by the model but not given a run: two calls of
`#updateCache` that await the same promise resume in the same turn and update
together (`parallel.ts:307` says one at a time); the refill replaces the map of
source coins after an await, and coins added meanwhile are forgotten
(`parallel.ts:35` says they are used for refilling); the first batch has one
coin more than `maxPoolSize`, and every build that fails before its transaction
is counted leaves room for another (`parallel.ts:45`, `executors.mdx:97`;
`CoinsBounded` has the limits that hold, up to `maxPoolSize - 1 +
coinBatchSize`); the refill asks for the versions of its source coins before it
waits for the last transaction (399 and 425), and for none at all after a lost
reply, so that a lagging fullnode makes it pay with a stale reference: it is
rejected and its source coins are forgotten; reuse is decided by the balance before the transaction
(`executors.mdx:93`). In the builder, a result of a thunk may be used after a
build (`async-thunks.test.ts:1033`), for which the sort gives it a new index; but if
the thunk returned the result of another thunk, whose index is new already, the
loop (`Transaction.ts:872-880`) looks that up among the old commands and may end
at another command, or leave the old index. In the websocket client
`maxReconnects`, "maximum number of times to try connecting" (line 61), counts
the attempts after a lost connection, and a first connection makes one more; a timeout takes the entry of the
latest request away, whose answer is then ignored, and a reconnect revives
listeners that have unsubscribed; no text of the repository speaks of either.

## 4. Proofs

Checked by `tlapm` for every value of the constants.

* `TaskPipelineProofs`, from `TaskCount` (finitely many tasks, `maxTasks` a
  natural number). First `ParallelQueue` alone: `Spec => []TypeOK`,
  `Spec => []SlotCount` and `Spec => PoolSpec`. `SlotCount` is inductive with the
  types and the finiteness of `running`, without which there is nothing to count.
  A block of tasks is cut where the slots end (`LineIsCut`); `BlockFillsSlots` is
  the arithmetic. In the refinement `queue # <<>>` forces `activeTasks =
  maxTasks`, so that the pool admits nobody either, and the slot handed on by
  `Finish` is the one the pool gives to the head of its line. Then the two queues
  together: both implement their pools while the tasks of one push onto the other
  (`ExecuteQueueIsPool`, `BuildQueueIsPool`), and `HeadBuilds`: what the build
  queue runs is its head, so that the `shift` in its `finally` callback takes out
  the task that has ended. `BuildInv` is `SerialQueue`'s part of the invariant.
* `ObjectQueuesHistoryProofs`, from no assumption. First `ObjectQueues`: `Spec => []TypeOK`,
  `Spec => []QueuesAgree` and `Spec => []Exclusive`. Exclusion alone is not
  inductive. The invariant adds that a transaction waits for its own objects
  only, that entries exist exactly for objects in use, that the queue of an
  object lists exactly those whose conflict set has it, once each, and that
  every object in use is granted to exactly one transaction. A release then
  hands each object to one transaction only, because it is the head of one
  queue. Then, with `ahead` recorded, `QueuesAreLine` (`HSpec => LineSpec`) and
  `WaitsForContended`. On top of the invariant above,
  `OrderInv` says that `ahead` orders the submitted transactions and
  `QueuesInOrder` that each queue follows that order, so the head of a queue has
  nobody ahead of it that uses the object; `ConflictsAreContention` says the
  converse, that who waits for an object has somebody ahead of it.
* `ParallelExecutorProofs`, from `Bounds` (finitely many transactions, a pool
  size): every safety property of the two runs, and the refinements of the
  executor's parts. A step of the executor is one of its object queues
  (`ImplementsObjectQueues`), of the pipeline (`ImplementsPools`) and of the
  cache lock (`ImplementsCacheLock`), or leaves them alone, so that the
  invariants proved for the parts hold here; the proof modules of the parts are
  instantiated for that. What is added says who may be where: a transaction that
  has begun holds its objects, the queues hold submitted and ready transactions
  only (`PlacesInv`), and whoever sleeps on the lock has an update to wake it
  (`LockInv`). `InFlightDisjoint` follows from exclusion. `CacheIsCurrent` is
  inductive only with the versions that are on their way to the cache: references
  in use are those of the holder (`RefsAreUsed`), what has been sent wrote the
  newest version (`SentIsNewest`), and a transaction that reaches its `finally`
  block leaves no older version behind (`EndedIsCurrent`). `NeverStale`
  (`FreshRefs`) assumes that there are no faults and no `resetCache`, as the run
  `executor` has it: the run `executor_stale` shows that it fails with them.
  Without them an object that is not cached has never been written, but by who
  has yet to apply its effects (`UncachedAreUntouched`).
* `GasPoolProofs`, from `Sizes`: every safety property of the run.
  `CoinsBounded` speaks of the coins, the code decides by a count.
  `CoinsCounted` bounds the pool and the count; it is not inductive, since a
  refill decides on its batch two requests before it adds the coins.
  `RefillFits` counts the batch in advance for as long as the refill is under way, and `OneBuilds` (the build queue's
  single task) says that nobody else takes a coin or refills meanwhile;
  `BatchFits` is the arithmetic of the batch size, with a count that may be
  negative. `BoundInv` says how far the count may be from the coins in use: by
  the transactions that have ended; and that a refill, which starts with an
  empty pool, finds coins in the other slots only. `CoinsExclusive`, `CoinRefsCurrent` and `BalanceNotOverstated` are
  proved together from `PlacesInv`: a reference stays current because nobody
  else uses the coin, and coins stay apart because what a step puts somewhere
  was nowhere else. Its least obvious parts are `RefillInv`, that the coins a
  refill has taken note of are in no other place, also while the map they came
  from is already replaced, and are current unless a fullnode was asked for them, and `FirstInv`, that a refill which pays with *all*
  coins of the signer comes before anybody has had one. `RefillFeeds` needs that
  the count, wrong as it may be, never exceeds the transactions that have had
  their turn (`CountsInv`), and that asked-for coins stay until the refill is
  confirmed (`AsksInv`).
* `SerialExecutorProofs`, from `Sizes`: `TypeCorrect` for any caller, and for one
  that is `Patient` both safety properties of the run, `KnownRefsUsed`
  (`OwnedRefsCurrent`) and `ResetHeals` (`HealsAfterReset`); an impatient caller
  meets the hazard of `caching.ts:107`. Neither property is inductive: both speak
  of one moment of a task and depend on everything before it. `PatientInv` says that
  a wait is for the last transaction cached, `BehindInv` that what the executor
  was told is on the fullnode or no later than that transaction, so that one wait
  is enough although several transactions may be missing there. `CacheInv` relates
  each of the three maps to what was told, with the entry of an object that has
  become shared as its exception; `FreshInv` says that outside of a wait the
  fullnode serves whatever the cache lacks. A transaction made elsewhere changes
  the chain but not what was told, so it excuses the references it outdates
  (`RefsKept`). The chain's own part is `LedgerInv`: what is shared or gone once
  never has an owner again. `VersionIs` characterises `VersionAt` for any ledger
  and `VersionBelow` says that a prefix that has the last write of a thing agrees
  with the whole chain about it.
* `TransactionBuilderProofs`, from `Sizes` and for a `Careful` caller, as in the
  run `builder`, who may use results of thunks after a build: `ArgumentsAlwaysFollow`, `CommandsAlwaysInPlace`,
  `TypesCorrect`, and `ArgumentsAlwaysPrecede`, that without thunks no argument
  refers to its own command or to a later one, which no run states. A caller who
  is not careful meets the hazards of `Transaction.ts:825` and `:486`. Neither
  of the run's properties is inductive: nothing in them says that the sort finds
  a command again, nor that the results of thunks lead to one. What carries the
  proof is the *place* of a command, the numbers of the thunks it was added in
  and its own, in dictionary order. Within a section the places increase
  (`OrderInv`), and a fork counts as everything below its place, so that
  flattening the tree of forks gives a sorted list without duplicates
  (`FilteredSorted`). A section knows only forks with a larger number than its
  own (`ForksInv`), which makes the recursion of `Filtered` end. What an
  argument means, and what a thunk returns, lies in full before the one that
  refers to it (`MeansInv`, `ResultInv`, `HeldInv`: `Before` the `End` of a
  place), so results of thunks lead from one to the next without a circle, and
  `Original` and `Meant` exist and agree (`OriginalEquation`, `MeantEquation`,
  `ChainEnds`). `HeldInv` says of every result the caller holds that its index is
  that of what it means, and `ReturnInv` where the results are that thunks have
  returned: the sort finds the one of a thunk that returned a command at once
  (`ReachedAtOnce`), whatever has been renumbered before it (`RenumberKeeps`,
  `SortHeld`). The loop over the intents has its own invariant, `Fits`: the
  list is still in order, and the arguments point at what they mean in the list
  as replaced so far (`ReplaceFits`, `LoopFits`); that an argument always comes
  after what it points at is why `Shift` may leave the arguments of earlier
  commands alone. `Extended` and `Alike` sum up what all additions, and all
  steps that move nothing, have in common.
* `WalrusReadsProofs`, from `Committees` (at most `f = MaxFaulty(n)` of the `n`
  shards are on faulty nodes): all safety properties of the run. A quorum of
  denials weighs more than `2f`, the faulty nodes at most `f`, so honest
  denials weigh more than `f` (`HonestWeight`); a status that more than `f`
  report has an honest reporter (`HonestReports`), who says the blob is
  certified only when it is. `StateInv` relates the phase to the committee, the
  snapshot and the answers (`AsksChosen`, `NoEarlyResult`, `StakingKept`). For
  `TypeCorrect` the orders of shards have to be sequences of shards; they come from
  `FlattenSeq`, a recursive function, and `FlattenSeqType` gets at it by the least
  index at which it could fail. For `HoldersServe` the chain must not go back
  (`NotLater`): if the staking state that is read at the end of the choice is the
  one from its beginning, then it has been so in between as well, whatever resets
  have come (`StakingKept`).
* `WebsocketClientProofs`, from `Options`: all safety properties of the run.
  `OneInv` ties the socket, the timer and the promise of the connection
  together; `GivesUp`, which bounds the attempts after a lost connection, follows from `Counted`: `#disconnects` is the failures
  since the last open, and an attempt starts only while `MayTry` holds.
  `TimeoutsRun`, `AskedOnce`, `IdsStayCurrent` and `UnsubscribedAreQuiet` are about
  operations that wait, are sent and are answered: nothing is requested twice on a
  connection (`OnceInv`), the next socket to open asks for every listener
  (`PromiseInv`), who has unsubscribed is silent until the next connection
  (`LeftInv`), and the ids held are those of the open connection, where the server
  gives each to one subscription (`IdInv`, `ServerInv`). The answer to an
  `unsubscribe` ends only the subscription of its own caller for that reason.

Several of these need what a recursive or `CHOOSE`n value is. Induction over data
is out of reach, but the library's fact that `<` on the naturals is well founded is
not: a least counterexample (`LeastElement`) does for `FlattenSeq`, for the
version of an object, and in the builder for the functions that are recursive over
the tree of forks, over the results of thunks and over the list of commands.

Only model-checked: all liveness properties, since fairness and ENABLED are out of
the prover's reach, and the three runs that find a violation. Every safety
property of a passing run is stated by a theorem.

## 5. Not modelled

* The gas price's epoch window (`parallel.ts:343-371`): time; the request fails
  or not.
* In `ParallelExecutor`, shared and deleted objects (`ObjectCache.ts:279-280`: each
  executed transaction writes all of its objects), Move function signatures and
  custom cache entries; in `SerialExecutor`, Move function signatures and
  `executeTransaction` of bytes that the caller has built (`serial.ts:92-94`). The
  cache is the in-memory one.
* Transactions that use coins of the pool or the sources as inputs.
* Builder: inputs (sorted like commands), synchronous thunks, serialization, the
  use of a thunk's result that turns out to be void, two builds at the same time,
  a destructured first result (`[coin]`) of an intent, which a merge does not
  renumber, `add` of a command whose argument is out of scope (it throws after the
  push), and `replaceCommand` with as many commands as it takes out, which
  ignores `resultIndex`.
* Walrus: writes, registration and certificates, quilts, secondary slivers, the
  load in flight when the cache is cleared, and several reads at once (which
  share `#readCommittee`). Three things the model keeps are worth knowing: when
  exactly enough slivers arrive and every other request fails, the promise never
  settles, not even by an abort (`client.ts:523`; the exception in `Settles`);
  the answer that ends a status read is one beyond the quorum (600-602); and a
  committee not larger than the concurrency limit makes the chunk size zero
  (410), so that the read fails with a `RangeError` when its first node fails, or,
  in a committee of one node, which no run has, never settles: no chunk is made
  of no nodes (`packages/utils/src/chunk.ts:5`).
* `DataLoader` is a copy of graphql/dataloader (`dataloader.ts:4`), code of a third
  party.
* The Seal client, see the plan. Its control is small but has a gap worth knowing:
  `#validateEncryptionServices` says that the client's key servers must be a subset
  of the encrypted object's, and visits the object's services only
  (`packages/seal/src/client.ts:201-211`). A server of the client that the object
  does not name passes, `fetchKeys` counts its weight towards the threshold
  (306-318), and `decrypt` then finds too few shares (`decrypt.ts:42`).
* The window channel, dApp Kit and zkSend: see the plan.
* Generated code (`sui-grpc`, GraphQL types, contract bindings), code
  generators, templates and the wrappers without state (Kiosk, SuiNS, DeepBook,
  Enoki, signers, MVR, wallet standard). They are most of the repository's lines.

## 6. Plan

Done: the queues and their composition, the object queues, the cache lock, the
parallel and the serial executor, the gas pool, the builder's commands, Walrus
reads and the websocket client; proofs of every safety property that a run checks
of them.

1. The Seal client's threshold fetch with its key cache and abort; the window
   channel's request and popup.
2. Walrus writes: slivers to all nodes, confirmations and the certificate.
3. BCS as pure algorithms.
4. Inputs in the builder, which are sorted and renumbered as commands are.
