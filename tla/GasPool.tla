------------------------------ MODULE GasPool ------------------------------
(***************************************************************************)
(* The gas coins of ParallelTransactionExecutor: #coinPool, #sourceCoins   *)
(* and #pendingTransactions, from #getGasCoin and #refillCoinPool to the   *)
(* place where #execute gives its coin back.  The order of transactions,   *)
(* their inputs and the cache lock are left to module ParallelExecutor: a  *)
(* transaction starts when a slot is free, and one of the started ones at  *)
(* a time is in the build queue's task.                                    *)
(***************************************************************************)
EXTENDS Integers, Sequences, FiniteSets, SequencesExt

CONSTANTS Txs,       \* transactions, numbered in the order in which they start
          MaxPoolSize, CoinBatchSize, InitialBalance, MinimumBalance,
          Charges,   \* possible gas costs: [net, storage], net of the rebate
          Wallet,    \* the balances of the coins owned at first, by id 1..n
          Givens,    \* what the sourceCoins option may name; {}: it is not used
          Faults     \* what may fail: see Fault

Fault == {"price",    \* the gas price request
          "fetch",    \* multiGetObjects of the refill
          "refill",   \* the refill transaction, before or after execution
          "confirm",  \* waitForTransaction of the refill
          "execute"}  \* a transaction, before or after execution

ASSUMPTION Sizes == /\ Txs \subseteq Nat /\ IsFiniteSet(Txs)
                    /\ MaxPoolSize \in Nat \ {0} /\ CoinBatchSize \in Nat \ {0}
                    /\ InitialBalance \in Nat /\ MinimumBalance \in Nat
                    /\ Charges \subseteq [net : Int, storage : Nat] /\ Wallet \in Seq(Nat)
                    /\ Givens \subseteq SUBSET (DOMAIN Wallet) /\ Faults \subseteq Fault

VARIABLES coinPool,      \* sequence of [id, version, balance]
          sourceCoins,   \* id -> version, Unknown for a null reference
          sourcesKnown,  \* #sourceCoins is a map (and not null)
          pendingTransactions,
          stage,         \* how far each transaction has got
          gasCoin,       \* the pool entry each transaction in flight uses
          refill,        \* the refill under way
          version, balance,   \* external: the coins the signer owns
          minted         \* external: how many coin ids have been used

poolVars == <<coinPool, sourceCoins, sourcesKnown, pendingTransactions>>
chainVars == <<version, balance, minted>>
vars == <<poolVars, stage, gasCoin, refill, chainVars>>

Unknown == 0

NoCoin == [id |-> 0, version |-> 0, balance |-> 0]

NoRefill == [batch |-> 0, refs |-> <<>>, asked |-> {}, all |-> FALSE, split |-> FALSE]

Owned == DOMAIN balance

Total(S) == MapThenSumSet(LAMBDA c : balance[c], S)

Started == {t \in Txs : stage[t] \notin {"new", "done"}}

(* The transaction that is in the task of the build queue, if any.         *)
InBuild == {t \in Txs : stage[t] \in {"build", "fetch", "refill", "confirm"}}

InFlight == {t \in Txs : stage[t] = "flight"}

Init ==
  /\ coinPool = <<>>
  /\ \E given \in Givens : /\ sourceCoins = [c \in given |-> Unknown]
                          /\ sourcesKnown = (given # {})
  /\ pendingTransactions = 0
  /\ stage = [t \in Txs |-> "new"]
  /\ gasCoin = [t \in Txs |-> NoCoin]
  /\ refill = NoRefill
  /\ balance = Wallet
  /\ version = [c \in DOMAIN Wallet |-> 1]
  /\ minted = Len(Wallet)

Becomes(t, to) == stage' = [stage EXCEPT ![t] = to]

(* The execute queue starts #execute, first come first served.             *)
Start(t) ==
  /\ stage[t] = "new" /\ Cardinality(Started) < MaxPoolSize
  /\ \A u \in Txs : u < t => stage[u] # "new"
  /\ Becomes(t, "started")
  /\ UNCHANGED <<poolVars, gasCoin, refill, chainVars>>

(* The build queue runs the task of t, up to the gas price.                *)
EnterBuild(t) ==
  /\ stage[t] = "started" /\ InBuild = {}
  /\ Becomes(t, "build")
  /\ UNCHANGED <<poolVars, gasCoin, refill, chainVars>>

PriceFails(t) ==
  /\ stage[t] = "build" /\ "price" \in Faults
  /\ Becomes(t, "failed")
  /\ UNCHANGED <<poolVars, gasCoin, refill, chainVars>>

(* #getGasCoin hands the first coin of the pool to t.                      *)
ShiftCoin(t) ==
  /\ coinPool # <<>>
  /\ gasCoin' = [gasCoin EXCEPT ![t] = Head(coinPool)]
  /\ coinPool' = Tail(coinPool)
  /\ pendingTransactions' = pendingTransactions + 1
  /\ Becomes(t, "flight")
  /\ UNCHANGED <<sourceCoins, sourcesKnown>>

-----------------------------------------------------------------------------
Lesser(n, m) == IF n < m THEN n ELSE m

(* Mutant: the refill counts the started transactions, t among them, and   *)
(* leaves the extra coin out.                                              *)
BatchOfStarted == Lesser(CoinBatchSize, MaxPoolSize - (Len(coinPool) + Cardinality(Started)))

(* Mutant: another extra coin.                                             *)
BatchOneMore == Lesser(CoinBatchSize, MaxPoolSize - (Len(coinPool) + pendingTransactions) + 2)

BatchSize == Lesser(CoinBatchSize, MaxPoolSize - (Len(coinPool) + pendingTransactions) + 1)

NeedsRefill == coinPool = <<>> /\ pendingTransactions <= MaxPoolSize /\ BatchSize # 0

References == {c \in DOMAIN sourceCoins : sourceCoins[c] # Unknown}

Refs(S) == [c \in S |-> sourceCoins[c]]

(* this.#sourceCoins = new Map()                                           *)
ForgetSources == sourceCoins' = <<>> /\ sourcesKnown' = TRUE

(* #refillCoinPool up to its first await.  Without source coins the        *)
(* resolver will pay with all the coins the signer owns.                   *)
StartRefill(t) ==
  LET asked == DOMAIN sourceCoins \ References
      order(all) == [batch |-> BatchSize, refs |-> Refs(References), asked |-> asked,
                     all |-> all, split |-> FALSE]
  IN  /\ stage[t] = "build" /\ NeedsRefill
      /\ refill' = order(~ sourcesKnown)
      /\ \/ ~ sourcesKnown /\ Becomes(t, "refill") /\ UNCHANGED <<sourceCoins, sourcesKnown>>
         \/ sourcesKnown /\ asked = {} /\ Becomes(t, "refill") /\ ForgetSources
         \/ sourcesKnown /\ asked # {} /\ Becomes(t, "fetch")
              /\ UNCHANGED <<sourceCoins, sourcesKnown>>
      /\ UNCHANGED <<coinPool, pendingTransactions, gasCoin, chainVars>>

(* External: what a fullnode may answer for a coin.  It may lag behind: it *)
(* serves any version the coin has had, or still serves a coin that is no  *)
(* longer owned (version 1 stands for all of them: none of them can pay).  *)
(* It has no data (Unknown) of a coin that is gone, or of a new one.       *)
MayServe(c) ==
  (IF c \in Owned THEN 1..version[c] ELSE {1})
    \cup (IF c \in Owned \cap DOMAIN Wallet THEN {} ELSE {Unknown})

(* multiGetObjects answers.  Coins without data are dropped, and with the  *)
(* new map everything put into the old one since the question was asked.   *)
Fetched(t) ==
  \E served \in [refill.asked -> UNION {MayServe(c) : c \in refill.asked}] :
    /\ stage[t] = "fetch"
    /\ \A c \in refill.asked : served[c] \in MayServe(c)
    /\ Becomes(t, "refill")
    /\ refill' = [refill EXCEPT
         !.refs = [c \in DOMAIN refill.refs \cup {a \in refill.asked : served[a] # Unknown} |->
                     IF c \in refill.asked THEN served[c] ELSE refill.refs[c]]]
    /\ ForgetSources
    /\ UNCHANGED <<coinPool, pendingTransactions, gasCoin, chainVars>>

(* The coins that pay the refill: the first of them survives.              *)
Payment == IF refill.all THEN Owned ELSE DOMAIN refill.refs

ValidPayment ==
  /\ Payment # {} /\ Payment \subseteq Owned
  /\ ~ refill.all => \A c \in Payment : refill.refs[c] = version[c]

(* The refill transaction executes: the payment is merged into its first   *)
(* coin, which pays the net gas cost, and if it is enough the new coins    *)
(* are split off; otherwise only the gas is charged.                       *)
Executes(gas, charge, split) ==
  LET new == IF split THEN minted + 1 .. minted + refill.batch ELSE {}
      rest == Total(Payment) - charge.net - Cardinality(new) * InitialBalance
      left == (Owned \ Payment) \cup {gas} \cup new
  IN  /\ ValidPayment /\ gas \in Payment
      /\ charge.net <= Total(Payment)
      /\ split = (Total(Payment) >= charge.net + refill.batch * InitialBalance)
      /\ balance' = [c \in left |-> IF c = gas THEN rest
                                    ELSE IF c \in new THEN InitialBalance ELSE balance[c]]
      /\ version' = [c \in left |-> IF c = gas THEN version[c] + 1
                                    ELSE IF c \in new THEN 1 ELSE version[c]]
      /\ minted' = minted + Cardinality(new)

(* The pool entries for the coins that were split off.                     *)
SplitCoins ==
  [i \in 1..refill.batch |-> [id |-> minted + i, version |-> 1, balance |-> InitialBalance]]

(* Mutant: the gas coin, changed as well, is taken for a new one.          *)
NewCoinsAndGas(gas, split) ==
  <<[id |-> gas, version |-> version[gas] + 1, balance |-> InitialBalance]>>
    \o IF split THEN SplitCoins ELSE <<>>

(* The changed objects but the gas coin.                                   *)
NewCoins(gas, split) == IF split THEN SplitCoins ELSE <<>>

(* The reply of signAndExecuteTransaction: the new coins go into the pool  *)
(* and the gas coin becomes a source coin.  The status is not looked at.   *)
Refilled(t) ==
  \E gas \in Payment, charge \in Charges, split \in BOOLEAN :
    /\ stage[t] = "refill"
    /\ Executes(gas, charge, split)
    /\ coinPool' = coinPool \o NewCoins(gas, split)
    /\ sourceCoins' = [c \in DOMAIN sourceCoins \cup {gas} |->
                         IF c = gas THEN version[gas] + 1 ELSE sourceCoins[c]]
    /\ sourcesKnown' = TRUE
    /\ refill' = [refill EXCEPT !.split = split]
    /\ Becomes(t, "confirm")
    /\ UNCHANGED <<pendingTransactions, gasCoin>>

(* A request of the refill fails, the refill transaction is rejected, or   *)
(* the reply is lost after it has executed.                                *)
RefillThrows(t) ==
  \/ stage[t] = "fetch" /\ "fetch" \in Faults /\ UNCHANGED chainVars
  \/ stage[t] = "refill" /\ UNCHANGED chainVars
       /\ ("refill" \in Faults \/ (ValidPayment => \E g \in Charges : g.net > Total(Payment)))
  \/ stage[t] = "refill" /\ "refill" \in Faults
       /\ \E gas \in Payment, charge \in Charges, split \in BOOLEAN : Executes(gas, charge, split)
  \/ stage[t] = "confirm" /\ "confirm" \in Faults /\ UNCHANGED chainVars

(* Mutant: the refill is tried again until it succeeds.                    *)
RefillRetries(t) ==
  /\ RefillThrows(t) /\ Becomes(t, "build")
  /\ refill' = NoRefill
  /\ UNCHANGED <<poolVars, gasCoin>>

(* The coins the refill was to use are forgotten if it throws.             *)
RefillFails(t) ==
  /\ RefillThrows(t) /\ Becomes(t, "failed")
  /\ refill' = NoRefill
  /\ UNCHANGED <<poolVars, gasCoin>>

(* #getGasCoin takes a coin, or throws if there is none: at once, or when  *)
(* waitForTransaction has seen the refill.                                 *)
GetCoin(t) ==
  /\ stage[t] = "confirm" \/ (stage[t] = "build" /\ ~ NeedsRefill)
  /\ refill' = NoRefill
  /\ \/ ShiftCoin(t)
     \/ coinPool = <<>> /\ Becomes(t, "failed") /\ UNCHANGED <<poolVars, gasCoin>>
  /\ UNCHANGED chainVars

-----------------------------------------------------------------------------
(* The transaction executes with its coin.  With the gas coin as an input  *)
(* it may also spend from it or give it away.                              *)
Spends(t, charge, spent, given) ==
  LET c == gasCoin[t].id IN
  /\ charge.net + spent <= balance[c]
  /\ version' = IF given THEN [d \in Owned \ {c} |-> version[d]]
                ELSE [version EXCEPT ![c] = @ + 1]
  /\ balance' = IF given THEN [d \in Owned \ {c} |-> balance[d]]
                ELSE [balance EXCEPT ![c] = @ - charge.net - spent]
  /\ UNCHANGED minted

(* Mutant: the storage cost is left out and its rebate is not.             *)
UsedWithoutStorage(charge) == charge.net - charge.storage

(* totalUsed counts the storage cost twice.                                *)
TotalUsed(charge) == charge.net + charge.storage

Returns(t, charge) ==
  coinPool' = Append(coinPool, [id |-> gasCoin[t].id, version |-> gasCoin[t].version + 1,
                                balance |-> gasCoin[t].balance - TotalUsed(charge)])

(* Mutant: the count is left alone at the end.                             *)
KeepsCount == UNCHANGED pendingTransactions

(* The finally block takes the count down.                                 *)
CountsDown == pendingTransactions' = pendingTransactions - 1

AddSource(id, v) ==
  /\ sourceCoins' = [c \in DOMAIN sourceCoins \cup {id} |-> IF c = id THEN v ELSE sourceCoins[c]]
  /\ sourcesKnown' = TRUE

(* The reply with the effects: the coin goes back into the pool if it had  *)
(* the minimum balance before its use and was used for gas only.           *)
Completes(t) ==
  \E charge \in Charges, usesGasCoin \in BOOLEAN, spent \in 0..1, given \in BOOLEAN :
    /\ stage[t] = "flight"
    /\ ~ usesGasCoin => spent = 0 /\ ~ given
    /\ Spends(t, charge, spent, given)
    /\ \/ given /\ UNCHANGED <<coinPool, sourceCoins, sourcesKnown>>
       \/ ~ given /\ ~ usesGasCoin /\ gasCoin[t].balance >= MinimumBalance
            /\ Returns(t, charge) /\ UNCHANGED <<sourceCoins, sourcesKnown>>
       \/ ~ given /\ (usesGasCoin \/ gasCoin[t].balance < MinimumBalance)
            /\ AddSource(gasCoin[t].id, gasCoin[t].version + 1) /\ UNCHANGED coinPool
    /\ CountsDown
    /\ gasCoin' = [gasCoin EXCEPT ![t] = NoCoin]
    /\ Becomes(t, "done")
    /\ UNCHANGED refill

(* Mutant: a failed transaction's coin goes to the sources with the        *)
(* reference it was taken with.                                            *)
SourceOfFailed(t) == AddSource(gasCoin[t].id, gasCoin[t].version)

(* this.#sourceCoins.set(gasCoin.id, null)                                 *)
SourceOfUnknown(t) == AddSource(gasCoin[t].id, Unknown)

(* #execute throws after it has got its coin, whether or not the           *)
(* transaction was executed, and spent from the coin or gave it away: the  *)
(* coin becomes a source coin without a reference.                         *)
Fails(t) ==
  /\ stage[t] = "flight"
  /\ \/ "execute" \in Faults /\ UNCHANGED chainVars
     \/ "execute" \in Faults /\ \E charge \in Charges, spent \in 0..1, given \in BOOLEAN :
                               Spends(t, charge, spent, given)
     \/ (\E charge \in Charges : charge.net > balance[gasCoin[t].id]) /\ UNCHANGED chainVars
  /\ SourceOfUnknown(t)
  /\ gasCoin' = [gasCoin EXCEPT ![t] = NoCoin]
  /\ Becomes(t, "failed")
  /\ UNCHANGED <<coinPool, pendingTransactions, refill>>

(* The catch block is through with the cache lock: the finally block takes *)
(* the count down, whether or not the transaction had been counted.        *)
Ends(t) ==
  /\ stage[t] = "failed"
  /\ CountsDown
  /\ Becomes(t, "done")
  /\ UNCHANGED <<coinPool, sourceCoins, sourcesKnown, gasCoin, refill, chainVars>>

Step(t) ==
  \/ Start(t) \/ EnterBuild(t) \/ PriceFails(t) \/ StartRefill(t) \/ Fetched(t)
  \/ Refilled(t) \/ RefillFails(t) \/ GetCoin(t) \/ Completes(t) \/ Fails(t) \/ Ends(t)

Terminated == (\A t \in Txs : stage[t] = "done") /\ UNCHANGED vars

Next == (\E t \in Txs : Step(t)) \/ Terminated

Spec == Init /\ [][Next]_vars /\ \A t \in Txs : WF_vars(Step(t))

-----------------------------------------------------------------------------
PoolIds == {coinPool[i].id : i \in 1..Len(coinPool)}

FlightIds == {gasCoin[t].id : t \in InFlight}

RefillIds == IF \E t \in Txs : stage[t] = "refill" THEN Payment ELSE {}

(* A gas coin is in one place at a time: it is never in the pool twice,    *)
(* used by two transactions, or pooled or used while a refill merges it.   *)
CoinsExclusive ==
  /\ \A i, j \in 1..Len(coinPool) : coinPool[i].id = coinPool[j].id => i = j
  /\ \A t, u \in InFlight : gasCoin[t].id = gasCoin[u].id => t = u
  /\ PoolIds \cap FlightIds = {}
  /\ (PoolIds \cup FlightIds) \cap (DOMAIN sourceCoins \cup RefillIds) = {}

Current(c, v) == c \in Owned /\ v = version[c]

(* The references that the pool hands out, and those that the executor     *)
(* knows its source coins by, in the map or in the payment of a refill,    *)
(* name the version on chain, although replies are lost and coins given    *)
(* away.  Only a coin that a fullnode was asked for may be stale or gone.  *)
CoinRefsCurrent ==
  /\ \A i \in 1..Len(coinPool) : Current(coinPool[i].id, coinPool[i].version)
  /\ \A c \in References : Current(c, sourceCoins[c])
  /\ (\E t \in Txs : stage[t] \in {"fetch", "refill"}) =>
       \A c \in DOMAIN refill.refs \ refill.asked : Current(c, refill.refs[c])

(* The pool never believes a coin to hold more than it does.               *)
BalanceNotOverstated ==
  \A i \in 1..Len(coinPool) : coinPool[i].balance <= balance[coinPool[i].id]

(* No transaction is turned away for want of a coin as long as a refill    *)
(* can be split: an empty pool is refilled whatever the count has come to, *)
(* and nobody takes the new coins before the one who asked for them.       *)
RefillFeeds ==
  \A t \in InBuild :
    /\ stage[t] = "build" => coinPool # <<>> \/ NeedsRefill
    /\ stage[t] = "confirm" /\ refill.split => coinPool # <<>>

(* The gas coins in the pool and in use never outgrow the limits of the    *)
(* pool: there is one more than its size at the most, and another for each *)
(* transaction that has ended, since one that failed before it was counted *)
(* has taken the count down; and however far the count has come down, no   *)
(* more than a batch beside the coins of all the other slots.              *)
CoinsBounded ==
  LET coins == Len(coinPool) + Cardinality(InFlight)
  IN  /\ coins <= MaxPoolSize + 1 + Cardinality({t \in Txs : stage[t] = "done"})
      /\ coins <= MaxPoolSize - 1 + CoinBatchSize

(* Every started transaction ends, whatever the pool runs out of.          *)
StartedEnds == \A t \in Txs : stage[t] = "started" ~> stage[t] = "done"
=============================================================================
