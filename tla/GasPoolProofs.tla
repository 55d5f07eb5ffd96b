---------------------------- MODULE GasPoolProofs ----------------------------
(***************************************************************************)
(* Where the gas coins of the executor are and how many, for any number of *)
(* transactions, any pool and batch size, and every fault.                 *)
(***************************************************************************)
EXTENDS GasPool, FiniteSetTheorems, SequenceTheorems, TLAPS

Coins == [id : Nat, version : Nat, balance : Int]

Counts ==
  /\ coinPool \in Seq(Coins)
  /\ gasCoin \in [Txs -> Coins]
  /\ pendingTransactions \in Int /\ minted \in Nat
  /\ refill.batch \in Nat /\ "batch" \in DOMAIN refill

Stages == {"new", "started", "build", "fetch", "refill", "confirm", "flight", "failed", "done"}

(* The build queue runs one task, so there is one refill at a time.        *)
OneBuilds ==
  /\ stage \in [Txs -> Stages]
  /\ \A t, u \in InBuild : t = u

(* The coins of the pool and the count of their users, which may be less   *)
(* than the users are: every failed build takes it down once too often.    *)
CoinsCounted == Len(coinPool) + pendingTransactions <= MaxPoolSize + 1

(* A refill under way has its coins counted in advance: transactions that  *)
(* end meanwhile make room and never take it.                              *)
RefillFits ==
  \A t \in Txs : stage[t] \in {"fetch", "refill"} =>
    Len(coinPool) + pendingTransactions + refill.batch <= MaxPoolSize + 1

Inv == Counts /\ OneBuilds /\ CoinsCounted /\ RefillFits

-----------------------------------------------------------------------------
LEMMA InitInv == Init => Inv
<1> SUFFICES ASSUME Init PROVE Inv
  OBVIOUS
<1>1. coinPool = <<>> /\ pendingTransactions = 0 /\ InBuild = {}
  BY DEF Init, InBuild
<1>2. NoCoin \in Coins /\ NoRefill.batch = 0 /\ "batch" \in DOMAIN NoRefill
  BY DEF NoCoin, Coins, NoRefill
<1>3. Counts
  <2>1. coinPool \in Seq(Coins) /\ pendingTransactions \in Int
    BY <1>1
  <2>2. gasCoin \in [Txs -> Coins]
    BY <1>2 DEF Init
  <2>3. minted \in Nat
    BY Sizes DEF Init
  <2>4. refill.batch \in Nat /\ "batch" \in DOMAIN refill
    BY <1>2 DEF Init
  <2> QED
    BY <2>1, <2>2, <2>3, <2>4 DEF Counts
<1>4. OneBuilds
  <2>1. "new" \in Stages
    BY DEF Stages
  <2> QED
    BY <1>1, <2>1 DEF Init, OneBuilds
<1>5. CoinsCounted /\ RefillFits
  BY <1>1, Sizes DEF Init, CoinsCounted, RefillFits
<1> QED
  BY <1>3, <1>4, <1>5 DEF Inv

(* A transaction that moves on, or leaves the build queue's task, makes no *)
(* room for a second one there.                                            *)
LEMMA MovesOn ==
  ASSUME OneBuilds, NEW t \in Txs, NEW to \in Stages,
         stage' = [stage EXCEPT ![t] = to],
         \/ stage[t] \in {"build", "fetch", "refill", "confirm"}
         \/ InBuild = {}
         \/ to \notin {"build", "fetch", "refill", "confirm"}
  PROVE  /\ OneBuilds' /\ stage'[t] = to
         /\ \A u \in Txs : u # t => stage'[u] = stage[u]
<1>1. /\ stage'[t] = to /\ stage' \in [Txs -> Stages]
      /\ \A u \in Txs : u # t => stage'[u] = stage[u]
  BY DEF OneBuilds
<1>2. \A u \in InBuild' : u \in InBuild \/ u = t
  BY <1>1 DEF InBuild
<1>3. \A u, v \in InBuild' : u = v
  BY <1>1, <1>2 DEF OneBuilds, InBuild
<1> QED
  BY <1>1, <1>3 DEF OneBuilds

(* A step that does not make the coins and their users more, and starts no *)
(* refill, keeps the invariant.                                            *)
LEMMA NoMoreCoins ==
  ASSUME Inv, Counts', OneBuilds',
         Len(coinPool') + pendingTransactions' <= Len(coinPool) + pendingTransactions,
         \A t \in Txs : stage'[t] \in {"fetch", "refill"} =>
           stage[t] \in {"fetch", "refill"} /\ refill'.batch = refill.batch
  PROVE  Inv'
<1>1. /\ Len(coinPool) \in Nat /\ Len(coinPool') \in Nat
      /\ pendingTransactions \in Int /\ pendingTransactions' \in Int
      /\ refill.batch \in Nat /\ MaxPoolSize \in Nat
  BY Sizes DEF Inv, Counts
<1>2. CoinsCounted'
  BY <1>1 DEF Inv, CoinsCounted
<1>3. RefillFits'
  <2> SUFFICES ASSUME NEW t \in Txs, stage'[t] \in {"fetch", "refill"}
               PROVE  Len(coinPool') + pendingTransactions' + refill'.batch <= MaxPoolSize + 1
    BY DEF RefillFits
  <2>1. /\ Len(coinPool) + pendingTransactions + refill.batch <= MaxPoolSize + 1
        /\ refill'.batch = refill.batch
    BY DEF Inv, RefillFits
  <2> QED
    BY <1>1, <2>1
<1> QED
  BY <1>2, <1>3 DEF Inv

(* Whoever is in the task of the build queue is the only one to refill.    *)
LEMMA NobodyElseRefills ==
  ASSUME OneBuilds, NEW t \in InBuild, NEW u \in Txs, u # t
  PROVE  stage[u] \notin {"build", "fetch", "refill", "confirm"}
BY DEF OneBuilds, InBuild
-----------------------------------------------------------------------------
LEMMA StartInv ==
  ASSUME Inv, NEW t \in Txs, Start(t) \/ EnterBuild(t) \/ PriceFails(t)
  PROVE  Inv'
<1>1. UNCHANGED <<coinPool, pendingTransactions, gasCoin, refill, minted>>
  BY DEF Start, EnterBuild, PriceFails, poolVars, chainVars
<1>2. Counts' /\ Len(coinPool) \in Nat /\ pendingTransactions \in Int
  BY <1>1 DEF Inv, Counts
<1>3. PICK to \in {"started", "build", "failed"} :
        /\ Becomes(t, to)
        /\ stage[t] = "build" \/ InBuild = {} \/ to = "started"
  BY DEF Start, EnterBuild, PriceFails
<1>4. /\ OneBuilds' /\ stage'[t] = to
      /\ \A u \in Txs : u # t => stage'[u] = stage[u]
  BY <1>3, MovesOn DEF Inv, Becomes, Stages
<1> QED
  BY <1>1, <1>2, <1>4, NoMoreCoins

(* The batch is never negative and fills the pool up to one coin too many. *)
LEMMA BatchFits ==
  ASSUME Counts, CoinsCounted
  PROVE  BatchSize \in Nat /\ Len(coinPool) + pendingTransactions + BatchSize <= MaxPoolSize + 1
<1> DEFINE room == MaxPoolSize - (Len(coinPool) + pendingTransactions) + 1
<1>1. CoinBatchSize \in Nat /\ room \in Nat
  BY Sizes DEF Counts, CoinsCounted
<1>2. Len(coinPool) + pendingTransactions + room = MaxPoolSize + 1
  BY Sizes DEF Counts
<1>3. BatchSize = Lesser(CoinBatchSize, room)
  BY DEF BatchSize
<1> HIDE DEF room
<1>4. BatchSize \in Nat /\ BatchSize <= room
  BY <1>1, <1>3 DEF Lesser
<1> QED
  BY <1>1, <1>2, <1>4 DEF Counts

LEMMA StartRefillInv ==
  ASSUME Inv, NEW t \in Txs, StartRefill(t)
  PROVE  Inv'
<1>1. /\ UNCHANGED <<coinPool, pendingTransactions, gasCoin, minted>>
      /\ "batch" \in DOMAIN refill' /\ refill'.batch = BatchSize
      /\ stage[t] = "build" /\ (Becomes(t, "refill") \/ Becomes(t, "fetch"))
  BY DEF StartRefill, chainVars
<1>2. /\ BatchSize \in Nat
      /\ Len(coinPool) + pendingTransactions + BatchSize <= MaxPoolSize + 1
  BY BatchFits DEF Inv
<1>3. Counts' /\ CoinsCounted'
  BY <1>1, <1>2 DEF Inv, Counts, CoinsCounted
<1>4. OneBuilds'
  BY <1>1, MovesOn DEF Inv, Becomes, Stages
<1>5. RefillFits'
  BY <1>1, <1>2 DEF RefillFits
<1> QED
  BY <1>3, <1>4, <1>5 DEF Inv

LEMMA FetchedInv ==
  ASSUME Inv, NEW t \in Txs, Fetched(t)
  PROVE  Inv'
<1>1. /\ UNCHANGED <<coinPool, pendingTransactions, gasCoin, minted>>
      /\ stage[t] = "fetch" /\ Becomes(t, "refill")
  BY DEF Fetched, chainVars
<1>2. "batch" \in DOMAIN refill' /\ refill'.batch = refill.batch
  BY DEF Fetched, Inv, Counts
<1>3. Counts' /\ Len(coinPool) \in Nat /\ pendingTransactions \in Int
  BY <1>1, <1>2 DEF Inv, Counts
<1>4. /\ OneBuilds' /\ stage'[t] = "refill"
      /\ \A u \in Txs : u # t => stage'[u] = stage[u]
  BY <1>1, MovesOn DEF Inv, Becomes, Stages
<1> QED
  BY <1>1, <1>2, <1>3, <1>4, NoMoreCoins

(* The refill adds its batch or nothing.                                   *)
LEMMA NewCoinsCounted ==
  ASSUME Inv, NEW gas, NEW split \in BOOLEAN
  PROVE  /\ NewCoins(gas, split) \in Seq(Coins)
         /\ Len(NewCoins(gas, split)) <= refill.batch
<1>1. refill.batch \in Nat /\ minted \in Nat /\ InitialBalance \in Nat
  BY Sizes DEF Inv, Counts
<1>2. \A i \in 1..refill.batch :
        [id |-> minted + i, version |-> 1, balance |-> InitialBalance] \in Coins
  BY <1>1 DEF Coins
<1>3. SplitCoins \in [1..refill.batch -> Coins]
  BY <1>2 DEF SplitCoins
<1>4. SplitCoins \in Seq(Coins) /\ Len(SplitCoins) = refill.batch
  BY <1>1, <1>3
<1> QED
  BY <1>1, <1>4 DEF NewCoins

LEMMA NewCoinsAre ==
  ASSUME Inv, NEW gas, NEW split \in BOOLEAN
  PROVE  /\ Len(NewCoins(gas, split)) = IF split THEN refill.batch ELSE 0
         /\ split => \A k \in 1..refill.batch :
              /\ NewCoins(gas, split)[k].id = minted + k
              /\ NewCoins(gas, split)[k].version = 1
              /\ NewCoins(gas, split)[k].balance = InitialBalance
<1>1. refill.batch \in Nat /\ minted \in Nat /\ InitialBalance \in Nat
  BY Sizes DEF Inv, Counts
<1>2. \A i \in 1..refill.batch :
        [id |-> minted + i, version |-> 1, balance |-> InitialBalance] \in Coins
  BY <1>1 DEF Coins
<1>3. SplitCoins \in [1..refill.batch -> Coins]
  BY <1>2 DEF SplitCoins
<1>4. Len(SplitCoins) = refill.batch
  BY <1>1, <1>3
<1>5. \A k \in 1..refill.batch : /\ SplitCoins[k].id = minted + k /\ SplitCoins[k].version = 1
                                 /\ SplitCoins[k].balance = InitialBalance
  BY DEF SplitCoins
<1> QED
  BY <1>4, <1>5 DEF NewCoins

LEMMA MintedNatural ==
  ASSUME Inv, NEW gas, NEW charge, NEW split \in BOOLEAN, Executes(gas, charge, split)
  PROVE  minted' \in Nat
<1>1. /\ minted \in Nat
      /\ minted + 1 \in Int /\ minted + refill.batch \in Int
  BY DEF Inv, Counts
<1>2. minted' = minted + Cardinality(IF split THEN minted + 1 .. minted + refill.batch ELSE {})
  BY Zenon DEF Executes
<1>3. IsFiniteSet(minted + 1 .. minted + refill.batch)
  BY <1>1, FS_Interval
<1>4. Cardinality(IF split THEN minted + 1 .. minted + refill.batch ELSE {}) \in Nat
  BY <1>3, FS_EmptySet, FS_CardinalityType
<1> QED
  BY <1>1, <1>2, <1>4

LEMMA RefilledInv ==
  ASSUME Inv, NEW t \in Txs, Refilled(t)
  PROVE  Inv'
<1>1. PICK gas \in Payment, charge \in Charges, split \in BOOLEAN :
        /\ stage[t] = "refill" /\ Becomes(t, "confirm")
        /\ coinPool' = coinPool \o NewCoins(gas, split)
        /\ UNCHANGED <<pendingTransactions, gasCoin>>
        /\ refill' = [refill EXCEPT !.split = split]
        /\ Executes(gas, charge, split)
  BY Zenon DEF Refilled
<1>2. /\ refill.batch \in Nat /\ minted \in Nat /\ pendingTransactions \in Int
      /\ coinPool \in Seq(Coins) /\ Len(coinPool) \in Nat /\ MaxPoolSize \in Nat
  BY Sizes DEF Inv, Counts
<1>3. /\ NewCoins(gas, split) \in Seq(Coins) /\ Len(NewCoins(gas, split)) \in Nat
      /\ Len(NewCoins(gas, split)) <= refill.batch
  BY NewCoinsCounted
<1>4. /\ coinPool' \in Seq(Coins)
      /\ Len(coinPool') = Len(coinPool) + Len(NewCoins(gas, split))
  BY <1>1, <1>2, <1>3, ConcatProperties
<1>5. minted' \in Nat
  BY <1>1, MintedNatural
<1>6. "batch" \in DOMAIN refill' /\ refill'.batch = refill.batch
  BY <1>1 DEF Inv, Counts
<1>7. Counts'
  BY <1>1, <1>2, <1>4, <1>5, <1>6 DEF Inv, Counts
<1>8. /\ OneBuilds' /\ stage'[t] = "confirm"
      /\ \A u \in Txs : u # t => stage'[u] = stage[u]
  BY <1>1, MovesOn DEF Inv, Becomes, Stages
<1>9. CoinsCounted'
  <2>1. Len(coinPool) + pendingTransactions + refill.batch <= MaxPoolSize + 1
    BY <1>1 DEF Inv, RefillFits
  <2> QED
    BY <1>1, <1>2, <1>3, <1>4, <2>1 DEF CoinsCounted
<1>10. RefillFits'
  <2>1. t \in InBuild
    BY <1>1 DEF InBuild
  <2>2. \A u \in Txs : stage'[u] \notin {"fetch", "refill"}
    BY <1>8, <2>1, NobodyElseRefills DEF Inv
  <2> QED
    BY <2>2 DEF RefillFits
<1> QED
  BY <1>7, <1>8, <1>9, <1>10 DEF Inv

(* Leaving the task of the build queue without a coin.                     *)
LEMMA RefillFailsInv ==
  ASSUME Inv, NEW t \in Txs, RefillFails(t)
  PROVE  Inv'
<1>1. /\ UNCHANGED <<coinPool, pendingTransactions, gasCoin>>
      /\ t \in InBuild /\ Becomes(t, "failed") /\ refill' = NoRefill
  BY DEF RefillFails, RefillThrows, poolVars, InBuild
<1>2. minted' \in Nat
  <2>1. CASE UNCHANGED chainVars
    BY <2>1 DEF chainVars, Inv, Counts
  <2>2. CASE \E gas \in Payment, charge \in Charges, split \in BOOLEAN :
               Executes(gas, charge, split)
    BY <2>2, MintedNatural
  <2> QED
    BY Zenon, <2>1, <2>2 DEF RefillFails, RefillThrows
<1>3. Counts' /\ Len(coinPool) \in Nat /\ pendingTransactions \in Int
  BY <1>1, <1>2 DEF Inv, Counts, NoRefill
<1>4. /\ OneBuilds' /\ stage'[t] = "failed"
      /\ \A u \in Txs : u # t => stage'[u] = stage[u]
  BY <1>1, MovesOn DEF Inv, Becomes, Stages
<1>5. \A u \in Txs : stage'[u] \notin {"fetch", "refill"}
  BY <1>1, <1>4, NobodyElseRefills DEF Inv
<1> QED
  BY <1>1, <1>3, <1>4, <1>5, NoMoreCoins

(* A coin taken from the pool is counted as pending instead.               *)
LEMMA GetCoinInv ==
  ASSUME Inv, NEW t \in Txs, GetCoin(t)
  PROVE  Inv'
<1>1. /\ t \in InBuild /\ refill' = NoRefill /\ minted' = minted
      /\ Becomes(t, "flight") \/ Becomes(t, "failed")
  BY DEF GetCoin, ShiftCoin, InBuild, chainVars
<1>2. /\ coinPool' \in Seq(Coins) /\ gasCoin' \in [Txs -> Coins]
      /\ pendingTransactions' \in Int
      /\ Len(coinPool') + pendingTransactions' <= Len(coinPool) + pendingTransactions
  <2>1. coinPool \in Seq(Coins) /\ gasCoin \in [Txs -> Coins] /\ pendingTransactions \in Int
    BY DEF Inv, Counts
  <2>2. CASE ShiftCoin(t)
    <3>1. /\ coinPool # <<>> /\ coinPool' = Tail(coinPool)
          /\ gasCoin' = [gasCoin EXCEPT ![t] = Head(coinPool)]
          /\ pendingTransactions' = pendingTransactions + 1
      BY <2>2 DEF ShiftCoin
    <3>2. /\ Tail(coinPool) \in Seq(Coins) /\ Len(Tail(coinPool)) = Len(coinPool) - 1
          /\ Head(coinPool) \in Coins
      BY <2>1, <3>1, HeadTailProperties
    <3>3. Len(coinPool) \in Nat
      BY <2>1
    <3> QED
      BY <2>1, <3>1, <3>2, <3>3
  <2>3. CASE UNCHANGED <<poolVars, gasCoin>>
    BY <2>1, <2>3 DEF poolVars
  <2> QED
    BY <2>2, <2>3 DEF GetCoin
<1>3. Counts'
  BY <1>1, <1>2 DEF Inv, Counts, NoRefill
<1>4. /\ OneBuilds' /\ stage'[t] \in {"flight", "failed"}
      /\ \A u \in Txs : u # t => stage'[u] = stage[u]
  BY <1>1, MovesOn DEF Inv, Becomes, Stages
<1>5. \A u \in Txs : stage'[u] \notin {"fetch", "refill"}
  BY <1>1, <1>4, NobodyElseRefills DEF Inv
<1> QED
  BY <1>2, <1>3, <1>4, <1>5, NoMoreCoins
-----------------------------------------------------------------------------
(* A coin that comes back takes the room its user leaves.                  *)
LEMMA CompletesInv ==
  ASSUME Inv, NEW t \in Txs, Completes(t)
  PROVE  Inv'
<1>1. /\ coinPool \in Seq(Coins) /\ gasCoin \in [Txs -> Coins] /\ minted \in Nat
      /\ pendingTransactions \in Int
  BY DEF Inv, Counts
<1>2. PICK charge \in Charges :
        /\ coinPool' = coinPool \/ Returns(t, charge)
        /\ pendingTransactions' = pendingTransactions - 1
        /\ gasCoin' = [gasCoin EXCEPT ![t] = NoCoin]
        /\ Becomes(t, "done") /\ refill' = refill /\ minted' = minted
  BY Zenon DEF Completes, CountsDown, Spends
<1>3. /\ coinPool' \in Seq(Coins)
      /\ Len(coinPool') + pendingTransactions' <= Len(coinPool) + pendingTransactions
  <2> DEFINE back == [id |-> gasCoin[t].id, version |-> gasCoin[t].version + 1,
                      balance |-> gasCoin[t].balance - TotalUsed(charge)]
  <2>1. back \in Coins
    <3>1. charge.net \in Int /\ charge.storage \in Int
      BY Sizes
    <3>2. /\ gasCoin[t].id \in Nat /\ gasCoin[t].version \in Nat
          /\ gasCoin[t].balance \in Int
      BY <1>1 DEF Coins
    <3> QED
      BY <3>1, <3>2 DEF Coins, TotalUsed
  <2>2. CASE coinPool' = coinPool
    BY <1>1, <1>2, <2>2
  <2>3. CASE Returns(t, charge)
    <3>1. coinPool' = Append(coinPool, back)
      BY <2>3 DEF Returns
    <3> HIDE DEF back
    <3>2. coinPool' \in Seq(Coins) /\ Len(coinPool') = Len(coinPool) + 1
      BY <1>1, <2>1, <3>1, AppendProperties
    <3>3. Len(coinPool) \in Nat
      BY <1>1
    <3> QED
      BY <1>1, <1>2, <3>2, <3>3
  <2> QED
    BY <1>2, <2>2, <2>3
<1>4. Counts'
  BY <1>1, <1>2, <1>3 DEF Inv, Counts, Coins, NoCoin
<1>5. /\ OneBuilds' /\ stage'[t] = "done"
      /\ \A u \in Txs : u # t => stage'[u] = stage[u]
  BY <1>2, MovesOn DEF Inv, Becomes, Stages
<1> QED
  BY <1>2, <1>3, <1>4, <1>5, NoMoreCoins

(* The end of a failed transaction, which may never have been counted.     *)
LEMMA FailsInv ==
  ASSUME Inv, NEW t \in Txs, Fails(t) \/ Ends(t)
  PROVE  Inv'
<1>1. coinPool \in Seq(Coins) /\ gasCoin \in [Txs -> Coins] /\ pendingTransactions \in Int
  BY DEF Inv, Counts
<1>2. /\ UNCHANGED <<coinPool, refill, minted>>
      /\ Becomes(t, "failed") \/ Becomes(t, "done")
  BY Zenon DEF Fails, Ends, Spends, chainVars
<1>3. pendingTransactions' = pendingTransactions \/ pendingTransactions' = pendingTransactions - 1
  BY Zenon DEF Fails, Ends, CountsDown
<1>4. gasCoin' = [gasCoin EXCEPT ![t] = NoCoin] \/ gasCoin' = gasCoin
  BY Zenon DEF Fails, Ends
<1>5. gasCoin' \in [Txs -> Coins]
  <2>1. NoCoin \in Coins
    BY DEF Coins, NoCoin
  <2> QED
    BY <1>1, <1>4, <2>1
<1>6. /\ pendingTransactions' \in Int
      /\ Len(coinPool') + pendingTransactions' <= Len(coinPool) + pendingTransactions
  BY <1>1, <1>2, <1>3
<1>7. Counts'
  BY <1>2, <1>5, <1>6 DEF Inv, Counts
<1>8. /\ OneBuilds' /\ stage'[t] \in {"failed", "done"}
      /\ \A u \in Txs : u # t => stage'[u] = stage[u]
  BY <1>2, MovesOn DEF Inv, Becomes, Stages
<1> QED
  BY <1>2, <1>6, <1>7, <1>8, NoMoreCoins

LEMMA NextInv == Inv /\ [Next]_vars => Inv'
<1> SUFFICES ASSUME Inv, [Next]_vars PROVE Inv'
  OBVIOUS
<1>1. CASE UNCHANGED vars
  BY <1>1 DEF vars, poolVars, chainVars, Inv, Counts, OneBuilds, InBuild, CoinsCounted, RefillFits
<1>2. ASSUME NEW t \in Txs, Step(t) PROVE Inv'
  <2>1. CASE Start(t) \/ EnterBuild(t) \/ PriceFails(t)
    BY <2>1, StartInv
  <2>2. CASE StartRefill(t)
    BY <2>2, StartRefillInv
  <2>3. CASE Fetched(t)
    BY <2>3, FetchedInv
  <2>4. CASE Refilled(t)
    BY <2>4, RefilledInv
  <2>5. CASE RefillFails(t)
    BY <2>5, RefillFailsInv
  <2>6. CASE GetCoin(t)
    BY <2>6, GetCoinInv
  <2>7. CASE Completes(t)
    BY <2>7, CompletesInv
  <2>8. CASE Fails(t) \/ Ends(t)
    BY <2>8, FailsInv
  <2> QED
    BY <1>2, <2>1, <2>2, <2>3, <2>4, <2>5, <2>6, <2>7, <2>8 DEF Step
<1> QED
  BY <1>1, <1>2 DEF Next, Terminated
-----------------------------------------------------------------------------
(* Where the coins are.  CoinsExclusive, CoinRefsCurrent and               *)
(* BalanceNotOverstated hold together or not at all: a reference stays     *)
(* current because nobody else uses the coin, and coins are kept apart     *)
(* because what is new, returned or given up was nowhere else.             *)
Good(e) ==
  /\ e.id \in Owned /\ e.version = version[e.id]
  /\ balance[e.id] \in Int /\ e.balance <= balance[e.id]

Untaken(c) ==
  /\ \A i \in 1..Len(coinPool) : coinPool[i].id # c
  /\ \A t \in InFlight : gasCoin[t].id # c

ChainInv ==
  Owned \subseteq 1..minted /\ DOMAIN version = Owned /\ \A c \in Owned : version[c] \in Int

PoolInv ==
  \A i \in 1..Len(coinPool) :
    /\ Good(coinPool[i])
    /\ \A j \in 1..Len(coinPool) : coinPool[i].id = coinPool[j].id => i = j

FlightInv ==
  \A t \in InFlight :
    /\ Good(gasCoin[t])
    /\ \A i \in 1..Len(coinPool) : coinPool[i].id # gasCoin[t].id
    /\ \A u \in InFlight : gasCoin[t].id = gasCoin[u].id => t = u

SourcesInv ==
  \A c \in DOMAIN sourceCoins :
    /\ c \in 1..minted /\ Untaken(c)
    /\ sourceCoins[c] # Unknown => c \in Owned /\ sourceCoins[c] = version[c]

(* What a refill under way has taken note of is out of everybody's reach,  *)
(* out of the new map of source coins too once that has replaced the old.  *)
(* Only what a fullnode was asked for need not be current.                 *)
RefillInv ==
  /\ {"refs", "asked", "all"} \subseteq DOMAIN refill
  /\ \A t \in Txs : stage[t] \in {"fetch", "refill"} =>
       \A c \in DOMAIN refill.refs :
         /\ c \in 1..minted /\ Untaken(c)
         /\ c \notin refill.asked => Current(c, refill.refs[c])
  /\ \A t \in Txs : stage[t] = "fetch" =>
       ~ refill.all /\ \A c \in refill.asked : c \in 1..minted /\ Untaken(c)
  /\ \A t \in Txs : stage[t] = "refill" =>
       /\ refill.all => ~ sourcesKnown
       /\ DOMAIN refill.refs \cap DOMAIN sourceCoins = {}

(* The refill that pays with all coins of the signer is the first: nobody  *)
(* has had a coin by then.                                                 *)
FirstInv == ~ sourcesKnown => coinPool = <<>> /\ InFlight = {} /\ DOMAIN sourceCoins = {}

PlacesInv == ChainInv /\ PoolInv /\ FlightInv /\ SourcesInv /\ RefillInv /\ FirstInv

LEMMA InitPlaces == Init => PlacesInv
<1> SUFFICES ASSUME Init PROVE PlacesInv
  OBVIOUS
<1>1. /\ coinPool = <<>> /\ Len(coinPool) = 0 /\ InFlight = {}
      /\ \A t \in Txs : stage[t] = "new"
      /\ balance = Wallet /\ version = [c \in DOMAIN Wallet |-> 1] /\ minted = Len(Wallet)
  BY DEF Init, InFlight
<1>2. PICK given \in Givens : sourceCoins = [c \in given |-> Unknown] /\ sourcesKnown = (given # {})
  BY DEF Init
<1>3. DOMAIN Wallet = 1..Len(Wallet) /\ given \subseteq DOMAIN Wallet
  BY Sizes
<1>4. ChainInv
  BY <1>1, <1>3 DEF ChainInv, Owned
<1>5. PoolInv /\ FlightInv
  BY <1>1 DEF PoolInv, FlightInv
<1>6. SourcesInv
  BY <1>1, <1>2, <1>3 DEF SourcesInv, Untaken
<1>7. RefillInv
  BY <1>1 DEF Init, RefillInv, NoRefill
<1>8. FirstInv
  BY <1>1, <1>2 DEF FirstInv
<1> QED
  BY <1>4, <1>5, <1>6, <1>7, <1>8 DEF PlacesInv

(* No coin moves.                                                          *)
LEMMA CoinsStay ==
  ASSUME PlacesInv,
         UNCHANGED <<coinPool, sourceCoins, sourcesKnown, gasCoin, chainVars>>,
         InFlight' = InFlight, refill' = refill \/ refill' = NoRefill,
         \A t \in Txs : stage'[t] \in {"fetch", "refill"} =>
           stage'[t] = stage[t] /\ refill' = refill
  PROVE  PlacesInv'
<1>1. /\ Owned' = Owned /\ version' = version /\ balance' = balance /\ minted' = minted
      /\ UNCHANGED <<coinPool, sourceCoins, sourcesKnown, gasCoin>>
  BY DEF chainVars, Owned
<1>2. \A c : Untaken(c)' <=> Untaken(c)
  BY <1>1 DEF Untaken
<1>3. ChainInv' /\ PoolInv' /\ FlightInv' /\ FirstInv'
  BY <1>1 DEF PlacesInv, ChainInv, PoolInv, FlightInv, FirstInv, Good
<1>4. SourcesInv'
  BY <1>1, <1>2 DEF PlacesInv, SourcesInv
<1>5. RefillInv'
  <2>1. {"refs", "asked", "all"} \subseteq DOMAIN refill'
    BY DEF PlacesInv, RefillInv, NoRefill
  <2> QED
    BY <1>1, <1>2, <2>1 DEF PlacesInv, RefillInv, Current
<1> QED
  BY <1>3, <1>4, <1>5 DEF PlacesInv

LEMMA StartRefillPlaces ==
  ASSUME Inv, PlacesInv, NEW t \in Txs, StartRefill(t)
  PROVE  PlacesInv'
<1>1. /\ UNCHANGED <<coinPool, gasCoin, version, balance, minted>> /\ stage[t] = "build"
      /\ refill'.refs = Refs(References) /\ refill'.asked = DOMAIN sourceCoins \ References
      /\ refill'.all = (~ sourcesKnown) /\ {"refs", "asked", "all"} \subseteq DOMAIN refill'
  BY DEF StartRefill, chainVars
<1>2. \/ ~ sourcesKnown /\ Becomes(t, "refill") /\ UNCHANGED <<sourceCoins, sourcesKnown>>
      \/ sourcesKnown /\ Becomes(t, "refill") /\ ForgetSources
      \/ sourcesKnown /\ Becomes(t, "fetch") /\ UNCHANGED <<sourceCoins, sourcesKnown>>
  BY DEF StartRefill
<1>3. /\ stage'[t] \in {"refill", "fetch"}
      /\ \A u \in Txs : u # t => stage'[u] = stage[u] /\ stage'[u] \notin {"fetch", "refill"}
  <2>1. t \in InBuild
    BY <1>1 DEF InBuild
  <2> QED
    BY <1>2, <2>1, NobodyElseRefills DEF Becomes, Inv, OneBuilds
<1>4. InFlight' = InFlight /\ Owned' = Owned
  BY <1>1, <1>3 DEF InFlight, Owned
<1>5. \A c : Untaken(c)' <=> Untaken(c)
  BY <1>1, <1>4 DEF Untaken
<1>6. ChainInv' /\ PoolInv' /\ FlightInv'
  BY <1>1, <1>4 DEF PlacesInv, ChainInv, PoolInv, FlightInv, Good
<1>7. \/ UNCHANGED <<sourceCoins, sourcesKnown>>
      \/ DOMAIN sourceCoins' = {} /\ sourcesKnown'
  BY <1>2 DEF ForgetSources
<1>8. SourcesInv'
  BY <1>1, <1>4, <1>5, <1>7 DEF PlacesInv, SourcesInv
<1>9. FirstInv'
  BY <1>1, <1>4, <1>7 DEF PlacesInv, FirstInv
<1>10. /\ DOMAIN refill'.refs = References /\ References \subseteq DOMAIN sourceCoins
       /\ \A c \in References : /\ refill'.refs[c] = sourceCoins[c]
                                /\ c \in 1..minted /\ Untaken(c)
                                /\ c \in Owned /\ sourceCoins[c] = version[c]
  BY <1>1 DEF Refs, References, PlacesInv, SourcesInv
<1>11. \A c \in refill'.asked : c \in 1..minted /\ Untaken(c)
  BY <1>1 DEF PlacesInv, SourcesInv
<1>12. RefillInv'
  <2>1. CASE ~ sourcesKnown /\ Becomes(t, "refill") /\ UNCHANGED <<sourceCoins, sourcesKnown>>
    <3>1. stage'[t] = "refill" /\ References = {}
      BY <1>10, <2>1 DEF Becomes, Inv, OneBuilds, PlacesInv, FirstInv
    <3> QED
      BY <1>1, <1>3, <1>10, <2>1, <3>1 DEF RefillInv, Current
  <2>2. CASE sourcesKnown /\ Becomes(t, "refill") /\ ForgetSources
    <3>1. stage'[t] = "refill" /\ DOMAIN sourceCoins' = {}
      BY <2>2 DEF Becomes, Inv, OneBuilds, ForgetSources
    <3> QED
      BY <1>1, <1>3, <1>4, <1>5, <1>10, <2>2, <3>1 DEF RefillInv, Current
  <2>3. CASE sourcesKnown /\ Becomes(t, "fetch") /\ UNCHANGED <<sourceCoins, sourcesKnown>>
    <3>1. stage'[t] = "fetch"
      BY <2>3 DEF Becomes, Inv, OneBuilds
    <3> QED
      BY <1>1, <1>3, <1>4, <1>5, <1>10, <1>11, <2>3, <3>1 DEF RefillInv, Current
  <2> QED
    BY <1>2, <2>1, <2>2, <2>3
<1> QED
  BY <1>6, <1>8, <1>9, <1>12 DEF PlacesInv

LEMMA FetchedPlaces ==
  ASSUME Inv, PlacesInv, NEW t \in Txs, Fetched(t)
  PROVE  PlacesInv'
<1>1. /\ UNCHANGED <<coinPool, gasCoin, version, balance, minted>>
      /\ stage[t] = "fetch" /\ Becomes(t, "refill")
      /\ DOMAIN sourceCoins' = {} /\ sourcesKnown'
  BY DEF Fetched, ForgetSources, chainVars
<1>2. PICK served \in [refill.asked -> UNION {MayServe(c) : c \in refill.asked}] :
        refill' = [refill EXCEPT
          !.refs = [c \in DOMAIN refill.refs \cup {a \in refill.asked : served[a] # Unknown} |->
                      IF c \in refill.asked THEN served[c] ELSE refill.refs[c]]]
  BY Zenon DEF Fetched
<1> DEFINE known == [c \in DOMAIN refill.refs \cup {a \in refill.asked : served[a] # Unknown} |->
                       IF c \in refill.asked THEN served[c] ELSE refill.refs[c]]
<1>10. /\ {"refs", "asked", "all"} \subseteq DOMAIN refill' /\ refill'.all = refill.all
       /\ refill'.asked = refill.asked /\ refill'.refs = known
  BY <1>2 DEF PlacesInv, RefillInv
<1>11. \A c \in DOMAIN known : c \in DOMAIN refill.refs \/ c \in refill.asked
  OBVIOUS
<1>12. \A c \in DOMAIN known : c \notin refill.asked => known[c] = refill.refs[c]
  OBVIOUS
<1> HIDE DEF known
<1>3. /\ stage'[t] = "refill"
      /\ \A u \in Txs : u # t => stage'[u] = stage[u] /\ stage'[u] \notin {"fetch", "refill"}
  <2>1. t \in InBuild
    BY <1>1 DEF InBuild
  <2> QED
    BY <1>1, <2>1, NobodyElseRefills DEF Becomes, Inv, OneBuilds
<1>4. InFlight' = InFlight /\ Owned' = Owned
  BY <1>1, <1>3 DEF InFlight, Owned
<1>5. \A c : Untaken(c)' <=> Untaken(c)
  BY <1>1, <1>4 DEF Untaken
<1>6. ChainInv' /\ PoolInv' /\ FlightInv' /\ SourcesInv' /\ FirstInv'
  BY <1>1, <1>4 DEF PlacesInv, ChainInv, PoolInv, FlightInv, SourcesInv, FirstInv, Good
<1>7. \A c \in DOMAIN refill'.refs :
        /\ c \in 1..minted /\ Untaken(c)
        /\ c \notin refill'.asked => Current(c, refill'.refs[c])
  BY <1>1, <1>10, <1>11, <1>12 DEF PlacesInv, RefillInv
<1>8. ~ refill'.all
  BY <1>1, <1>10 DEF PlacesInv, RefillInv
<1>9. RefillInv'
  BY <1>1, <1>3, <1>4, <1>5, <1>7, <1>8, <1>10 DEF RefillInv, Current
<1> QED
  BY <1>6, <1>9 DEF PlacesInv

(* The payment of a refill is nobody's coin.                               *)
LEMMA PaymentUntaken ==
  ASSUME PlacesInv, NEW t \in Txs, stage[t] = "refill"
  PROVE  \A c \in Payment : c \in 1..minted /\ Untaken(c) /\ c \notin DOMAIN sourceCoins
<1>1. CASE refill.all
  BY <1>1 DEF PlacesInv, ChainInv, RefillInv, FirstInv, Payment, Untaken
<1>2. CASE ~ refill.all
  BY <1>2 DEF PlacesInv, RefillInv, Payment
<1> QED
  BY <1>1, <1>2

(* What the refill transaction leaves of the coins.                        *)
LEMMA ExecutesChain ==
  ASSUME Inv, PlacesInv, NEW gas \in Payment, NEW charge, NEW split \in BOOLEAN,
         Executes(gas, charge, split)
  PROVE  /\ ChainInv' /\ minted' \in Nat /\ minted <= minted'
         /\ \A c \in Owned \ Payment :
              c \in Owned' /\ version'[c] = version[c] /\ balance'[c] = balance[c]
         /\ gas \in Owned' /\ version'[gas] = version[gas] + 1
         /\ split => \A i \in 1..refill.batch :
              /\ minted + i \in 1..minted' /\ minted + i \in Owned'
              /\ version'[minted + i] = 1 /\ balance'[minted + i] = InitialBalance
<1> DEFINE new == IF split THEN minted + 1 .. minted + refill.batch ELSE {}
           left == (Owned \ Payment) \cup {gas} \cup new
           rest == Total(Payment) - charge.net - Cardinality(new) * InitialBalance
<1>1. /\ balance' = [c \in left |-> IF c = gas THEN rest
                                    ELSE IF c \in new THEN InitialBalance ELSE balance[c]]
      /\ version' = [c \in left |-> IF c = gas THEN version[c] + 1
                                    ELSE IF c \in new THEN 1 ELSE version[c]]
      /\ minted' = minted + Cardinality(new)
  BY Zenon DEF Executes
<1>2. minted \in Nat /\ refill.batch \in Nat /\ Owned \subseteq 1..minted /\ gas \in Owned
  <2>1. Payment \subseteq Owned
    BY Zenon DEF Executes, ValidPayment
  <2> QED
    BY <2>1 DEF Inv, Counts, PlacesInv, ChainInv
<1>3. Cardinality(new) = IF split THEN refill.batch ELSE 0
  <2>1. CASE split
    <3>1. minted + 1 \in Int /\ minted + refill.batch \in Int
      BY <1>2
    <3>2. Cardinality(minted + 1 .. minted + refill.batch) =
            IF minted + 1 > minted + refill.batch THEN 0
            ELSE (minted + refill.batch) - (minted + 1) + 1
      BY <3>1, FS_Interval
    <3> QED
      BY <1>2, <2>1, <3>2
  <2>2. CASE ~ split
    BY <2>2, FS_EmptySet
  <2> QED
    BY <2>1, <2>2
<1>4. minted' \in Nat /\ minted <= minted'
  BY <1>1, <1>2, <1>3
<1>5. \A c \in new : c \in 1..minted' /\ c \notin 1..minted
  BY <1>1, <1>2, <1>3
<1> HIDE DEF new, rest
<1>6. left \subseteq 1..minted'
  <2>1. \A c \in 1..minted : c \in 1..minted'
    BY <1>2, <1>4
  <2> QED
    BY <1>2, <1>5, <2>1
<1>7. Owned' = left /\ DOMAIN version' = left
  BY <1>1 DEF Owned
<1>8. \A c \in left : version'[c] \in Int
  <2>1. \A c \in Owned : version[c] \in Int
    BY DEF PlacesInv, ChainInv
  <2>2. \A c \in left : c \in new \/ c \in Owned
    BY <1>2
  <2> QED
    BY <1>1, <1>2, <2>1, <2>2
<1>9. ChainInv'
  BY <1>6, <1>7, <1>8 DEF ChainInv
<1>10. \A c \in Owned \ Payment :
         c \in Owned' /\ version'[c] = version[c] /\ balance'[c] = balance[c]
  <2>1. \A c \in Owned \ Payment : c \in left /\ c # gas /\ c \notin new
    BY <1>2, <1>5
  <2> QED
    BY <1>1, <1>7, <2>1
<1>11. gas \in Owned' /\ version'[gas] = version[gas] + 1
  BY <1>1, <1>7
<1>12. ASSUME split, NEW i \in 1..refill.batch
       PROVE  /\ minted + i \in 1..minted' /\ minted + i \in Owned'
              /\ version'[minted + i] = 1 /\ balance'[minted + i] = InitialBalance
  <2>1. minted + i \in new
    BY <1>2, <1>12 DEF new
  <2>2. minted + i \in left /\ minted + i # gas
    BY <1>2, <1>5, <2>1
  <2> QED
    BY <1>1, <1>5, <1>7, <2>1, <2>2
<1> QED
  BY <1>4, <1>9, <1>10, <1>11, <1>12

(* Coins that are in the pool or in use stay where they are, and current,  *)
(* when the refill transaction executes.                                   *)
LEMMA PlacesOutsidePayment ==
  ASSUME PlacesInv, NEW t \in Txs, stage[t] = "refill",
         \A c \in Owned \ Payment :
           c \in Owned' /\ version'[c] = version[c] /\ balance'[c] = balance[c]
  PROVE  /\ \A i \in 1..Len(coinPool) :
              /\ coinPool[i].id \in Owned' /\ coinPool[i].version = version'[coinPool[i].id]
              /\ balance'[coinPool[i].id] \in Int
              /\ coinPool[i].balance <= balance'[coinPool[i].id]
         /\ \A u \in InFlight :
              /\ gasCoin[u].id \in Owned' /\ gasCoin[u].version = version'[gasCoin[u].id]
              /\ balance'[gasCoin[u].id] \in Int
              /\ gasCoin[u].balance <= balance'[gasCoin[u].id]
         /\ \A c \in References : c \in Owned' /\ sourceCoins[c] = version'[c]
<1>1. \A i \in 1..Len(coinPool) : coinPool[i].id \in Owned \ Payment
  BY PaymentUntaken DEF Untaken, PlacesInv, PoolInv, Good
<1>2. \A u \in InFlight : gasCoin[u].id \in Owned \ Payment
  BY PaymentUntaken DEF Untaken, PlacesInv, FlightInv, Good
<1>3. \A c \in References : c \in Owned \ Payment /\ sourceCoins[c] = version[c]
  BY PaymentUntaken DEF References, PlacesInv, SourcesInv
<1> QED
  BY <1>1, <1>2, <1>3 DEF PlacesInv, PoolInv, FlightInv, Good

LEMMA RefilledPlaces ==
  ASSUME Inv, PlacesInv, NEW t \in Txs, Refilled(t)
  PROVE  PlacesInv'
<1>1. PICK gas \in Payment, charge \in Charges, split \in BOOLEAN :
        /\ stage[t] = "refill" /\ Becomes(t, "confirm")
        /\ coinPool' = coinPool \o NewCoins(gas, split)
        /\ sourceCoins' = [c \in DOMAIN sourceCoins \cup {gas} |->
                             IF c = gas THEN version[gas] + 1 ELSE sourceCoins[c]]
        /\ sourcesKnown' = TRUE /\ gasCoin' = gasCoin
        /\ refill' = [refill EXCEPT !.split = split]
        /\ Executes(gas, charge, split)
  BY Zenon DEF Refilled
<1>2. /\ stage'[t] = "confirm" /\ \A u \in Txs : stage'[u] \notin {"fetch", "refill"}
      /\ InFlight' = InFlight
  <2>1. t \in InBuild
    BY <1>1 DEF InBuild
  <2>2. /\ stage'[t] = "confirm"
        /\ \A u \in Txs : u # t => stage'[u] = stage[u] /\ stage'[u] \notin {"fetch", "refill"}
    BY <1>1, <2>1, NobodyElseRefills DEF Becomes, Inv, OneBuilds
  <2> QED
    BY <1>1, <2>2 DEF InFlight
<1>3. \A c \in Payment : c \in 1..minted /\ Untaken(c) /\ c \notin DOMAIN sourceCoins
  BY <1>1, PaymentUntaken
<1>4. /\ ChainInv' /\ minted' \in Nat /\ minted <= minted'
      /\ \A c \in Owned \ Payment :
           c \in Owned' /\ version'[c] = version[c] /\ balance'[c] = balance[c]
      /\ gas \in Owned' /\ version'[gas] = version[gas] + 1
      /\ split => \A i \in 1..refill.batch :
           /\ minted + i \in 1..minted' /\ minted + i \in Owned'
           /\ version'[minted + i] = 1 /\ balance'[minted + i] = InitialBalance
  BY <1>1, ExecutesChain
<1> DEFINE L == Len(coinPool)
           N == IF split THEN refill.batch ELSE 0
<1>5. /\ minted \in Nat /\ refill.batch \in Nat /\ InitialBalance \in Nat
      /\ coinPool \in Seq(Coins) /\ L \in Nat /\ N \in Nat /\ Owned \subseteq 1..minted
  BY Sizes DEF Inv, Counts, PlacesInv, ChainInv
<1>6. /\ Len(coinPool') = L + N /\ \A i \in 1..L : coinPool'[i] = coinPool[i]
      /\ \A k \in 1..N : /\ coinPool'[L + k].id = minted + k /\ coinPool'[L + k].version = 1
                         /\ coinPool'[L + k].balance = InitialBalance
  <2> DEFINE news == NewCoins(gas, split)
  <2>1. /\ news \in Seq(Coins) /\ Len(news) = N
        /\ \A k \in 1..N : /\ news[k].id = minted + k /\ news[k].version = 1
                           /\ news[k].balance = InitialBalance
    BY <1>5, NewCoinsCounted, NewCoinsAre
  <2> HIDE DEF news
  <2>2. coinPool' = coinPool \o news
    BY <1>1 DEF news
  <2> HIDE DEF N
  <2>3. /\ Len(coinPool') = L + N
        /\ \A i \in 1..(L + N) :
             coinPool'[i] = IF i <= L THEN coinPool[i] ELSE news[i - L]
    BY <1>5, <2>1, <2>2, ConcatProperties
  <2>4. \A i \in 1..L : coinPool'[i] = coinPool[i]
    BY <1>5, <2>3
  <2>5. \A k \in 1..N : coinPool'[L + k] = news[k]
    <3> TAKE k \in 1..N
    <3>1. L + k \in 1..(L + N) /\ ~ (L + k <= L) /\ (L + k) - L = k
      BY <1>5
    <3> QED
      BY <2>3, <3>1
  <2> QED
    BY <2>1, <2>3, <2>4, <2>5
<1> HIDE DEF N
<1>7. \A i \in 1..(L + N) :
        \/ i \in 1..L /\ coinPool'[i] = coinPool[i]
        \/ /\ i - L \in 1..N /\ coinPool'[i].id = minted + (i - L)
           /\ coinPool'[i].version = 1 /\ coinPool'[i].balance = InitialBalance
  <2> SUFFICES ASSUME NEW i \in 1..(L + N), i \notin 1..L
               PROVE  /\ i - L \in 1..N /\ coinPool'[i].id = minted + (i - L)
                      /\ coinPool'[i].version = 1 /\ coinPool'[i].balance = InitialBalance
    BY <1>6
  <2>1. i - L \in 1..N /\ i = L + (i - L)
    BY <1>5
  <2> HIDE DEF L
  <2> QED
    BY <1>6, <2>1
<1>8. \A i \in 1..(L + N) : coinPool'[i].id \in 1..minted => coinPool'[i] = coinPool[i] /\ i \in 1..L
  BY <1>5, <1>7
<1>9. /\ \A i \in 1..L : coinPool[i].id \in 1..minted
      /\ \A u \in InFlight : gasCoin[u].id \in 1..minted
  BY <1>5 DEF PlacesInv, PoolInv, FlightInv, Good
<1>10. \A c \in 1..minted : Untaken(c) => Untaken(c)'
  <2> SUFFICES ASSUME NEW c \in 1..minted, Untaken(c)
               PROVE  Untaken(c)'
    OBVIOUS
  <2>1. \A i \in 1..(L + N) : coinPool'[i].id # c
    BY <1>8 DEF Untaken
  <2> QED
    BY <1>1, <1>2, <1>6, <2>1 DEF Untaken
<1>11. PoolInv'
  <2>1. ASSUME NEW i \in 1..(L + N) PROVE Good(coinPool[i])'
    <3>1. CASE i \in 1..L /\ coinPool'[i] = coinPool[i]
      BY <1>1, <1>4, <3>1, PlacesOutsidePayment DEF Good
    <3>2. CASE /\ i - L \in 1..N /\ coinPool'[i].id = minted + (i - L)
               /\ coinPool'[i].version = 1 /\ coinPool'[i].balance = InitialBalance
      <4>1. split /\ i - L \in 1..refill.batch
        BY <1>5, <3>2 DEF N
      <4> QED
        BY <1>4, <1>5, <3>2, <4>1 DEF Good
    <3> QED
      BY <1>7, <3>1, <3>2
  <2>2. ASSUME NEW i \in 1..(L + N), NEW j \in 1..(L + N), coinPool'[i].id = coinPool'[j].id
        PROVE  i = j
    <3>1. CASE coinPool'[i].id \in 1..minted
      <4>1. i \in 1..L /\ j \in 1..L /\ coinPool[i].id = coinPool[j].id
        BY <1>8, <2>2, <3>1
      <4> QED
        BY <4>1 DEF PlacesInv, PoolInv
    <3>2. CASE coinPool'[i].id \notin 1..minted
      <4>1. \A k \in 1..(L + N) :
              coinPool'[k].id \in 1..minted \/ coinPool'[k].id = minted + (k - L)
        BY <1>7, <1>9
      <4>2. coinPool'[i].id = minted + (i - L) /\ coinPool'[j].id = minted + (j - L)
        BY <2>2, <3>2, <4>1
      <4>3. minted + (i - L) = minted + (j - L)
        BY <2>2, <4>2
      <4>4. i \in Int /\ j \in Int /\ L \in Int /\ minted \in Int
        BY <1>5
      <4> HIDE DEF L
      <4> QED
        BY <4>3, <4>4
    <3> QED
      BY <3>1, <3>2
  <2> QED
    BY <1>6, <2>1, <2>2 DEF PoolInv
<1>12. FlightInv'
  <2> SUFFICES ASSUME NEW u \in InFlight
               PROVE  /\ Good(gasCoin[u])'
                      /\ \A i \in 1..(L + N) : coinPool'[i].id # gasCoin[u].id
                      /\ \A v \in InFlight : gasCoin[u].id = gasCoin[v].id => u = v
    BY <1>1, <1>2, <1>6 DEF FlightInv
  <2>1. Good(gasCoin[u])'
    BY <1>1, <1>4, PlacesOutsidePayment DEF Good
  <2>2. \A i \in 1..(L + N) : coinPool'[i].id # gasCoin[u].id
    BY <1>8, <1>9 DEF PlacesInv, FlightInv
  <2> QED
    BY <2>1, <2>2 DEF PlacesInv, FlightInv
<1>13. SourcesInv'
  <2> SUFFICES ASSUME NEW c \in DOMAIN sourceCoins \cup {gas}
               PROVE  /\ c \in 1..minted' /\ Untaken(c)'
                      /\ sourceCoins'[c] # Unknown => c \in Owned' /\ sourceCoins'[c] = version'[c]
    BY <1>1 DEF SourcesInv
  <2>1. c \in 1..minted /\ Untaken(c)
    BY <1>1, <1>3, <1>5 DEF PlacesInv, SourcesInv
  <2>2. c \in 1..minted'
    BY <1>4, <1>5, <2>1
  <2>3. CASE c = gas
    BY <1>1, <1>4, <1>10, <2>1, <2>2, <2>3
  <2>4. CASE c # gas
    <3>1. c \in DOMAIN sourceCoins /\ sourceCoins'[c] = sourceCoins[c]
      BY <1>1, <2>4
    <3>2. sourceCoins[c] # Unknown => c \in Owned' /\ sourceCoins[c] = version'[c]
      BY <1>1, <1>4, <3>1, PlacesOutsidePayment DEF References
    <3> QED
      BY <1>10, <2>1, <2>2, <3>1, <3>2
  <2> QED
    BY <2>3, <2>4
<1>14. RefillInv'
  BY <1>1, <1>2 DEF PlacesInv, RefillInv
<1>15. FirstInv'
  BY <1>1 DEF FirstInv
<1> QED
  BY <1>4, <1>11, <1>12, <1>13, <1>14, <1>15 DEF PlacesInv

LEMMA RefillFailsPlaces ==
  ASSUME Inv, PlacesInv, NEW t \in Txs, RefillFails(t)
  PROVE  PlacesInv'
<1>1. /\ UNCHANGED <<coinPool, sourceCoins, sourcesKnown, gasCoin>>
      /\ t \in InBuild /\ Becomes(t, "failed") /\ refill' = NoRefill
  BY DEF RefillFails, RefillThrows, poolVars, InBuild
<1>2. /\ stage'[t] = "failed" /\ \A u \in Txs : stage'[u] \notin {"fetch", "refill"}
      /\ InFlight' = InFlight
  <2>1. /\ stage'[t] = "failed"
        /\ \A u \in Txs : u # t => stage'[u] = stage[u] /\ stage'[u] \notin {"fetch", "refill"}
    BY <1>1, NobodyElseRefills DEF Becomes, Inv, OneBuilds
  <2> QED
    BY <1>1, <2>1 DEF InFlight, InBuild
<1>3. CASE UNCHANGED chainVars
  BY <1>1, <1>2, <1>3, CoinsStay
<1>4. CASE /\ stage[t] = "refill"
           /\ \E gas \in Payment, charge \in Charges, split \in BOOLEAN : Executes(gas, charge, split)
  <2>1. PICK gas \in Payment, charge \in Charges, split \in BOOLEAN : Executes(gas, charge, split)
    BY <1>4
  <2>2. /\ ChainInv' /\ minted' \in Nat /\ minted <= minted'
        /\ \A c \in Owned \ Payment :
             c \in Owned' /\ version'[c] = version[c] /\ balance'[c] = balance[c]
    BY <2>1, ExecutesChain
  <2>3. \A c : Untaken(c)' <=> Untaken(c)
    BY <1>1, <1>2 DEF Untaken
  <2>4. PoolInv'
    BY <1>1, <1>4, <2>2, PlacesOutsidePayment DEF PlacesInv, PoolInv, Good
  <2>5. FlightInv'
    BY <1>1, <1>2, <1>4, <2>2, PlacesOutsidePayment DEF PlacesInv, FlightInv, Good
  <2>6. SourcesInv'
    <3>1. minted \in Nat /\ \A c \in 1..minted : c \in 1..minted'
      BY <2>2 DEF Inv, Counts
    <3>2. \A c \in References : c \in Owned' /\ sourceCoins[c] = version'[c]
      BY <1>4, <2>2, PlacesOutsidePayment
    <3> QED
      BY <1>1, <2>3, <3>1, <3>2 DEF PlacesInv, SourcesInv, References
  <2>7. RefillInv' /\ FirstInv'
    BY <1>1, <1>2 DEF PlacesInv, RefillInv, FirstInv, NoRefill
  <2> QED
    BY <2>2, <2>4, <2>5, <2>6, <2>7 DEF PlacesInv
<1> QED
  BY Zenon, <1>3, <1>4 DEF RefillFails, RefillThrows

LEMMA GetCoinPlaces ==
  ASSUME Inv, PlacesInv, NEW t \in Txs, GetCoin(t)
  PROVE  PlacesInv'
<1>1. /\ t \in InBuild /\ refill' = NoRefill /\ UNCHANGED chainVars
      /\ Becomes(t, "flight") \/ Becomes(t, "failed")
  BY DEF GetCoin, ShiftCoin, InBuild
<1>2. /\ \A u \in Txs : u # t => stage'[u] = stage[u] /\ stage'[u] \notin {"fetch", "refill"}
      /\ stage[t] # "flight" /\ stage'[t] \notin {"fetch", "refill"}
  BY <1>1, NobodyElseRefills DEF Becomes, Inv, OneBuilds, InBuild
<1>3. CASE coinPool = <<>> /\ Becomes(t, "failed") /\ UNCHANGED <<poolVars, gasCoin>>
  <2>1. stage'[t] = "failed"
    BY <1>3 DEF Becomes, Inv, OneBuilds
  <2>2. InFlight' = InFlight
    BY <1>2, <2>1 DEF InFlight
  <2> QED
    BY <1>1, <1>2, <1>3, <2>2, CoinsStay DEF poolVars
<1>4. CASE ShiftCoin(t)
  <2> DEFINE L == Len(coinPool)
  <2>1. /\ coinPool # <<>> /\ coinPool' = Tail(coinPool) /\ Becomes(t, "flight")
        /\ gasCoin' = [gasCoin EXCEPT ![t] = Head(coinPool)]
        /\ UNCHANGED <<sourceCoins, sourcesKnown>>
    BY <1>4 DEF ShiftCoin
  <2>2. coinPool \in Seq(Coins) /\ gasCoin \in [Txs -> Coins] /\ L \in Nat /\ L # 0
    BY <2>1 DEF Inv, Counts
  <2>3. /\ Len(coinPool') = L - 1 /\ Head(coinPool) = coinPool[1]
        /\ \A i \in 1..Len(coinPool') : coinPool'[i] = coinPool[i + 1]
    BY <2>1, <2>2, HeadTailProperties
  <2>4. /\ InFlight' = InFlight \cup {t} /\ t \notin InFlight
        /\ gasCoin'[t] = coinPool[1] /\ \A u \in InFlight : gasCoin'[u] = gasCoin[u]
    <3>1. stage'[t] = "flight"
      BY <2>1 DEF Becomes, Inv, OneBuilds
    <3>2. InFlight' = InFlight \cup {t} /\ t \notin InFlight
      BY <1>2, <3>1 DEF InFlight
    <3> QED
      BY <2>1, <2>2, <2>3, <3>2 DEF InFlight
  <2>5. Owned' = Owned /\ version' = version /\ balance' = balance /\ minted' = minted
    BY <1>1 DEF Owned, chainVars
  <2>6. \A i \in 1..Len(coinPool') : i + 1 \in 1..L /\ coinPool'[i] = coinPool[i + 1] /\ i + 1 # 1
    BY <2>2, <2>3
  <2>7. 1 \in 1..L
    BY <2>2
  <2> HIDE DEF L
  <2>8. \A c : Untaken(c) => Untaken(c)'
    <3> SUFFICES ASSUME NEW c, Untaken(c)
                 PROVE  Untaken(c)'
      OBVIOUS
    <3>1. \A i \in 1..L : coinPool[i].id # c
      BY DEF Untaken, L
    <3>2. \A i \in 1..Len(coinPool') : coinPool'[i].id # c
      BY <2>6, <3>1
    <3>3. \A u \in InFlight' : gasCoin'[u].id # c
      BY <2>4, <2>7, <3>1 DEF Untaken
    <3> QED
      BY <3>2, <3>3 DEF Untaken
  <2>9. PoolInv'
    <3>1. ASSUME NEW i \in 1..Len(coinPool') PROVE Good(coinPool[i])'
      BY <2>5, <2>6 DEF PlacesInv, PoolInv, Good, L
    <3>2. ASSUME NEW i \in 1..Len(coinPool'), NEW j \in 1..Len(coinPool'),
                 coinPool'[i].id = coinPool'[j].id
          PROVE  i = j
      <4>1. i + 1 = j + 1
        BY <2>6, <3>2 DEF PlacesInv, PoolInv, L
      <4> QED
        BY <4>1
    <3> QED
      BY <3>1, <3>2 DEF PoolInv
  <2>10. FlightInv'
    <3>1. ASSUME NEW u \in InFlight' PROVE Good(gasCoin[u])'
      BY <2>4, <2>5, <2>7 DEF PlacesInv, PoolInv, FlightInv, Good, L
    <3>2. ASSUME NEW u \in InFlight', NEW i \in 1..Len(coinPool')
          PROVE  coinPool'[i].id # gasCoin'[u].id
      <4>1. CASE u = t
        BY <2>4, <2>6, <2>7, <4>1 DEF PlacesInv, PoolInv, L
      <4>2. CASE u \in InFlight
        BY <2>4, <2>6, <4>2 DEF PlacesInv, FlightInv, L
      <4> QED
        BY <2>4, <4>1, <4>2
    <3>3. ASSUME NEW u \in InFlight', NEW v \in InFlight', gasCoin'[u].id = gasCoin'[v].id
          PROVE  u = v
      BY <2>4, <2>7, <3>3 DEF PlacesInv, FlightInv, L
    <3> QED
      BY <3>1, <3>2, <3>3 DEF FlightInv
  <2>11. SourcesInv'
    BY <2>1, <2>5, <2>8 DEF PlacesInv, SourcesInv
  <2>12. ChainInv' /\ FirstInv'
    BY <2>1, <2>5 DEF PlacesInv, ChainInv, FirstInv
  <2>13. RefillInv'
    BY <1>1, <1>2 DEF RefillInv, NoRefill
  <2> QED
    BY <2>9, <2>10, <2>11, <2>12, <2>13 DEF PlacesInv
<1> QED
  BY <1>3, <1>4 DEF GetCoin, poolVars

(* A transaction lets go of its coin, which is gone, in the pool again or  *)
(* a source coin; nothing else on chain has changed.                       *)
LEMMA LeavesPlaces ==
  ASSUME Inv, PlacesInv, NEW t \in InFlight, NEW c, c = gasCoin[t].id,
         InFlight' = InFlight \ {t}, stage'[t] \notin {"fetch", "refill"},
         \A u \in Txs : u # t => stage'[u] = stage[u],
         \A u \in InFlight \ {t} : gasCoin'[u] = gasCoin[u],
         refill' = refill, minted' = minted, ChainInv',
         \A d \in Owned \ {c} :
           d \in Owned' /\ version'[d] = version[d] /\ balance'[d] = balance[d],
         \/ UNCHANGED <<coinPool, sourceCoins, sourcesKnown>>
         \/ /\ UNCHANGED <<sourceCoins, sourcesKnown>>
            /\ \E e \in Coins : coinPool' = Append(coinPool, e) /\ e.id = c
                 /\ c \in Owned' /\ e.version = version'[c]
                 /\ balance'[c] \in Int /\ e.balance <= balance'[c]
         \/ /\ UNCHANGED coinPool /\ sourcesKnown'
            /\ \E v : AddSource(c, v) /\ (v # Unknown => c \in Owned' /\ v = version'[c])
  PROVE  PlacesInv'
<1> DEFINE L == Len(coinPool)
<1>1. /\ c \in Owned /\ c \in 1..minted
      /\ \A i \in 1..L : coinPool[i].id # c
      /\ \A u \in InFlight \ {t} : gasCoin[u].id # c
      /\ \A d : Untaken(d) => d # c
  BY DEF PlacesInv, ChainInv, FlightInv, Good, Untaken
<1>2. sourcesKnown /\ c \notin DOMAIN sourceCoins
  BY <1>1 DEF PlacesInv, FirstInv, SourcesInv
<1>3. L \in Nat /\ coinPool \in Seq(Coins)
  BY DEF Inv, Counts
<1>4. /\ \A i \in 1..L : coinPool[i].id \in Owned \ {c} /\ Good(coinPool[i])
      /\ \A u \in InFlight \ {t} : gasCoin[u].id \in Owned \ {c} /\ Good(gasCoin[u])
  BY <1>1 DEF PlacesInv, PoolInv, FlightInv, Good
<1>5. /\ \A i \in 1..L :
           /\ coinPool[i].id \in Owned' /\ coinPool[i].version = version'[coinPool[i].id]
           /\ balance'[coinPool[i].id] \in Int
           /\ coinPool[i].balance <= balance'[coinPool[i].id]
      /\ \A u \in InFlight \ {t} :
           /\ gasCoin[u].id \in Owned' /\ gasCoin[u].version = version'[gasCoin[u].id]
           /\ balance'[gasCoin[u].id] \in Int
           /\ gasCoin[u].balance <= balance'[gasCoin[u].id]
  BY <1>4 DEF Good
<1>6. \A d \in DOMAIN sourceCoins :
        /\ d # c /\ d \in 1..minted /\ Untaken(d)
        /\ sourceCoins[d] # Unknown => d \in Owned' /\ sourceCoins[d] = version'[d]
  BY <1>2 DEF PlacesInv, SourcesInv
<1>7. CASE coinPool' = coinPool
  <2>1. \A d : Untaken(d) => Untaken(d)'
    BY <1>7 DEF Untaken
  <2>2. PoolInv' /\ FlightInv'
    BY <1>5, <1>7 DEF PlacesInv, PoolInv, FlightInv, Good
  <2>3. Untaken(c)'
    BY <1>1, <1>7 DEF Untaken
  <2>4. SourcesInv' /\ FirstInv' /\ \A d \in DOMAIN sourceCoins' : d = c \/ d \in DOMAIN sourceCoins
    <3>1. CASE UNCHANGED <<sourceCoins, sourcesKnown>>
      BY <1>2, <1>6, <2>1, <3>1 DEF SourcesInv, FirstInv
    <3>2. CASE sourcesKnown' /\ \E v : AddSource(c, v) /\ (v # Unknown => c \in Owned' /\ v = version'[c])
      BY <1>1, <1>6, <2>1, <2>3, <3>2 DEF SourcesInv, FirstInv, AddSource
    <3>3. CASE coinPool' # coinPool
      BY <1>7, <3>3
    <3> QED
      BY <1>3, <1>7, <3>1, <3>2, <3>3
  <2>5. RefillInv'
    <3>1. \A u \in Txs : stage'[u] \in {"fetch", "refill"} => stage'[u] = stage[u]
      OBVIOUS
    <3>2. \A u \in Txs : stage[u] \in {"fetch", "refill"} => \A d \in DOMAIN refill.refs : d # c
      BY <1>1 DEF PlacesInv, RefillInv
    <3>3. \A u \in Txs : stage[u] = "refill" => ~ refill.all
      BY <1>2 DEF PlacesInv, RefillInv
    <3> QED
      BY <2>1, <2>4, <3>1, <3>2, <3>3 DEF PlacesInv, RefillInv, Current
  <2> QED
    BY <2>2, <2>4, <2>5 DEF PlacesInv
<1>8. CASE /\ UNCHANGED <<sourceCoins, sourcesKnown>>
           /\ \E e \in Coins : coinPool' = Append(coinPool, e) /\ e.id = c
                /\ c \in Owned' /\ e.version = version'[c]
                /\ balance'[c] \in Int /\ e.balance <= balance'[c]
  <2>1. PICK e \in Coins : coinPool' = Append(coinPool, e) /\ e.id = c
                /\ c \in Owned' /\ e.version = version'[c]
                /\ balance'[c] \in Int /\ e.balance <= balance'[c]
    BY <1>8
  <2>2. /\ Len(coinPool') = L + 1
        /\ \A i \in 1..(L + 1) : \/ i \in 1..L /\ coinPool'[i] = coinPool[i]
                                 \/ i = L + 1 /\ coinPool'[i] = e
    BY <1>3, <2>1, AppendProperties
  <2> HIDE DEF L
  <2>3. \A d : Untaken(d) => Untaken(d)'
    <3> SUFFICES ASSUME NEW d, Untaken(d)
                 PROVE  Untaken(d)'
      OBVIOUS
    <3>1. \A i \in 1..(L + 1) : coinPool'[i].id # d
      BY <1>1, <2>1, <2>2 DEF Untaken, L
    <3> QED
      BY <2>2, <3>1 DEF Untaken
  <2>4. PoolInv'
    <3>1. ASSUME NEW i \in 1..(L + 1) PROVE Good(coinPool[i])'
      BY <1>5, <2>1, <2>2 DEF Good
    <3>2. ASSUME NEW i \in 1..(L + 1), NEW j \in 1..(L + 1), coinPool'[i].id = coinPool'[j].id
          PROVE  i = j
      <4>1. CASE i \in 1..L /\ j \in 1..L /\ coinPool'[i] = coinPool[i] /\ coinPool'[j] = coinPool[j]
        BY <3>2, <4>1 DEF PlacesInv, PoolInv, L
      <4> QED
        BY <1>1, <2>1, <2>2, <3>2, <4>1
    <3> QED
      BY <2>2, <3>1, <3>2 DEF PoolInv
  <2>5. FlightInv'
    <3>1. ASSUME NEW u \in InFlight \ {t} PROVE Good(gasCoin[u])'
      BY <1>5 DEF Good
    <3>2. ASSUME NEW u \in InFlight \ {t}, NEW i \in 1..(L + 1)
          PROVE  coinPool'[i].id # gasCoin'[u].id
      BY <1>1, <2>1, <2>2 DEF PlacesInv, FlightInv, L
    <3> QED
      BY <2>2, <3>1, <3>2 DEF PlacesInv, FlightInv
  <2>6. SourcesInv' /\ FirstInv'
    BY <1>2, <1>6, <1>8, <2>3 DEF SourcesInv, FirstInv
  <2>7. RefillInv'
    <3>1. \A u \in Txs : stage'[u] \in {"fetch", "refill"} => stage'[u] = stage[u]
      OBVIOUS
    <3>2. \A u \in Txs : stage[u] \in {"fetch", "refill"} => \A d \in DOMAIN refill.refs : d # c
      BY <1>1 DEF PlacesInv, RefillInv
    <3> QED
      BY <1>8, <2>3, <3>1, <3>2 DEF PlacesInv, RefillInv, Current
  <2> QED
    BY <2>4, <2>5, <2>6, <2>7 DEF PlacesInv
<1> QED
  BY <1>7, <1>8

LEMMA SpendsChain ==
  ASSUME Inv, PlacesInv, NEW t \in InFlight, NEW c, c = gasCoin[t].id,
         NEW charge \in Charges, NEW spent \in 0..1, NEW given \in BOOLEAN,
         Spends(t, charge, spent, given)
  PROVE  /\ ChainInv' /\ minted' = minted
         /\ \A d \in Owned \ {c} :
              d \in Owned' /\ version'[d] = version[d] /\ balance'[d] = balance[d]
         /\ ~ given => /\ c \in Owned' /\ version'[c] = version[c] + 1
                       /\ balance'[c] = balance[c] - charge.net - spent
<1>1. /\ c \in Owned /\ Owned \subseteq 1..minted /\ DOMAIN version = Owned
      /\ \A d \in Owned : version[d] \in Int
  BY DEF PlacesInv, ChainInv, FlightInv, Good
<1>2. minted' = minted
  BY DEF Spends
<1>3. CASE given
  <2>1. /\ version' = [d \in Owned \ {c} |-> version[d]]
        /\ balance' = [d \in Owned \ {c} |-> balance[d]]
    BY <1>3 DEF Spends
  <2>2. Owned' = Owned \ {c}
    BY <2>1 DEF Owned
  <2> QED
    BY <1>1, <1>2, <1>3, <2>1, <2>2 DEF ChainInv
<1>4. CASE ~ given
  <2>1. /\ version' = [version EXCEPT ![c] = @ + 1]
        /\ balance' = [balance EXCEPT ![c] = @ - charge.net - spent]
    BY <1>4 DEF Spends
  <2>2. Owned' = Owned /\ DOMAIN version' = Owned
    BY <1>1, <2>1 DEF Owned
  <2>3. /\ version'[c] = version[c] + 1 /\ balance'[c] = balance[c] - charge.net - spent
        /\ \A d \in Owned \ {c} : version'[d] = version[d] /\ balance'[d] = balance[d]
    BY <1>1, <2>1 DEF Owned
  <2>4. \A d \in Owned : version'[d] \in Int
    <3>1. version[c] + 1 \in Int
      BY <1>1
    <3>2. \A d \in Owned : d = c \/ d \in Owned \ {c}
      OBVIOUS
    <3> QED
      BY <1>1, <2>3, <3>1, <3>2, Zenon
  <2> QED
    BY <1>1, <1>2, <2>2, <2>3, <2>4 DEF ChainInv
<1> QED
  BY <1>3, <1>4

LEMMA CompletesPlaces ==
  ASSUME Inv, PlacesInv, NEW t \in Txs, Completes(t)
  PROVE  PlacesInv'
<1> DEFINE c == gasCoin[t].id
<1>1. PICK charge \in Charges, usesGasCoin \in BOOLEAN, spent \in 0..1, given \in BOOLEAN :
        /\ stage[t] = "flight" /\ Becomes(t, "done")
        /\ ~ usesGasCoin => spent = 0 /\ ~ given
        /\ Spends(t, charge, spent, given)
        /\ \/ given /\ UNCHANGED <<coinPool, sourceCoins, sourcesKnown>>
           \/ ~ given /\ ~ usesGasCoin /\ gasCoin[t].balance >= MinimumBalance
                /\ Returns(t, charge) /\ UNCHANGED <<sourceCoins, sourcesKnown>>
           \/ ~ given /\ (usesGasCoin \/ gasCoin[t].balance < MinimumBalance)
                /\ AddSource(gasCoin[t].id, gasCoin[t].version + 1) /\ UNCHANGED coinPool
        /\ gasCoin' = [gasCoin EXCEPT ![t] = NoCoin]
        /\ UNCHANGED refill
  BY Zenon DEF Completes
<1>2. t \in InFlight /\ gasCoin \in [Txs -> Coins]
  BY <1>1 DEF InFlight, Inv, Counts
<1>3. /\ stage'[t] = "done" /\ \A u \in Txs : u # t => stage'[u] = stage[u]
      /\ InFlight' = InFlight \ {t} /\ \A u \in InFlight \ {t} : gasCoin'[u] = gasCoin[u]
  <2>1. stage'[t] = "done" /\ \A u \in Txs : u # t => stage'[u] = stage[u]
    BY <1>1 DEF Becomes, Inv, OneBuilds
  <2> QED
    BY <1>1, <1>2, <2>1 DEF InFlight
<1>4. /\ ChainInv' /\ minted' = minted
      /\ \A d \in Owned \ {c} :
           d \in Owned' /\ version'[d] = version[d] /\ balance'[d] = balance[d]
      /\ ~ given => /\ c \in Owned' /\ version'[c] = version[c] + 1
                    /\ balance'[c] = balance[c] - charge.net - spent
  BY <1>1, <1>2, SpendsChain
<1>5. /\ gasCoin[t].version = version[c] /\ c \in Owned
      /\ balance[c] \in Int /\ gasCoin[t].balance <= balance[c] /\ version[c] \in Int
  BY <1>2 DEF PlacesInv, ChainInv, FlightInv, Good
<1>6. charge.net \in Int /\ charge.storage \in Nat
  BY Sizes
<1>7. CASE given /\ UNCHANGED <<coinPool, sourceCoins, sourcesKnown>>
  BY <1>1, <1>2, <1>3, <1>4, <1>7, LeavesPlaces
<1>8. CASE ~ given /\ ~ usesGasCoin /\ Returns(t, charge) /\ UNCHANGED <<sourceCoins, sourcesKnown>>
  <2> DEFINE e == [id |-> c, version |-> gasCoin[t].version + 1,
                   balance |-> gasCoin[t].balance - TotalUsed(charge)]
  <2>1. coinPool' = Append(coinPool, e)
    BY <1>8 DEF Returns
  <2>2. e \in Coins
    <3>1. c \in Nat /\ gasCoin[t].version \in Nat /\ gasCoin[t].balance \in Int
      BY <1>2 DEF Coins
    <3> QED
      BY <1>6, <3>1 DEF Coins, TotalUsed
  <2>3. /\ e.id = c /\ e.version = version'[c]
        /\ balance'[c] \in Int /\ e.balance <= balance'[c]
    <3>1. e.id = c /\ e.version = gasCoin[t].version + 1
          /\ e.balance = gasCoin[t].balance - (charge.net + charge.storage)
      BY DEF TotalUsed
    <3>2. balance'[c] = balance[c] - charge.net
      BY <1>1, <1>4, <1>5, <1>6, <1>8
    <3>3. gasCoin[t].balance \in Int
      BY <1>2 DEF Coins
    <3> HIDE DEF e, c
    <3> QED
      BY <1>4, <1>5, <1>6, <1>8, <3>1, <3>2, <3>3
  <2> HIDE DEF e
  <2> QED
    BY <1>1, <1>2, <1>3, <1>4, <1>8, <2>1, <2>2, <2>3, LeavesPlaces
<1>9. CASE ~ given /\ AddSource(c, gasCoin[t].version + 1) /\ UNCHANGED coinPool
  <2>1. gasCoin[t].version + 1 = version'[c] /\ c \in Owned' /\ sourcesKnown'
    BY <1>4, <1>5, <1>9 DEF AddSource
  <2> QED
    BY <1>1, <1>2, <1>3, <1>4, <1>9, <2>1, LeavesPlaces
<1> QED
  BY <1>1, <1>7, <1>8, <1>9

LEMMA FailsPlaces ==
  ASSUME Inv, PlacesInv, NEW t \in Txs, Fails(t)
  PROVE  PlacesInv'
<1> DEFINE c == gasCoin[t].id
<1>1. /\ stage[t] = "flight" /\ Becomes(t, "failed") /\ AddSource(c, Unknown)
      /\ gasCoin' = [gasCoin EXCEPT ![t] = NoCoin] /\ UNCHANGED <<coinPool, refill>>
      /\ \/ UNCHANGED chainVars
         \/ \E charge \in Charges, spent \in 0..1, given \in BOOLEAN :
              Spends(t, charge, spent, given)
  BY Zenon DEF Fails, SourceOfUnknown
<1>2. t \in InFlight /\ gasCoin \in [Txs -> Coins]
  BY <1>1 DEF InFlight, Inv, Counts
<1>3. /\ stage'[t] = "failed" /\ \A u \in Txs : u # t => stage'[u] = stage[u]
      /\ InFlight' = InFlight \ {t} /\ \A u \in InFlight \ {t} : gasCoin'[u] = gasCoin[u]
  <2>1. stage'[t] = "failed" /\ \A u \in Txs : u # t => stage'[u] = stage[u]
    BY <1>1 DEF Becomes, Inv, OneBuilds
  <2> QED
    BY <1>1, <1>2, <2>1 DEF InFlight
<1>4. /\ ChainInv' /\ minted' = minted
      /\ \A d \in Owned \ {c} :
           d \in Owned' /\ version'[d] = version[d] /\ balance'[d] = balance[d]
  <2>1. CASE UNCHANGED chainVars
    BY <2>1 DEF chainVars, Owned, PlacesInv, ChainInv
  <2>2. CASE \E charge \in Charges, spent \in 0..1, given \in BOOLEAN :
               Spends(t, charge, spent, given)
    <3>1. PICK charge \in Charges, spent \in 0..1, given \in BOOLEAN :
            Spends(t, charge, spent, given)
      BY <2>2
    <3> HIDE DEF c
    <3>2. c = gasCoin[t].id
      BY DEF c
    <3> QED
      BY <1>2, <3>1, <3>2, SpendsChain
  <2> QED
    BY <1>1, <2>1, <2>2
<1>5. sourcesKnown'
  BY <1>1 DEF AddSource
<1> QED
  BY <1>1, <1>2, <1>3, <1>4, <1>5, LeavesPlaces

LEMMA QuietPlaces ==
  ASSUME Inv, PlacesInv, NEW t \in Txs,
         Start(t) \/ EnterBuild(t) \/ PriceFails(t) \/ Ends(t)
  PROVE  PlacesInv'
<1>1. /\ UNCHANGED <<coinPool, sourceCoins, sourcesKnown, gasCoin, refill, chainVars>>
      /\ stage[t] \notin {"fetch", "refill", "flight"}
  BY DEF Start, EnterBuild, PriceFails, Ends, poolVars
<1>2. PICK to \in {"started", "build", "failed", "done"} : Becomes(t, to)
  BY DEF Start, EnterBuild, PriceFails, Ends
<1>3. stage'[t] = to /\ \A u \in Txs : u # t => stage'[u] = stage[u]
  BY <1>2 DEF Becomes, Inv, OneBuilds
<1>4. InFlight' = InFlight
  BY <1>1, <1>3 DEF InFlight
<1> QED
  BY <1>1, <1>3, <1>4, CoinsStay

LEMMA NextPlaces == Inv /\ PlacesInv /\ [Next]_vars => PlacesInv'
<1> SUFFICES ASSUME Inv, PlacesInv, [Next]_vars PROVE PlacesInv'
  OBVIOUS
<1>1. CASE UNCHANGED vars
  BY <1>1, CoinsStay DEF vars, poolVars, InFlight
<1>2. ASSUME NEW t \in Txs, Step(t) PROVE PlacesInv'
  <2>1. CASE Start(t) \/ EnterBuild(t) \/ PriceFails(t) \/ Ends(t)
    BY <2>1, QuietPlaces
  <2>2. CASE StartRefill(t)
    BY <2>2, StartRefillPlaces
  <2>3. CASE Fetched(t)
    BY <2>3, FetchedPlaces
  <2>4. CASE Refilled(t)
    BY <2>4, RefilledPlaces
  <2>5. CASE RefillFails(t)
    BY <2>5, RefillFailsPlaces
  <2>6. CASE GetCoin(t)
    BY <2>6, GetCoinPlaces
  <2>7. CASE Completes(t)
    BY <2>7, CompletesPlaces
  <2>8. CASE Fails(t)
    BY <2>8, FailsPlaces
  <2> QED
    BY <1>2, <2>1, <2>2, <2>3, <2>4, <2>5, <2>6, <2>7, <2>8 DEF Step
<1> QED
  BY <1>1, <1>2 DEF Next, Terminated

LEMMA CoinsInPlace == Spec => [](Inv /\ PlacesInv)
BY InitInv, NextInv, InitPlaces, NextPlaces, PTL DEF Spec

(* A gas coin is in the pool once, or used by one transaction, or a source *)
(* coin, or about to be merged by a refill, whatever fails (#getGasCoin,   *)
(* #refillCoinPool and #execute, parallel.ts:216-479).                     *)
THEOREM OneUserOfACoin == Spec => []CoinsExclusive
<1>1. PlacesInv => CoinsExclusive
  <2> SUFFICES ASSUME PlacesInv PROVE CoinsExclusive
    OBVIOUS
  <2>1. \A i, j \in 1..Len(coinPool) : coinPool[i].id = coinPool[j].id => i = j
    BY DEF PlacesInv, PoolInv
  <2>2. \A t, u \in InFlight : gasCoin[t].id = gasCoin[u].id => t = u
    BY DEF PlacesInv, FlightInv
  <2>3. PoolIds \cap FlightIds = {}
    BY DEF PlacesInv, FlightInv, PoolIds, FlightIds
  <2>4. \A c \in DOMAIN sourceCoins \cup RefillIds : Untaken(c)
    <3>1. \A c \in RefillIds : Untaken(c)
      BY PaymentUntaken DEF RefillIds
    <3> QED
      BY <3>1 DEF PlacesInv, SourcesInv
  <2>5. (PoolIds \cup FlightIds) \cap (DOMAIN sourceCoins \cup RefillIds) = {}
    BY <2>4 DEF Untaken, PoolIds, FlightIds
  <2> QED
    BY <2>1, <2>2, <2>3, <2>5 DEF CoinsExclusive
<1> QED
  BY <1>1, CoinsInPlace, PTL

(* No lost reply leaves a stale reference behind: what the pool hands out, *)
(* and what the executor itself knows the coins of a refill by, names a    *)
(* coin of the signer by its version on chain.  Stale can only be what a   *)
(* fullnode has answered (parallel.ts:246-341 and 389-479).                *)
THEOREM ReferencesStayCurrent == Spec => []CoinRefsCurrent
<1>1. PlacesInv => CoinRefsCurrent
  <2> SUFFICES ASSUME PlacesInv PROVE CoinRefsCurrent
    OBVIOUS
  <2>1. \A i \in 1..Len(coinPool) : Current(coinPool[i].id, coinPool[i].version)
    BY DEF PlacesInv, PoolInv, Good, Current
  <2>2. \A c \in References : Current(c, sourceCoins[c])
    BY DEF PlacesInv, SourcesInv, References, Current
  <2>3. ASSUME NEW t \in Txs, stage[t] \in {"fetch", "refill"},
               NEW c \in DOMAIN refill.refs \ refill.asked
        PROVE  Current(c, refill.refs[c])
    BY <2>3 DEF PlacesInv, RefillInv
  <2> QED
    BY <2>1, <2>2, <2>3 DEF CoinRefsCurrent
<1> QED
  BY <1>1, CoinsInPlace, PTL

(* The balance by which a coin is judged worth using again is never more   *)
(* than it has: the storage cost that is subtracted twice errs on the safe *)
(* side (parallel.ts:246-266).                                             *)
THEOREM PoolNeverOverstates == Spec => []BalanceNotOverstated
<1>1. PlacesInv => BalanceNotOverstated
  BY DEF PlacesInv, PoolInv, Good, BalanceNotOverstated
<1> QED
  BY <1>1, CoinsInPlace, PTL
-----------------------------------------------------------------------------
(* Why no transaction goes without a coin.  The count of pending           *)
(* transactions, wrong as it may be, is never more than the transactions   *)
(* that have had their turn in the build queue and have not ended.         *)
HadTurn == {t \in Txs : stage[t] \in {"flight", "failed"}}

CountsInv ==
  /\ Cardinality(Started) <= MaxPoolSize
  /\ pendingTransactions <= Cardinality(HadTurn)

(* A refill under way asks for coins, and they stay until it is confirmed. *)
AsksInv ==
  /\ "split" \in DOMAIN refill
  /\ \A t \in Txs : stage[t] \in {"fetch", "refill"} => refill.batch # 0
  /\ \A t \in Txs : stage[t] = "confirm" /\ refill.split => coinPool # <<>>

LEMMA InitFeeds == Init => CountsInv /\ AsksInv
<1> SUFFICES ASSUME Init PROVE CountsInv /\ AsksInv
  OBVIOUS
<1>1. Started = {} /\ HadTurn = {}
  BY DEF Init, Started, HadTurn
<1>2. CountsInv
  BY <1>1, FS_EmptySet, Sizes DEF Init, CountsInv
<1>3. AsksInv
  BY DEF Init, AsksInv, NoRefill
<1> QED
  BY <1>2, <1>3

(* The change of the count is not more than what the step adds to those    *)
(* who have had their turn.                                                *)
LEMMA TurnsCounted ==
  ASSUME Inv, CountsInv, NEW t \in Txs, NEW to \in Stages \ {"new"}, Becomes(t, to),
         stage[t] # "done", stage[t] = "new" => Cardinality(Started) < MaxPoolSize,
         pendingTransactions' \in Int,
         \/ /\ to \in {"flight", "failed"} /\ stage[t] \notin {"flight", "failed"}
            /\ pendingTransactions' <= pendingTransactions + 1
         \/ /\ to \notin {"flight", "failed"} /\ stage[t] \in {"flight", "failed"}
            /\ pendingTransactions' <= pendingTransactions - 1
         \/ /\ (to \in {"flight", "failed"}) = (stage[t] \in {"flight", "failed"})
            /\ pendingTransactions' <= pendingTransactions
  PROVE  CountsInv'
<1>1. stage'[t] = to /\ \A u \in Txs : u # t => stage'[u] = stage[u]
  BY DEF Becomes, Inv, OneBuilds
<1>2. pendingTransactions \in Int /\ MaxPoolSize \in Nat
  BY Sizes DEF Inv, Counts
<1>3. /\ IsFiniteSet(Started) /\ IsFiniteSet(HadTurn)
      /\ Cardinality(Started) \in Nat /\ Cardinality(HadTurn) \in Nat
  <2>1. Started \subseteq Txs /\ HadTurn \subseteq Txs
    BY DEF Started, HadTurn
  <2> QED
    BY <2>1, Sizes, FS_Subset, FS_CardinalityType
<1>4. Cardinality(Started)' <= MaxPoolSize
  <2>1. CASE stage[t] = "new"
    <3>1. Started' \subseteq Started \cup {t}
      BY <1>1 DEF Started
    <3>2. /\ Cardinality(Started \cup {t}) <= Cardinality(Started) + 1
          /\ IsFiniteSet(Started \cup {t}) /\ Cardinality(Started \cup {t}) \in Nat
      <4>1. Cardinality(Started \cup {t}) =
              IF t \in Started THEN Cardinality(Started) ELSE Cardinality(Started) + 1
        BY <1>3, FS_AddElement
      <4>2. IsFiniteSet(Started \cup {t})
        BY <1>3, FS_AddElement
      <4> QED
        BY <1>3, <4>1, <4>2, FS_CardinalityType
    <3>3. Cardinality(Started') <= Cardinality(Started \cup {t}) /\ Cardinality(Started') \in Nat
      BY <3>1, <3>2, FS_Subset, FS_CardinalityType
    <3> QED
      BY <1>2, <1>3, <2>1, <3>2, <3>3
  <2>2. CASE stage[t] # "new"
    <3>1. Started' \subseteq Started
      BY <1>1, <2>2 DEF Started
    <3>2. Cardinality(Started') <= Cardinality(Started) /\ Cardinality(Started') \in Nat
      BY <1>3, <3>1, FS_Subset, FS_CardinalityType
    <3> QED
      BY <1>2, <1>3, <3>2 DEF CountsInv
  <2> QED
    BY <2>1, <2>2
<1>5. (pendingTransactions <= Cardinality(HadTurn))'
  <2>1. CASE to \in {"flight", "failed"} /\ stage[t] \notin {"flight", "failed"}
    <3>1. HadTurn' = HadTurn \cup {t} /\ t \notin HadTurn
      BY <1>1, <2>1 DEF HadTurn
    <3>2. Cardinality(HadTurn') = Cardinality(HadTurn) + 1
      BY <1>3, <3>1, FS_AddElement
    <3>3. pendingTransactions' <= pendingTransactions + 1
      BY <2>1
    <3> QED
      BY <1>2, <1>3, <3>2, <3>3 DEF CountsInv
  <2>2. CASE to \notin {"flight", "failed"} /\ stage[t] \in {"flight", "failed"}
    <3>1. HadTurn' = HadTurn \ {t} /\ t \in HadTurn
      BY <1>1, <2>2 DEF HadTurn
    <3>2. Cardinality(HadTurn') = Cardinality(HadTurn) - 1
      BY <1>3, <3>1, FS_RemoveElement
    <3>3. pendingTransactions' <= pendingTransactions - 1
      BY <2>2
    <3> QED
      BY <1>2, <1>3, <3>2, <3>3 DEF CountsInv
  <2>3. CASE (to \in {"flight", "failed"}) = (stage[t] \in {"flight", "failed"})
    <3>1. HadTurn' = HadTurn
      BY <1>1, <2>3 DEF HadTurn
    <3>2. pendingTransactions' <= pendingTransactions
      BY <2>3
    <3> QED
      BY <1>2, <1>3, <3>1, <3>2 DEF CountsInv
  <2> QED
    BY <2>1, <2>2, <2>3
<1> QED
  BY <1>4, <1>5 DEF CountsInv

(* The moves that leave the pool, the count and the refill alone.          *)
LEMMA QuietFeeds ==
  ASSUME Inv, CountsInv, AsksInv, NEW t \in Txs, Start(t) \/ EnterBuild(t) \/ PriceFails(t)
  PROVE  CountsInv' /\ AsksInv'
<1>1. /\ UNCHANGED <<coinPool, pendingTransactions, refill>>
      /\ pendingTransactions' \in Int /\ pendingTransactions' <= pendingTransactions
      /\ pendingTransactions' <= pendingTransactions + 1
  BY DEF Start, EnterBuild, PriceFails, poolVars, Inv, Counts
<1>2. PICK to \in {"started", "build", "failed"} :
        /\ Becomes(t, to)
        /\ \/ stage[t] = "new" /\ to = "started" /\ Cardinality(Started) < MaxPoolSize
           \/ stage[t] = "started" /\ to = "build"
           \/ stage[t] = "build" /\ to = "failed"
  BY DEF Start, EnterBuild, PriceFails
<1>3. stage'[t] = to /\ \A u \in Txs : u # t => stage'[u] = stage[u]
  BY <1>2 DEF Becomes, Inv, OneBuilds
<1>4. CountsInv'
  BY <1>1, <1>2, TurnsCounted DEF Stages
<1>5. AsksInv'
  BY <1>1, <1>2, <1>3 DEF AsksInv
<1> QED
  BY <1>4, <1>5

LEMMA StartRefillFeeds ==
  ASSUME Inv, CountsInv, AsksInv, NEW t \in Txs, StartRefill(t)
  PROVE  CountsInv' /\ AsksInv'
<1>1. /\ UNCHANGED <<coinPool, pendingTransactions>> /\ stage[t] = "build"
      /\ refill'.batch = BatchSize /\ BatchSize # 0 /\ "split" \in DOMAIN refill'
      /\ pendingTransactions' \in Int /\ pendingTransactions' <= pendingTransactions
  BY DEF StartRefill, NeedsRefill, Inv, Counts
<1>2. PICK to \in {"fetch", "refill"} : Becomes(t, to)
  BY DEF StartRefill
<1>3. /\ t \in InBuild /\ stage'[t] = to
      /\ \A u \in Txs : u # t => stage'[u] = stage[u] /\ stage'[u] # "confirm"
  <2>1. t \in InBuild
    BY <1>1 DEF InBuild
  <2> QED
    BY <1>2, <2>1, NobodyElseRefills DEF Becomes, Inv, OneBuilds
<1>4. CountsInv'
  BY <1>1, <1>2, TurnsCounted DEF Stages
<1>5. AsksInv'
  BY <1>1, <1>2, <1>3 DEF AsksInv
<1> QED
  BY <1>4, <1>5

LEMMA FetchedFeeds ==
  ASSUME Inv, CountsInv, AsksInv, NEW t \in Txs, Fetched(t)
  PROVE  CountsInv' /\ AsksInv'
<1>1. /\ UNCHANGED <<coinPool, pendingTransactions>> /\ stage[t] = "fetch" /\ Becomes(t, "refill")
      /\ refill'.batch = refill.batch /\ "split" \in DOMAIN refill'
      /\ pendingTransactions' \in Int /\ pendingTransactions' <= pendingTransactions
  BY DEF Fetched, Inv, Counts, AsksInv
<1>2. /\ stage'[t] = "refill"
      /\ \A u \in Txs : u # t => stage'[u] = stage[u] /\ stage'[u] # "confirm"
  <2>1. t \in InBuild
    BY <1>1 DEF InBuild
  <2> QED
    BY <1>1, <2>1, NobodyElseRefills DEF Becomes, Inv, OneBuilds
<1>3. CountsInv'
  BY <1>1, TurnsCounted DEF Stages
<1>4. AsksInv'
  BY <1>1, <1>2 DEF AsksInv
<1> QED
  BY <1>3, <1>4

LEMMA RefilledFeeds ==
  ASSUME Inv, CountsInv, AsksInv, NEW t \in Txs, Refilled(t)
  PROVE  CountsInv' /\ AsksInv'
<1>1. PICK gas \in Payment, split \in BOOLEAN :
        /\ stage[t] = "refill" /\ Becomes(t, "confirm")
        /\ coinPool' = coinPool \o NewCoins(gas, split)
        /\ refill' = [refill EXCEPT !.split = split]
        /\ UNCHANGED pendingTransactions
  BY Zenon DEF Refilled
<1>2. /\ pendingTransactions' \in Int /\ pendingTransactions' <= pendingTransactions
      /\ "split" \in DOMAIN refill' /\ refill'.split = split
  BY <1>1 DEF Inv, Counts, AsksInv
<1>3. CountsInv'
  BY <1>1, <1>2, TurnsCounted DEF Stages
<1>4. /\ stage'[t] = "confirm"
      /\ \A u \in Txs : u # t => stage'[u] = stage[u] /\ stage'[u] \notin {"fetch", "refill", "confirm"}
  <2>1. t \in InBuild
    BY <1>1 DEF InBuild
  <2> QED
    BY <1>1, <2>1, NobodyElseRefills DEF Becomes, Inv, OneBuilds
<1>5. split => coinPool' # <<>>
  <2> SUFFICES ASSUME split PROVE coinPool' # <<>>
    OBVIOUS
  <2> DEFINE news == NewCoins(gas, split)
  <2>1. coinPool \in Seq(Coins) /\ news \in Seq(Coins) /\ Len(news) = refill.batch
    BY NewCoinsCounted, NewCoinsAre DEF Inv, Counts
  <2>2. refill.batch \in Nat /\ refill.batch # 0
    BY <1>1 DEF Inv, Counts, AsksInv
  <2> HIDE DEF news
  <2>3. Len(coinPool \o news) = Len(coinPool) + Len(news) /\ Len(coinPool) \in Nat
    BY <2>1, ConcatProperties
  <2>4. Len(coinPool \o news) # 0
    BY <2>1, <2>2, <2>3
  <2>5. coinPool' = coinPool \o news
    BY <1>1 DEF news
  <2>6. Len(coinPool') # 0
    BY <2>4, <2>5
  <2>7. Len(<<>>) = 0
    OBVIOUS
  <2> QED
    BY <2>6, <2>7, Zenon
<1>6. AsksInv'
  BY <1>2, <1>4, <1>5 DEF AsksInv
<1> QED
  BY <1>3, <1>6

(* The task of the build queue ends, with a coin or without.               *)
LEMMA TurnFeeds ==
  ASSUME Inv, CountsInv, AsksInv, NEW t \in Txs, RefillFails(t) \/ GetCoin(t)
  PROVE  CountsInv' /\ AsksInv'
<1>1. /\ t \in InBuild /\ refill' = NoRefill
      /\ \/ Becomes(t, "failed") /\ pendingTransactions' = pendingTransactions
         \/ Becomes(t, "flight") /\ pendingTransactions' = pendingTransactions + 1
  BY DEF RefillFails, RefillThrows, GetCoin, ShiftCoin, InBuild, poolVars
<1>2. PICK to \in {"failed", "flight"} : Becomes(t, to)
  BY <1>1
<1>3. /\ stage'[t] = to
      /\ \A u \in Txs : u # t => stage'[u] = stage[u] /\ stage'[u] \notin {"fetch", "refill", "confirm"}
  BY <1>1, <1>2, NobodyElseRefills DEF Becomes, Inv, OneBuilds
<1>4. pendingTransactions' \in Int /\ pendingTransactions' <= pendingTransactions + 1
  BY <1>1 DEF Inv, Counts
<1>5. CountsInv'
  BY <1>1, <1>2, <1>4, TurnsCounted DEF Stages, InBuild
<1>6. AsksInv'
  BY <1>1, <1>2, <1>3 DEF AsksInv, NoRefill
<1> QED
  BY <1>5, <1>6

(* A transaction ends or is about to: whatever happens to its coin, the    *)
(* pool does not shrink.                                                   *)
LEMMA EndFeeds ==
  ASSUME Inv, CountsInv, AsksInv, NEW t \in Txs, Completes(t) \/ Fails(t) \/ Ends(t)
  PROVE  CountsInv' /\ AsksInv'
<1>1. /\ refill' = refill /\ stage[t] \in {"flight", "failed"}
      /\ \/ Becomes(t, "done") /\ pendingTransactions' = pendingTransactions - 1
         \/ Becomes(t, "failed") /\ pendingTransactions' = pendingTransactions
      /\ coinPool' = coinPool \/ \E charge \in Charges : Returns(t, charge)
  BY Zenon DEF Completes, Fails, Ends, CountsDown
<1>2. coinPool # <<>> => coinPool' # <<>>
  <2>1. CASE \E charge \in Charges : Returns(t, charge)
    <3>1. PICK e : coinPool' = Append(coinPool, e)
      BY <2>1 DEF Returns
    <3> QED
      BY <3>1 DEF Inv, Counts
  <2> QED
    BY <1>1, <2>1
<1>3. PICK to \in {"done", "failed"} :
        /\ Becomes(t, to)
        /\ \/ to = "done" /\ pendingTransactions' = pendingTransactions - 1
           \/ to = "failed" /\ pendingTransactions' = pendingTransactions
  BY <1>1
<1>4. stage'[t] = to /\ \A u \in Txs : u # t => stage'[u] = stage[u]
  BY <1>3 DEF Becomes, Inv, OneBuilds
<1>5. pendingTransactions \in Int /\ pendingTransactions' \in Int
  BY <1>3 DEF Inv, Counts
<1>6. CountsInv'
  BY <1>1, <1>3, <1>5, TurnsCounted DEF Stages
<1>7. AsksInv'
  BY <1>1, <1>2, <1>3, <1>4 DEF AsksInv
<1> QED
  BY <1>6, <1>7

LEMMA NextFeeds == Inv /\ CountsInv /\ AsksInv /\ [Next]_vars => CountsInv' /\ AsksInv'
<1> SUFFICES ASSUME Inv, CountsInv, AsksInv, [Next]_vars PROVE CountsInv' /\ AsksInv'
  OBVIOUS
<1>1. CASE UNCHANGED vars
  BY <1>1 DEF vars, poolVars, CountsInv, AsksInv, Started, HadTurn
<1>2. ASSUME NEW t \in Txs, Step(t) PROVE CountsInv' /\ AsksInv'
  <2>1. CASE Start(t) \/ EnterBuild(t) \/ PriceFails(t)
    BY <2>1, QuietFeeds
  <2>2. CASE StartRefill(t)
    BY <2>2, StartRefillFeeds
  <2>3. CASE Fetched(t)
    BY <2>3, FetchedFeeds
  <2>4. CASE Refilled(t)
    BY <2>4, RefilledFeeds
  <2>5. CASE RefillFails(t) \/ GetCoin(t)
    BY <2>5, TurnFeeds
  <2>6. CASE Completes(t) \/ Fails(t) \/ Ends(t)
    BY <2>6, EndFeeds
  <2> QED
    BY <1>2, <2>1, <2>2, <2>3, <2>4, <2>5, <2>6 DEF Step
<1> QED
  BY <1>1, <1>2 DEF Next, Terminated

(* A transaction in the task of the build queue has not had its turn, so   *)
(* the count leaves room for a coin of its own.                            *)
LEMMA RoomForOneMore ==
  ASSUME Inv, CountsInv, NEW t \in InBuild
  PROVE  pendingTransactions < MaxPoolSize
<1>1. /\ HadTurn \cup {t} \subseteq Started /\ t \notin HadTurn
      /\ Started \subseteq Txs /\ HadTurn \subseteq Txs
  BY DEF HadTurn, Started, InBuild
<1>2. IsFiniteSet(Started) /\ IsFiniteSet(HadTurn)
  BY <1>1, Sizes, FS_Subset
<1>3. /\ Cardinality(HadTurn \cup {t}) = Cardinality(HadTurn) + 1
      /\ Cardinality(HadTurn \cup {t}) <= Cardinality(Started)
  <2>1. Cardinality(HadTurn \cup {t}) = Cardinality(HadTurn) + 1
    BY <1>1, <1>2, FS_AddElement
  <2>2. Cardinality(HadTurn \cup {t}) <= Cardinality(Started)
    BY <1>1, <1>2, FS_Subset
  <2> QED
    BY <2>1, <2>2
<1>4. Cardinality(HadTurn) \in Nat /\ Cardinality(Started) \in Nat
  BY <1>2, FS_CardinalityType
<1> QED
  BY <1>3, <1>4, Sizes DEF CountsInv, Inv, Counts

(* No transaction ends with 'No coins available' as long as a refill can   *)
(* be split: an empty pool is refilled, and its new coins are still there  *)
(* when the refill is confirmed (parallel.ts:330-341 and 413-479).         *)
THEOREM RefillAlwaysFeeds == Spec => []RefillFeeds
<1>1. Inv /\ CountsInv /\ AsksInv => RefillFeeds
  <2> SUFFICES ASSUME Inv, CountsInv, AsksInv, NEW t \in InBuild
               PROVE  /\ stage[t] = "build" => coinPool # <<>> \/ NeedsRefill
                      /\ stage[t] = "confirm" /\ refill.split => coinPool # <<>>
    BY DEF RefillFeeds
  <2>1. pendingTransactions < MaxPoolSize
    BY RoomForOneMore
  <2>2. ASSUME coinPool = <<>> PROVE NeedsRefill
    <3>1. Len(coinPool) = 0
      BY <2>2
    <3>2. pendingTransactions \in Int /\ MaxPoolSize \in Nat /\ CoinBatchSize \in Nat \ {0}
      BY Sizes DEF Inv, Counts
    <3>3. BatchSize # 0
      BY <2>1, <3>1, <3>2 DEF BatchSize, Lesser
    <3> QED
      BY <2>1, <2>2, <3>2, <3>3 DEF NeedsRefill
  <2>3. stage[t] = "confirm" /\ refill.split => coinPool # <<>>
    BY DEF AsksInv, InBuild
  <2> QED
    BY <2>2, <2>3
<1> QED
  BY <1>1, InitInv, NextInv, InitFeeds, NextFeeds, PTL DEF Spec
-----------------------------------------------------------------------------
(* How many coins there are.                                               *)
Ended == {t \in Txs : stage[t] = "done"}

(* A transaction takes the count down once at its end, and once up if it   *)
(* ever got a coin: the count lags behind its users by the ended ones at   *)
(* the most.  A refill starts with an empty pool, when the coins in use    *)
(* are those of other slots.                                               *)
BoundInv ==
  /\ Cardinality(InFlight) <= pendingTransactions + Cardinality(Ended)
  /\ Len(coinPool) + Cardinality(InFlight) <= MaxPoolSize - 1 + CoinBatchSize
  /\ \A t \in Txs : stage[t] \in {"fetch", "refill"} =>
       /\ Len(coinPool) + Cardinality(InFlight) <= MaxPoolSize - 1
       /\ refill.batch <= CoinBatchSize

LEMMA InitBounds == Init => BoundInv
<1> SUFFICES ASSUME Init PROVE BoundInv
  OBVIOUS
<1>1. InFlight = {} /\ Ended = {} /\ coinPool = <<>> /\ pendingTransactions = 0
  BY DEF Init, InFlight, Ended
<1>2. Cardinality(InFlight) = 0 /\ Cardinality(Ended) = 0 /\ Len(coinPool) = 0
  BY <1>1, FS_EmptySet
<1> QED
  BY <1>1, <1>2, Sizes DEF Init, BoundInv

LEMMA Cardinals ==
  /\ IsFiniteSet(InFlight) /\ Cardinality(InFlight) \in Nat
  /\ IsFiniteSet(Ended) /\ Cardinality(Ended) \in Nat
<1>1. InFlight \subseteq Txs /\ Ended \subseteq Txs
  BY DEF InFlight, Ended
<1> QED
  BY <1>1, Sizes, FS_Subset, FS_CardinalityType

(* A transaction that moves on leaves one stage for another.               *)
LEMMA MovesCounted ==
  ASSUME Inv, NEW t \in Txs, NEW to \in Stages, Becomes(t, to), stage[t] # to, stage[t] # "done"
  PROVE  /\ Cardinality(InFlight') =
              Cardinality(InFlight) + (IF to = "flight" THEN 1 ELSE 0)
                                    - (IF stage[t] = "flight" THEN 1 ELSE 0)
         /\ Cardinality(Ended') = Cardinality(Ended) + (IF to = "done" THEN 1 ELSE 0)
<1>1. stage'[t] = to /\ \A u \in Txs : u # t => stage'[u] = stage[u]
  BY DEF Becomes, Inv, OneBuilds
<1>2. Cardinality(InFlight') =
        Cardinality(InFlight) + (IF to = "flight" THEN 1 ELSE 0)
                              - (IF stage[t] = "flight" THEN 1 ELSE 0)
  <2>1. CASE to = "flight"
    <3>1. InFlight' = InFlight \cup {t} /\ t \notin InFlight
      BY <1>1, <2>1 DEF InFlight
    <3>2. Cardinality(InFlight') = Cardinality(InFlight) + 1
      BY <3>1, Cardinals, FS_AddElement
    <3> QED
      BY <2>1, <3>2, Cardinals
  <2>2. CASE stage[t] = "flight"
    <3>1. InFlight' = InFlight \ {t} /\ t \in InFlight
      BY <1>1, <2>2 DEF InFlight
    <3>2. Cardinality(InFlight') = Cardinality(InFlight) - 1
      BY <3>1, Cardinals, FS_RemoveElement
    <3> QED
      BY <2>2, <3>2, Cardinals
  <2>3. CASE to # "flight" /\ stage[t] # "flight"
    <3>1. InFlight' = InFlight
      BY <1>1, <2>3 DEF InFlight
    <3> QED
      BY <2>3, <3>1, Cardinals
  <2> QED
    BY <2>1, <2>2, <2>3
<1>3. Cardinality(Ended') = Cardinality(Ended) + (IF to = "done" THEN 1 ELSE 0)
  <2>1. CASE to = "done"
    <3>1. Ended' = Ended \cup {t} /\ t \notin Ended
      BY <1>1, <2>1 DEF Ended
    <3>2. Cardinality(Ended') = Cardinality(Ended) + 1
      BY <3>1, Cardinals, FS_AddElement
    <3> QED
      BY <2>1, <3>2
  <2>2. CASE to # "done"
    <3>1. Ended' = Ended
      BY <1>1, <2>2 DEF Ended
    <3> QED
      BY <2>2, <3>1, Cardinals
  <2> QED
    BY <2>1, <2>2
<1> QED
  BY <1>2, <1>3

LEMMA Differences ==
  ASSUME NEW a \in Int, NEW b \in Int, NEW c \in Int, NEW x \in Int, NEW y \in Int, NEW z \in Int,
         a - b - c <= x - y - z, x <= y + z
  PROVE  a <= b + c
OBVIOUS

(* A step that adds no coin, starts no refill and counts its transaction   *)
(* out or in as it should keeps the bounds.                                *)
LEMMA NoMoreBounds ==
  ASSUME Inv, Inv', BoundInv,
         Len(coinPool') + Cardinality(InFlight') <= Len(coinPool) + Cardinality(InFlight),
         Cardinality(InFlight') - pendingTransactions' - Cardinality(Ended')
           <= Cardinality(InFlight) - pendingTransactions - Cardinality(Ended),
         Cardinality(InFlight') \in Nat, Cardinality(Ended') \in Nat,
         \A t \in Txs : stage'[t] \in {"fetch", "refill"} =>
           stage[t] \in {"fetch", "refill"} /\ refill'.batch = refill.batch
  PROVE  BoundInv'
<1>1. /\ Len(coinPool) \in Nat /\ Len(coinPool') \in Nat
      /\ pendingTransactions \in Int /\ pendingTransactions' \in Int
      /\ MaxPoolSize \in Nat /\ CoinBatchSize \in Nat
  BY Sizes DEF Inv, Counts
<1>2. (Cardinality(InFlight) <= pendingTransactions + Cardinality(Ended))'
  <2>1. Cardinality(InFlight) <= pendingTransactions + Cardinality(Ended)
    BY DEF BoundInv
  <2>2. /\ Cardinality(InFlight) \in Int /\ Cardinality(Ended) \in Int
        /\ Cardinality(InFlight') \in Int /\ Cardinality(Ended') \in Int
    BY Cardinals
  <2> QED
    BY <1>1, <2>1, <2>2, Differences
<1>3. (Len(coinPool) + Cardinality(InFlight) <= MaxPoolSize - 1 + CoinBatchSize)'
  BY <1>1, Cardinals DEF BoundInv
<1>4. ASSUME NEW t \in Txs, stage'[t] \in {"fetch", "refill"}
      PROVE  /\ Len(coinPool') + Cardinality(InFlight') <= MaxPoolSize - 1
             /\ refill'.batch <= CoinBatchSize
  <2>1. /\ Len(coinPool) + Cardinality(InFlight) <= MaxPoolSize - 1
        /\ refill.batch <= CoinBatchSize /\ refill'.batch = refill.batch
    BY <1>4 DEF BoundInv
  <2> QED
    BY <1>1, <2>1, Cardinals
<1> QED
  BY <1>2, <1>3, <1>4 DEF BoundInv

(* Moves outside the task of the build queue, and those within it that     *)
(* neither start a refill nor add coins.                                   *)
LEMMA MovesBounds ==
  ASSUME Inv, Inv', BoundInv, NEW t \in Txs, NEW to \in Stages, Becomes(t, to),
         stage[t] # to, stage[t] # "done",
         \/ /\ to \notin {"flight", "done"} /\ stage[t] # "flight"
            /\ coinPool' = coinPool /\ pendingTransactions' = pendingTransactions
         \/ /\ to = "flight" /\ stage[t] # "flight" /\ Len(coinPool') = Len(coinPool) - 1
            /\ pendingTransactions' = pendingTransactions + 1
         \/ /\ to = "failed" /\ stage[t] = "flight"
            /\ coinPool' = coinPool /\ pendingTransactions' = pendingTransactions
         \/ /\ to = "done" /\ pendingTransactions' = pendingTransactions - 1
            /\ \/ coinPool' = coinPool
               \/ stage[t] = "flight" /\ Len(coinPool') = Len(coinPool) + 1,
         to \in {"fetch", "refill"} => stage[t] \in {"fetch", "refill"},
         \/ refill'.batch = refill.batch
         \/ \A u \in Txs : stage'[u] \notin {"fetch", "refill"}
  PROVE  BoundInv'
<1>1. /\ Cardinality(InFlight') =
           Cardinality(InFlight) + (IF to = "flight" THEN 1 ELSE 0)
                                 - (IF stage[t] = "flight" THEN 1 ELSE 0)
      /\ Cardinality(Ended') = Cardinality(Ended) + (IF to = "done" THEN 1 ELSE 0)
  BY MovesCounted
<1>2. /\ Len(coinPool) \in Nat /\ pendingTransactions \in Int
      /\ Cardinality(InFlight) \in Nat /\ Cardinality(Ended) \in Nat
  BY Cardinals DEF Inv, Counts
<1>3. Cardinality(InFlight') \in Nat /\ Cardinality(Ended') \in Nat
  <2>1. (Cardinality(InFlight) \in Nat /\ Cardinality(Ended) \in Nat)'
    BY Cardinals, PTL
  <2> QED
    BY <2>1
<1>4. /\ Len(coinPool') + Cardinality(InFlight') <= Len(coinPool) + Cardinality(InFlight)
      /\ Cardinality(InFlight') - pendingTransactions' - Cardinality(Ended')
           <= Cardinality(InFlight) - pendingTransactions - Cardinality(Ended)
  <2>1. CASE to \notin {"flight", "done"} /\ stage[t] # "flight"
    <3>1. /\ Cardinality(InFlight') = Cardinality(InFlight)
          /\ Cardinality(Ended') = Cardinality(Ended)
      BY <1>1, <1>2, <2>1
    <3>2. coinPool' = coinPool /\ pendingTransactions' = pendingTransactions
      BY <2>1
    <3> QED
      BY <1>2, <3>1, <3>2
  <2>2. CASE to = "flight" /\ stage[t] # "flight"
    <3>1. /\ Cardinality(InFlight') = Cardinality(InFlight) + 1
          /\ Cardinality(Ended') = Cardinality(Ended)
      BY <1>1, <1>2, <2>2
    <3>2. /\ Len(coinPool') = Len(coinPool) - 1
          /\ pendingTransactions' = pendingTransactions + 1
      BY <2>2
    <3> QED
      BY <1>2, <3>1, <3>2
  <2>3. CASE to = "failed" /\ stage[t] = "flight"
    <3>1. /\ Cardinality(InFlight') = Cardinality(InFlight) - 1
          /\ Cardinality(Ended') = Cardinality(Ended)
      BY <1>1, <1>2, <2>3
    <3>2. coinPool' = coinPool /\ pendingTransactions' = pendingTransactions
      BY <2>3
    <3> QED
      BY <1>2, <3>1, <3>2
  <2>4. CASE to = "done"
    <3>1. /\ Cardinality(InFlight') =
               Cardinality(InFlight) - (IF stage[t] = "flight" THEN 1 ELSE 0)
          /\ Cardinality(Ended') = Cardinality(Ended) + 1
      BY <1>1, <1>2, <2>4
    <3>2. pendingTransactions' = pendingTransactions - 1
      BY <2>4
    <3>3. CASE coinPool' = coinPool
      BY <1>2, <3>1, <3>2, <3>3
    <3>4. CASE stage[t] = "flight" /\ Len(coinPool') = Len(coinPool) + 1
      BY <1>2, <3>1, <3>2, <3>4
    <3> QED
      BY <2>4, <3>3, <3>4
  <2> QED
    BY <2>1, <2>2, <2>3, <2>4
<1>5. \A u \in Txs : stage'[u] \in {"fetch", "refill"} =>
        stage[u] \in {"fetch", "refill"} /\ refill'.batch = refill.batch
  BY DEF Becomes, Inv, OneBuilds
<1> QED
  BY <1>3, <1>4, <1>5, NoMoreBounds

(* The refill starts with an empty pool and fills one slot of its own.     *)
LEMMA StartRefillBounds ==
  ASSUME Inv, Inv', CountsInv, BoundInv, NEW t \in Txs, StartRefill(t)
  PROVE  BoundInv'
<1>1. /\ coinPool' = coinPool /\ pendingTransactions' = pendingTransactions
      /\ coinPool = <<>> /\ refill'.batch = BatchSize /\ stage[t] = "build"
  BY DEF StartRefill, NeedsRefill
<1>2. PICK to \in {"fetch", "refill"} : Becomes(t, to)
  BY DEF StartRefill
<1>3. /\ Cardinality(InFlight') = Cardinality(InFlight)
      /\ Cardinality(Ended') = Cardinality(Ended)
  BY <1>1, <1>2, MovesCounted, Cardinals DEF Stages
<1>4. Cardinality(InFlight) <= MaxPoolSize - 1
  <2>1. InFlight \cup {t} \subseteq Started /\ t \notin InFlight /\ Started \subseteq Txs
    BY <1>1 DEF InFlight, Started
  <2>2. IsFiniteSet(Started)
    BY <2>1, Sizes, FS_Subset
  <2>3. Cardinality(InFlight \cup {t}) = Cardinality(InFlight) + 1
    BY <2>1, Cardinals, FS_AddElement
  <2>4. Cardinality(InFlight \cup {t}) <= Cardinality(Started)
    BY <2>1, <2>2, FS_Subset
  <2>5. Cardinality(Started) \in Nat
    BY <2>2, FS_CardinalityType
  <2> QED
    BY <2>3, <2>4, <2>5, Cardinals, Sizes DEF CountsInv
<1>5. BatchSize <= CoinBatchSize
  <2>1. CoinBatchSize \in Nat /\ Len(coinPool) \in Nat
        /\ pendingTransactions \in Int /\ MaxPoolSize \in Nat
    BY Sizes DEF Inv, Counts
  <2> QED
    BY <2>1 DEF BatchSize, Lesser
<1>6. Len(coinPool) = 0
  BY <1>1
<1>7. Len(coinPool') + Cardinality(InFlight') <= MaxPoolSize - 1
  BY <1>1, <1>3, <1>4, <1>6, Cardinals
<1>8. (Cardinality(InFlight) <= pendingTransactions + Cardinality(Ended))'
  BY <1>1, <1>3 DEF BoundInv
<1>9. (Len(coinPool) + Cardinality(InFlight) <= MaxPoolSize - 1 + CoinBatchSize)'
  BY <1>1, <1>3 DEF BoundInv
<1> QED
  BY <1>1, <1>5, <1>7, <1>8, <1>9 DEF BoundInv

LEMMA RefilledBounds ==
  ASSUME Inv, Inv', BoundInv, NEW t \in Txs, Refilled(t)
  PROVE  BoundInv'
<1>1. PICK gas \in Payment, split \in BOOLEAN :
        /\ stage[t] = "refill" /\ Becomes(t, "confirm")
        /\ coinPool' = coinPool \o NewCoins(gas, split)
        /\ UNCHANGED pendingTransactions
  BY Zenon DEF Refilled
<1>2. /\ Cardinality(InFlight') = Cardinality(InFlight)
      /\ Cardinality(Ended') = Cardinality(Ended)
  BY <1>1, MovesCounted, Cardinals DEF Stages
<1>3. /\ coinPool \in Seq(Coins) /\ Len(coinPool) \in Nat /\ refill.batch \in Nat
      /\ MaxPoolSize \in Nat /\ CoinBatchSize \in Nat
  BY Sizes DEF Inv, Counts
<1>4. /\ NewCoins(gas, split) \in Seq(Coins) /\ Len(NewCoins(gas, split)) \in Nat
      /\ Len(NewCoins(gas, split)) <= refill.batch
  BY NewCoinsCounted
<1>5. Len(coinPool') = Len(coinPool) + Len(NewCoins(gas, split))
  BY <1>1, <1>3, <1>4, ConcatProperties
<1>6. /\ Len(coinPool) + Cardinality(InFlight) <= MaxPoolSize - 1
      /\ refill.batch <= CoinBatchSize
  BY <1>1 DEF BoundInv
<1>7. Len(coinPool') + Cardinality(InFlight') <= MaxPoolSize - 1 + CoinBatchSize
  BY <1>2, <1>3, <1>4, <1>5, <1>6, Cardinals
<1>8. (Cardinality(InFlight) <= pendingTransactions + Cardinality(Ended))'
  BY <1>1, <1>2 DEF BoundInv
<1>9. \A u \in Txs : stage'[u] \notin {"fetch", "refill"}
  <2>1. t \in InBuild
    BY <1>1 DEF InBuild
  <2> QED
    BY <1>1, <2>1, NobodyElseRefills DEF Becomes, Inv, OneBuilds
<1> QED
  BY <1>7, <1>8, <1>9 DEF BoundInv

(* Every other step of a transaction.                                      *)
LEMMA OtherBounds ==
  ASSUME Inv, Inv', BoundInv, NEW t \in Txs, Step(t), ~ StartRefill(t), ~ Refilled(t)
  PROVE  BoundInv'
<1>1. CASE Start(t) \/ EnterBuild(t) \/ PriceFails(t)
  <2>1. PICK to \in {"started", "build", "failed"} :
          /\ Becomes(t, to) /\ stage[t] \in {"new", "started", "build"} /\ stage[t] # to
    BY <1>1 DEF Start, EnterBuild, PriceFails
  <2>2. UNCHANGED <<coinPool, pendingTransactions, refill>>
    BY <1>1 DEF Start, EnterBuild, PriceFails, poolVars
  <2>3. /\ to \in Stages /\ to \notin {"flight", "done", "fetch", "refill"}
        /\ stage[t] \notin {"flight", "done"} /\ refill'.batch = refill.batch
    BY <2>1, <2>2 DEF Stages
  <2> QED
    BY <2>1, <2>2, <2>3, MovesBounds
<1>2. CASE Fetched(t)
  <2>1. /\ UNCHANGED <<coinPool, pendingTransactions>> /\ stage[t] = "fetch"
        /\ Becomes(t, "refill") /\ refill'.batch = refill.batch
    BY <1>2 DEF Fetched, Inv, Counts
  <2> QED
    BY <2>1, MovesBounds DEF Stages
<1>3. CASE RefillFails(t) \/ GetCoin(t)
  <2>1. /\ t \in InBuild
        /\ \/ Becomes(t, "failed") /\ UNCHANGED <<coinPool, pendingTransactions>>
           \/ Becomes(t, "flight") /\ coinPool # <<>> /\ coinPool' = Tail(coinPool)
                /\ pendingTransactions' = pendingTransactions + 1
    BY <1>3 DEF RefillFails, RefillThrows, GetCoin, ShiftCoin, InBuild, poolVars
  <2>2. coinPool # <<>> => Len(Tail(coinPool)) = Len(coinPool) - 1
    BY HeadTailProperties DEF Inv, Counts
  <2>3. PICK to \in {"failed", "flight"} :
          /\ Becomes(t, to)
          /\ \/ to = "failed" /\ UNCHANGED <<coinPool, pendingTransactions>>
             \/ to = "flight" /\ Len(coinPool') = Len(coinPool) - 1
                  /\ pendingTransactions' = pendingTransactions + 1
    BY <2>1, <2>2
  <2>4. \A u \in Txs : stage'[u] \notin {"fetch", "refill"}
    BY <2>1, <2>3, NobodyElseRefills DEF Becomes, Inv, OneBuilds
  <2>5. stage[t] \in {"build", "fetch", "refill", "confirm"}
    BY <2>1 DEF InBuild
  <2> QED
    BY <2>3, <2>4, <2>5, MovesBounds DEF Stages
<1>4. CASE Completes(t)
  <2>1. /\ stage[t] = "flight" /\ Becomes(t, "done") /\ refill' = refill
        /\ pendingTransactions' = pendingTransactions - 1
        /\ coinPool' = coinPool \/ \E charge \in Charges : Returns(t, charge)
    BY <1>4, Zenon DEF Completes, CountsDown
  <2>2. coinPool' = coinPool \/ Len(coinPool') = Len(coinPool) + 1
    <3>1. CASE \E charge \in Charges : Returns(t, charge)
      <4>1. PICK e : coinPool' = Append(coinPool, e)
        BY <3>1 DEF Returns
      <4>2. coinPool \in Seq(Coins)
        BY DEF Inv, Counts
      <4> QED
        BY <4>1, <4>2
    <3> QED
      BY <2>1, <3>1
  <2> QED
    BY <2>1, <2>2, MovesBounds DEF Stages
<1>5. CASE Fails(t) \/ Ends(t)
  <2>1. refill' = refill /\ coinPool' = coinPool
    BY <1>5, Zenon DEF Fails, Ends
  <2>2. CASE Fails(t)
    <3>1. stage[t] = "flight" /\ Becomes(t, "failed") /\ pendingTransactions' = pendingTransactions
      BY <2>2, Zenon DEF Fails
    <3> QED
      BY <2>1, <3>1, MovesBounds DEF Stages
  <2>3. CASE Ends(t)
    <3>1. /\ stage[t] = "failed" /\ Becomes(t, "done")
          /\ pendingTransactions' = pendingTransactions - 1
      BY <2>3, Zenon DEF Ends, CountsDown
    <3> QED
      BY <2>1, <3>1, MovesBounds DEF Stages
  <2> QED
    BY <1>5, <2>2, <2>3
<1> QED
  BY <1>1, <1>2, <1>3, <1>4, <1>5 DEF Step

LEMMA NextBounds == Inv /\ Inv' /\ CountsInv /\ BoundInv /\ [Next]_vars => BoundInv'
<1> SUFFICES ASSUME Inv, Inv', CountsInv, BoundInv, [Next]_vars PROVE BoundInv'
  OBVIOUS
<1>1. CASE UNCHANGED vars
  BY <1>1 DEF vars, poolVars, BoundInv, InFlight, Ended
<1>2. ASSUME NEW t \in Txs, Step(t) PROVE BoundInv'
  BY <1>2, StartRefillBounds, RefilledBounds, OtherBounds
<1> QED
  BY <1>1, <1>2 DEF Next, Terminated

(* The coins in the pool and in use, against parallel.ts:45: one more than *)
(* the pool size at the most and another for each transaction that has     *)
(* ended, and never more than a batch beside the coins of the other slots, *)
(* wherever the count of #execute has got to (parallel.ts:303, 369-376).   *)
THEOREM CoinsStayBounded == Spec => []CoinsBounded
<1>1. Inv /\ BoundInv => CoinsBounded
  <2> SUFFICES ASSUME Inv, BoundInv PROVE CoinsBounded
    OBVIOUS
  <2>1. Len(coinPool) \in Nat /\ pendingTransactions \in Int /\ MaxPoolSize \in Nat
    BY Sizes DEF Inv, Counts
  <2>2. Len(coinPool) + Cardinality(InFlight) <= MaxPoolSize + 1 + Cardinality(Ended)
    BY <2>1, Cardinals DEF Inv, CoinsCounted, BoundInv
  <2>3. Len(coinPool) + Cardinality(InFlight) <= MaxPoolSize - 1 + CoinBatchSize
    BY DEF BoundInv
  <2> QED
    BY <2>2, <2>3 DEF CoinsBounded, Ended
<1> QED
  BY <1>1, InitInv, NextInv, InitFeeds, NextFeeds, InitBounds, NextBounds, PTL DEF Spec
=============================================================================
