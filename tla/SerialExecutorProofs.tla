------------------------ MODULE SerialExecutorProofs ------------------------
(***************************************************************************)
(* SerialExecutor for any transactions, coins, objects and faults, and any *)
(* transactions of the signer made elsewhere: what the executor has been   *)
(* told of an object is what the next transaction names, and after an      *)
(* error and the reset that follows the next one is acceptable.            *)
(***************************************************************************)
EXTENDS SerialExecutor, FiniteSetTheorems, TLAPS

Entries == [gas : Coins, writes : UNION {[S -> Owner] : S \in SUBSET Thing}]

(* What the chain is like: a coin is never shared, and what is shared or   *)
(* gone once never has an owner again.                                     *)
LedgerInv ==
  /\ ledger \in Seq(Entries)
  /\ \A i \in 1..Now : /\ ledger[i].gas \in DOMAIN ledger[i].writes
                       /\ \A x \in DOMAIN ledger[i].writes \cap Coins : ledger[i].writes[x] # "shared"
  /\ \A x \in Thing, k \in 0..Now :
       OwnerAt(x, k) \in {"shared", "gone"} => OwnerAt(x, Now) \in {"shared", "gone"}

Wrote(x, i) == x \in DOMAIN ledger[i].writes

LEMMA LeastElement ==
  ASSUME NEW T, T \subseteq Nat, T # {}
  PROVE  \E x \in T : \A y \in T : x <= y
<1> DEFINE R == OpToRel(<, Nat)
<1>1. IsWellFoundedOn(R, Nat)
  BY NatLessThanWellFounded
<1>2. R = {ss \in Nat \X Nat : ss[1] < ss[2]}
  BY DEF OpToRel
<1> HIDE DEF R
<1>3. PICK x \in T : \A y \in T : <<y, x>> \notin R
  BY <1>1, WFMin
<1>4. \A y \in T : ~ (y < x)
  BY <1>2, <1>3
<1> QED
  BY <1>3, <1>4

LEMMA MaxOfWriters ==
  ASSUME NEW k \in Nat, NEW W, W \subseteq 1..k, W # {}
  PROVE  Max(W) \in W /\ \A y \in W : y <= Max(W)
<1> DEFINE T == {k - x : x \in W}
<1>1. T \subseteq Nat /\ T # {}
  OBVIOUS
<1>2. PICK m \in T : \A y \in T : m <= y
  BY <1>1, LeastElement
<1>3. PICK x \in W : m = k - x
  BY <1>2
<1>4. ASSUME NEW y \in W PROVE x >= y
  <2>1. m <= k - y
    BY <1>2
  <2> QED
    BY <1>3, <2>1
<1>5. \E z \in W : \A y \in W : z >= y
  BY <1>4
<1>6. Max(W) \in W /\ \A y \in W : Max(W) >= y
  BY <1>5 DEF Max
<1> QED
  BY <1>6

(* The version of a thing is the last transaction that wrote it.           *)
LEMMA VersionIs ==
  ASSUME NEW x, NEW k \in Nat
  PROVE  /\ VersionAt(x, k) \in 0..k
         /\ VersionAt(x, k) # 0 => Wrote(x, VersionAt(x, k))
         /\ \A i \in 1..k : Wrote(x, i) => i <= VersionAt(x, k)
<1> DEFINE W == {i \in 1..k : Wrote(x, i)}
<1>1. VersionAt(x, k) = IF W = {} THEN 0 ELSE Max(W)
  BY DEF VersionAt, Wrote
<1>2. CASE W = {}
  BY <1>1, <1>2
<1>3. CASE W # {}
  <2>1. Max(W) \in W /\ \A y \in W : y <= Max(W)
    BY <1>3, MaxOfWriters
  <2> HIDE DEF W
  <2>2. VersionAt(x, k) = Max(W)
    BY <1>1, <1>3
  <2>3. VersionAt(x, k) \in 1..k /\ Wrote(x, VersionAt(x, k))
    BY <2>1, <2>2 DEF W
  <2>4. \A i \in 1..k : Wrote(x, i) => i <= VersionAt(x, k)
    BY <2>1, <2>2 DEF W
  <2> QED
    BY <2>3, <2>4
<1> QED
  BY <1>2, <1>3

LEMMA VersionUnique ==
  ASSUME NEW x, NEW k \in Nat, NEW v \in 0..k, v # 0 => Wrote(x, v),
         \A i \in 1..k : Wrote(x, i) => i <= v
  PROVE  VersionAt(x, k) = v
<1> DEFINE u == VersionAt(x, k)
<1>1. u \in 0..k /\ (u # 0 => Wrote(x, u)) /\ \A i \in 1..k : Wrote(x, i) => i <= u
  BY VersionIs
<1> HIDE DEF u
<1>2. v # 0 => v <= u
  BY <1>1
<1>3. u # 0 => u <= v
  BY <1>1
<1>4. u = v
  BY <1>1, <1>2, <1>3
<1> QED
  BY <1>4 DEF u

(* Nothing happens to a thing after its version.                           *)
LEMMA VersionBelow ==
  ASSUME NEW x, NEW k \in Nat, NEW j \in 0..k, VersionAt(x, k) <= j
  PROVE  VersionAt(x, j) = VersionAt(x, k) /\ OwnerAt(x, j) = OwnerAt(x, k)
<1> DEFINE v == VersionAt(x, k)
<1>1. v \in 0..k /\ (v # 0 => Wrote(x, v)) /\ \A i \in 1..k : Wrote(x, i) => i <= v
  BY VersionIs
<1> HIDE DEF v
<1>2. v \in 0..j /\ \A i \in 1..j : Wrote(x, i) => i <= v
  <2>1. v <= j
    BY DEF v
  <2>2. \A i \in 1..j : i \in 1..k
    OBVIOUS
  <2> QED
    BY <1>1, <2>1, <2>2
<1>3. VersionAt(x, j) = v
  BY <1>1, <1>2, VersionUnique
<1> QED
  BY <1>3 DEF OwnerAt, v

(* A transaction is the last one on a thing when it has executed.          *)
LEMMA WrittenNow ==
  ASSUME NEW x, NEW i \in Nat \ {0}, Wrote(x, i)
  PROVE  VersionAt(x, i) = i /\ OwnerAt(x, i) = ledger[i].writes[x]
<1>1. VersionAt(x, i) = i
  BY VersionUnique
<1> QED
  BY <1>1 DEF OwnerAt

(* Grown by a transaction, the chain is as it was before that one.         *)
LEMMA Growth ==
  ASSUME ledger \in Seq(Entries), NEW e \in Entries, ledger' = Append(ledger, e)
  PROVE  /\ ledger' \in Seq(Entries) /\ Now' = Now + 1 /\ Now \in Nat /\ ledger'[Now + 1] = e
         /\ \A i \in 1..Now : ledger'[i] = ledger[i]
         /\ \A x, k : k \in 0..Now => VersionAt(x, k)' = VersionAt(x, k) /\ OwnerAt(x, k)' = OwnerAt(x, k)
         /\ \A x : x \in DOMAIN e.writes =>
              VersionAt(x, Now)' = Now + 1 /\ OwnerAt(x, Now)' = e.writes[x]
         /\ \A x : x \notin DOMAIN e.writes =>
              VersionAt(x, Now)' = VersionAt(x, Now) /\ OwnerAt(x, Now)' = OwnerAt(x, Now)
<1>0. PICK N \in Nat : Len(ledger) = N
  OBVIOUS
<1>1. /\ ledger' \in Seq(Entries) /\ Len(ledger') = N + 1 /\ N \in Nat /\ ledger'[N + 1] = e
      /\ \A i \in 1..N : ledger'[i] = ledger[i]
  BY <1>0
<1>2. Now = N /\ Now' = N + 1
  BY <1>0, <1>1 DEF Now
<1>3. ASSUME NEW x, NEW k \in 0..N
      PROVE  VersionAt(x, k)' = VersionAt(x, k) /\ OwnerAt(x, k)' = OwnerAt(x, k)
  <2>1. {i \in 1..k : x \in DOMAIN ledger'[i].writes} = {i \in 1..k : x \in DOMAIN ledger[i].writes}
    BY <1>1
  <2>2. VersionAt(x, k)' = VersionAt(x, k)
    BY <2>1 DEF VersionAt
  <2>3. VersionAt(x, k) \in 0..k
    BY <1>1, VersionIs
  <2> QED
    BY <1>1, <2>2, <2>3 DEF OwnerAt
<1>4. ASSUME NEW x, x \in DOMAIN e.writes
      PROVE  VersionAt(x, N + 1)' = N + 1 /\ OwnerAt(x, N + 1)' = e.writes[x]
  <2>1. Wrote(x, N + 1)' /\ N + 1 \in Nat \ {0}
    BY <1>1, <1>4 DEF Wrote
  <2>2. VersionAt(x, N + 1)' = N + 1
    <3> DEFINE W == {i \in 1..(N + 1) : x \in DOMAIN ledger'[i].writes}
    <3>1. N + 1 \in W /\ W \subseteq 1..(N + 1)
      BY <1>1, <2>1 DEF Wrote
    <3>2. Max(W) \in W /\ \A y \in W : y <= Max(W)
      BY <2>1, <3>1, MaxOfWriters
    <3>3. VersionAt(x, N + 1)' = Max(W)
      BY <3>1 DEF VersionAt
    <3> HIDE DEF W
    <3>4. Max(W) \in 1..(N + 1) /\ N + 1 <= Max(W)
      BY <3>1, <3>2
    <3> QED
      BY <3>3, <3>4
  <2> QED
    BY <1>1, <2>2 DEF OwnerAt
<1>5. ASSUME NEW x, x \notin DOMAIN e.writes
      PROVE  VersionAt(x, N + 1)' = VersionAt(x, N) /\ OwnerAt(x, N + 1)' = OwnerAt(x, N)
  <2>1. {i \in 1..(N + 1) : x \in DOMAIN ledger'[i].writes} = {i \in 1..N : x \in DOMAIN ledger[i].writes}
    BY <1>1, <1>5
  <2>2. VersionAt(x, N + 1)' = VersionAt(x, N)
    BY <2>1 DEF VersionAt
  <2>3. VersionAt(x, N) \in 0..N
    BY <1>1, VersionIs
  <2> QED
    BY <1>1, <2>2, <2>3 DEF OwnerAt
<1>6. \A x : VersionAt(x, Now)' = VersionAt(x, N + 1)' /\ OwnerAt(x, Now)' = OwnerAt(x, N + 1)'
  BY <1>2 DEF VersionAt, OwnerAt
<1>7. \A x, k : k \in 0..N => VersionAt(x, k)' = VersionAt(x, k) /\ OwnerAt(x, k)' = OwnerAt(x, k)
  BY <1>3
<1> QED
  BY <1>1, <1>2, <1>4, <1>5, <1>6, <1>7

Ids(R) == {r.id : r \in R}

(* The chain has grown by a transaction on the things of I.                *)
Grown(I) ==
  /\ Now \in Nat /\ Now' = Now + 1
  /\ \A i \in 1..Now : ledger'[i] = ledger[i]
  /\ \A x, k : k \in 0..Now => VersionAt(x, k)' = VersionAt(x, k) /\ OwnerAt(x, k)' = OwnerAt(x, k)
  /\ \A x \in I : VersionAt(x, Now)' = Now + 1
  /\ \A x : x \notin I =>
       VersionAt(x, Now)' = VersionAt(x, Now) /\ OwnerAt(x, Now)' = OwnerAt(x, Now)

LEMMA CoinNeverShared ==
  ASSUME LedgerInv, NEW c \in Coins, NEW k \in 0..Now
  PROVE  OwnerAt(c, k) # "shared"
<1>1. Now \in Nat
  BY DEF LedgerInv, Now
<1>2. VersionAt(c, k) \in 0..k /\ (VersionAt(c, k) # 0 => Wrote(c, VersionAt(c, k)))
  BY <1>1, VersionIs
<1>3. CASE VersionAt(c, k) = 0
  BY <1>3 DEF OwnerAt
<1>4. CASE VersionAt(c, k) # 0
  <2>1. VersionAt(c, k) \in 1..Now /\ Wrote(c, VersionAt(c, k))
    BY <1>1, <1>2, <1>4
  <2>2. ledger[VersionAt(c, k)].writes[c] # "shared"
    BY <2>1 DEF LedgerInv, Wrote
  <2> QED
    BY <1>4, <2>2 DEF OwnerAt
<1> QED
  BY <1>3, <1>4

(* What Land does to the chain if its references name what the signer may  *)
(* use.                                                                    *)
LEMMA LandGrows ==
  ASSUME LedgerInv, NEW R, NEW T, Land(R, T), Ids(R) \subseteq Thing,
         \A x \in Ids(R) : OwnerAt(x, Now) \in {"signer", "shared"}
  PROVE  LedgerInv' /\ Grown(Ids(R)) /\ Ids(R) # {} /\ elsewhere' = elsewhere \cup T
<1>1. PICK gas \in Ids(R) \cap Coins, to \in {"signer", "other"}, at \in [Ids(R) \cap Objects -> Owner] :
        /\ \A x \in DOMAIN at : OwnerAt(x, Now) = "shared" => at[x] \in {"shared", "gone"}
        /\ ledger' = Append(ledger,
             [gas |-> gas,
              writes |-> [x \in Ids(R) |->
                IF x = gas THEN to ELSE IF x \in Coins THEN "gone" ELSE at[x]]])
        /\ elsewhere' = elsewhere \cup T
  BY DEF Land, Ids
<1> DEFINE w == [x \in Ids(R) |-> IF x = gas THEN to ELSE IF x \in Coins THEN "gone" ELSE at[x]]
           e == [gas |-> gas, writes |-> w]
<1>2. w \in [Ids(R) -> Owner]
  BY DEF Thing, Owner
<1>3. \A x \in Ids(R) \cap Coins : w[x] # "shared"
  BY <1>1
<1>4. \A x \in Ids(R) : OwnerAt(x, Now) = "shared" => w[x] \in {"shared", "gone"}
  <2> SUFFICES ASSUME NEW x \in Ids(R), OwnerAt(x, Now) = "shared" PROVE w[x] \in {"shared", "gone"}
    OBVIOUS
  <2>1. x \notin Coins
    <3>1. Now \in 0..Now
      BY DEF LedgerInv, Now
    <3> QED
      BY <3>1, CoinNeverShared
  <2>2. x \in DOMAIN at
    BY <2>1 DEF Thing
  <2> QED
    BY <1>1, <2>1, <2>2
<1> HIDE DEF w
<1>5. e \in Entries /\ ledger' = Append(ledger, e) /\ DOMAIN e.writes = Ids(R) /\ e.gas \in Ids(R)
      /\ e.writes = w
  BY <1>1, <1>2 DEF Entries, w
<1> HIDE DEF e
<1>6. /\ ledger' \in Seq(Entries) /\ Now' = Now + 1 /\ Now \in Nat /\ ledger'[Now + 1] = e
      /\ \A i \in 1..Now : ledger'[i] = ledger[i]
      /\ \A x, k : k \in 0..Now => VersionAt(x, k)' = VersionAt(x, k) /\ OwnerAt(x, k)' = OwnerAt(x, k)
      /\ \A x \in Ids(R) : VersionAt(x, Now)' = Now + 1 /\ OwnerAt(x, Now)' = w[x]
      /\ \A x : x \notin Ids(R) =>
           VersionAt(x, Now)' = VersionAt(x, Now) /\ OwnerAt(x, Now)' = OwnerAt(x, Now)
  BY <1>5, Growth DEF LedgerInv
<1>7. Grown(Ids(R))
  BY <1>6 DEF Grown
<1>8. ASSUME NEW x \in Thing, NEW k \in 0..Now', OwnerAt(x, k)' \in {"shared", "gone"}
      PROVE  OwnerAt(x, Now)' \in {"shared", "gone"}
  <2>1. CASE k \in 0..Now
    <3>1. OwnerAt(x, k) \in {"shared", "gone"}
      BY <1>6, <1>8, <2>1
    <3>2. OwnerAt(x, Now) \in {"shared", "gone"}
      BY <2>1, <3>1 DEF LedgerInv
    <3>3. CASE x \in Ids(R)
      BY <1>4, <1>6, <3>2, <3>3
    <3>4. CASE x \notin Ids(R)
      BY <1>6, <3>2, <3>4
    <3> QED
      BY <3>3, <3>4
  <2>2. CASE k = Now + 1
    <3>1. OwnerAt(x, Now)' = OwnerAt(x, k)'
      BY <1>6, <2>2 DEF OwnerAt, VersionAt
    <3> QED
      BY <1>8, <3>1
  <2> QED
    BY <1>6, <2>1, <2>2
<1>9. ASSUME NEW i \in 1..Now'
      PROVE  /\ ledger'[i].gas \in DOMAIN ledger'[i].writes
             /\ \A x \in DOMAIN ledger'[i].writes \cap Coins : ledger'[i].writes[x] # "shared"
  <2>1. CASE i \in 1..Now
    BY <1>6, <2>1 DEF LedgerInv
  <2>2. CASE i = Now + 1
    BY <1>3, <1>5, <1>6, <2>2
  <2> QED
    BY <1>6, <2>1, <2>2
<1>10. LedgerInv'
  BY <1>6, <1>8, <1>9 DEF LedgerInv
<1> QED
  BY <1>1, <1>7, <1>10

-----------------------------------------------------------------------------
(* The queue, the running task, and the range of what is kept.             *)
Pc == {"idle", "build", "resolve", "sign", "send", "reply", "reset", "wait"}

QueueInv ==
  /\ queue \in Seq(Txs) /\ running = IF queue = <<>> THEN {} ELSE {queue[1]}
  /\ pc \in Pc /\ (pc = "idle" <=> queue = <<>>) /\ done \subseteq Txs

TaskInv ==
  /\ refs \subseteq [id : Thing, version : {No} \cup 0..Now]
  /\ mine \in 0..Now /\ (pc = "reply" => mine # 0)

CacheTypes ==
  /\ owned \in [Thing -> {No} \cup 0..Now] /\ shared \subseteq Objects
  /\ gasCoin \in [id : Coins, version : 1..Now] \cup {NoCoin}
  /\ lastDigest \in 0..Now /\ told \in [Thing -> {No} \cup 0..Now] /\ clean \in BOOLEAN

OutsideTypes ==
  /\ awaits \in [{"task", "user"} -> 0..Now] /\ indexed \in 0..Now /\ elsewhere \subseteq 1..Now

TypeInv == QueueInv /\ LedgerInv /\ TaskInv /\ CacheTypes /\ OutsideTypes

LEMMA NowType == LedgerInv => Now \in Nat
BY DEF LedgerInv, Now

LEMMA HeadType ==
  ASSUME QueueInv, queue # <<>>
  PROVE  Head(queue) \in Txs /\ Head(queue) = queue[1] /\ Uses[Head(queue)] \in Objects
<1>1. Head(queue) \in Txs /\ Head(queue) = queue[1]
  BY DEF QueueInv
<1> QED
  BY <1>1, Sizes

(* The running task settles, and the next one stands at the head.          *)
LEMMA SettleEffect ==
  ASSUME QueueInv, queue # <<>>, Settle
  PROVE  QueueInv' /\ refs' = {} /\ mine' = 0 /\ pc' \in {"build", "idle"}
<1>1. /\ queue' = Tail(queue)
      /\ running' = (running \ {Head(queue)}) \cup (IF Len(queue) > 1 THEN {queue[2]} ELSE {})
      /\ pc' = IF Len(queue) > 1 THEN "build" ELSE "idle"
      /\ done' = done \cup {Head(queue)} /\ refs' = {} /\ mine' = 0
  BY DEF Settle, Queue!Finish
<1>2. queue \in Seq(Txs) /\ running = {queue[1]} /\ Head(queue) = queue[1] /\ done' \subseteq Txs
  BY <1>1, HeadType DEF QueueInv
<1>3. queue' \in Seq(Txs) /\ (Len(queue) > 1 <=> queue' # <<>>)
      /\ (Len(queue) > 1 => queue'[1] = queue[2])
  <2>1. /\ Len(queue) \in Nat \ {0} /\ queue' \in Seq(Txs) /\ Len(queue') = Len(queue) - 1
        /\ \A i \in 1..(Len(queue) - 1) : queue'[i] = queue[i + 1]
    BY <1>1, <1>2
  <2> QED
    BY <2>1
<1> QED
  BY <1>1, <1>2, <1>3 DEF QueueInv, Pc

LEMMA GoesEffect ==
  ASSUME QueueInv, queue # <<>>, NEW to \in Pc \ {"idle"}, Goes(to)
  PROVE  QueueInv' /\ pc' = to /\ UNCHANGED <<queueVars, done>>
BY DEF QueueInv, Goes, queueVars

LEMMA SubmitEffect ==
  ASSUME QueueInv, NEW t \in Txs, Submit(t)
  PROVE  /\ QueueInv' /\ queue' # <<>>
         /\ \/ queue = <<>> /\ pc' = "build"
            \/ queue # <<>> /\ pc' = pc /\ Head(queue') = Head(queue)
<1>1. /\ queue' = queue \o <<t>> /\ done' = done /\ pc' = IF queue = <<>> THEN "build" ELSE pc
      /\ running' = IF Len(queue) = 0 /\ Len(<<t>>) > 0 THEN running \cup {<<t>>[1]} ELSE running
  BY DEF Submit, Queue!RunTasks
<1>2. queue \in Seq(Txs)
  BY DEF QueueInv
<1>3. queue' \in Seq(Txs) /\ queue' # <<>>
  BY <1>1, <1>2
<1>4. CASE queue = <<>>
  <2>1. queue'[1] = t /\ running' = {t}
    BY <1>1, <1>4 DEF QueueInv
  <2> QED
    BY <1>1, <1>3, <1>4, <2>1 DEF QueueInv, Pc
<1>5. CASE queue # <<>>
  <2>1. queue'[1] = queue[1] /\ Head(queue') = Head(queue) /\ Len(queue) # 0
    BY <1>1, <1>2, <1>5
  <2> QED
    BY <1>1, <1>3, <1>5, <2>1 DEF QueueInv, Pc
<1> QED
  BY <1>4, <1>5

(* Nothing leaves its range when the chain grows.                          *)
LEMMA RangesGrow ==
  ASSUME Now \in Nat, Now' = Now \/ Now' = Now + 1, TypeInv
  PROVE  /\ UNCHANGED cacheVars /\ UNCHANGED <<told, clean>> => CacheTypes'
         /\ UNCHANGED <<awaits, indexed>> /\ elsewhere' \subseteq 1..Now' => OutsideTypes'
         /\ UNCHANGED refs => refs' \subseteq [id : Thing, version : {No} \cup 0..Now']
         /\ UNCHANGED mine => mine' \in 0..Now'
<1>1. 0..Now \subseteq 0..Now' /\ 1..Now \subseteq 1..Now'
  OBVIOUS
<1>2. ASSUME UNCHANGED cacheVars, UNCHANGED <<told, clean>> PROVE CacheTypes'
  <2>1. owned' \in [Thing -> {No} \cup 0..Now'] /\ told' \in [Thing -> {No} \cup 0..Now']
    BY <1>1, <1>2 DEF TypeInv, CacheTypes, cacheVars
  <2>2. gasCoin' \in [id : Coins, version : 1..Now'] \cup {NoCoin}
    BY <1>1, <1>2 DEF TypeInv, CacheTypes, cacheVars
  <2>3. shared' \subseteq Objects /\ lastDigest' \in 0..Now' /\ clean' \in BOOLEAN
    BY <1>1, <1>2 DEF TypeInv, CacheTypes, cacheVars
  <2> QED
    BY <2>1, <2>2, <2>3 DEF CacheTypes
<1>3. ASSUME UNCHANGED <<awaits, indexed>>, elsewhere' \subseteq 1..Now' PROVE OutsideTypes'
  BY <1>1, <1>3 DEF TypeInv, OutsideTypes
<1>4. ASSUME UNCHANGED refs PROVE refs' \subseteq [id : Thing, version : {No} \cup 0..Now']
  BY <1>1, <1>4 DEF TypeInv, TaskInv
<1>5. ASSUME UNCHANGED mine PROVE mine' \in 0..Now'
  BY <1>1, <1>5 DEF TypeInv, TaskInv
<1> QED
  BY <1>2, <1>3, <1>4, <1>5

LEMMA ApplyTypes ==
  ASSUME TypeInv, NEW i \in 1..Now, ApplyEffects(i), UNCHANGED ledger
  PROVE  CacheTypes' /\ UNCHANGED Now
<1>1. Now \in Nat /\ Now' = Now
  BY NowType DEF TypeInv, Now
<1>2. ledger[i] \in Entries
  BY DEF TypeInv, LedgerInv, Now
<1>3. ledger[i].gas \in Coins /\ DOMAIN ledger[i].writes \subseteq Thing
  BY <1>2 DEF Entries
<1>4. owned' \in [Thing -> {No} \cup 0..Now] /\ told' \in [Thing -> {No} \cup 0..Now]
  BY <1>1 DEF ApplyEffects, TypeInv, CacheTypes
<1>5. shared' \subseteq Objects
  <2>1. \A x \in DOMAIN ledger[i].writes \cap Coins : ledger[i].writes[x] # "shared"
    BY DEF TypeInv, LedgerInv
  <2> QED
    BY <1>3, <2>1 DEF ApplyEffects, TypeInv, CacheTypes, Thing
<1>6. gasCoin' \in [id : Coins, version : 1..Now] /\ lastDigest' \in 0..Now /\ clean' \in BOOLEAN
  <2>1. gasCoin' = [id |-> ledger[i].gas, version |-> i] /\ lastDigest' = i /\ clean' = FALSE
    BY DEF ApplyEffects, Ref
  <2>2. gasCoin' \in [id : Coins, version : 1..Now]
    BY <1>3, <2>1
  <2>3. i \in 0..Now
    BY <1>1
  <2> QED
    BY <2>1, <2>2, <2>3
<1> QED
  BY <1>1, <1>4, <1>5, <1>6 DEF CacheTypes

LEMMA ClearTypes ==
  ASSUME TypeInv, Clear, UNCHANGED <<ledger, told>>, clean' \in BOOLEAN
  PROVE  CacheTypes'
<1>1. Now' = Now
  BY DEF Now
<1> QED
  BY <1>1 DEF Clear, TypeInv, CacheTypes

LEMMA WaitTypes ==
  ASSUME TypeInv, NEW w \in {"task", "user"}, WaitForLastTransaction(w), UNCHANGED <<ledger, indexed, elsewhere>>
  PROVE  OutsideTypes'
<1>1. Now' = Now
  BY DEF Now
<1> QED
  BY <1>1 DEF WaitForLastTransaction, TypeInv, CacheTypes, OutsideTypes

LEMMA SettledTask ==
  ASSUME LedgerInv', refs' = {}, mine' = 0, pc' \in {"build", "idle"}
  PROVE  TaskInv'
<1>1. Now' \in Nat
  BY DEF LedgerInv, Now
<1>2. mine' \in 0..Now'
  BY <1>1
<1> QED
  BY <1>2 DEF TaskInv

LEMMA SameLedger == LedgerInv /\ UNCHANGED ledger => LedgerInv' /\ Now' = Now
BY DEF LedgerInv, OwnerAt, VersionAt, Now

LEMMA CachedType ==
  ASSUME TypeInv, queue # <<>>
  PROVE  Cached \subseteq [id : Thing, version : {No} \cup 0..Now]
<1>1. Uses[Head(queue)] \in Thing /\ Uses[Head(queue)] \in Objects
  BY HeadType DEF TypeInv, Thing
<1>2. gasCoin # NoCoin => gasCoin \in [id : Thing, version : {No} \cup 0..Now]
  BY DEF TypeInv, CacheTypes, Thing
<1> QED
  BY <1>1, <1>2 DEF Cached, Ref, SharedRef, TypeInv, CacheTypes

LEMMA ServedType ==
  ASSUME TypeInv, queue # <<>>
  PROVE  Served \subseteq [id : Thing, version : {No} \cup 0..Now]
<1>1. Uses[Head(queue)] \in Thing /\ Coins \subseteq Thing
  BY HeadType DEF TypeInv, Thing
<1>2. \A x : VersionAt(x, indexed) \in 0..Now
  <2>1. indexed \in Nat /\ indexed <= Now /\ Now \in Nat
    BY NowType DEF TypeInv, OutsideTypes
  <2> QED
    BY <2>1, VersionIs
<1>3. ASSUME NEW r \in Served PROVE r \in [id : Thing, version : {No} \cup 0..Now]
  <2>1. \/ r = SharedRef(Uses[Head(queue)])
        \/ r = Ref(Uses[Head(queue)], VersionAt(Uses[Head(queue)], indexed))
        \/ \E c \in Coins : r = Ref(c, VersionAt(c, indexed))
    BY DEF Served
  <2> QED
    BY <1>1, <1>2, <2>1 DEF Ref, SharedRef
<1> QED
  BY <1>3

(* One step for each action.                                               *)
LEMMA SubmitTypes == ASSUME TypeInv, NEW t \in Txs, Submit(t) PROVE TypeInv'
<1>1. /\ UNCHANGED <<refs, mine, cacheVars, awaits, clean, chainVars>> /\ Now' = Now
      /\ pc' = "build" \/ pc' = pc
  BY DEF Submit, chainVars, Now
<1>2. QueueInv' /\ LedgerInv'
  BY <1>1, SubmitEffect, SameLedger DEF TypeInv, chainVars
<1> QED
  BY <1>1, <1>2 DEF TypeInv, TaskInv, CacheTypes, OutsideTypes, cacheVars, chainVars

LEMMA BuildFromCacheTypes == ASSUME TypeInv, BuildFromCache PROVE TypeInv'
<1>1. /\ UNCHANGED <<mine, cacheVars, awaits, clean, chainVars>> /\ Now' = Now
      /\ pc = "build" /\ refs' = Cached
      /\ Goes(IF Complete(Cached) THEN "sign" ELSE "resolve")
  BY DEF BuildFromCache, chainVars, Now
<1>2. queue # <<>>
  BY <1>1 DEF TypeInv, QueueInv
<1>3. QueueInv' /\ pc' \in {"sign", "resolve"}
  BY <1>1, <1>2, GoesEffect DEF TypeInv, Pc
<1>4. LedgerInv'
  BY <1>1, SameLedger DEF TypeInv, chainVars
<1>5. TaskInv'
  BY <1>1, <1>2, <1>3, CachedType DEF TypeInv, TaskInv
<1> QED
  BY <1>1, <1>3, <1>4, <1>5 DEF TypeInv, CacheTypes, OutsideTypes, cacheVars, chainVars

LEMMA ResolveTypes == ASSUME TypeInv, Resolve PROVE TypeInv'
<1>1. /\ UNCHANGED <<cacheVars, awaits, clean, chainVars>> /\ Now' = Now /\ pc = "resolve"
      /\ \/ refs' = refs \cup Served /\ Goes("sign") /\ UNCHANGED mine
         \/ Settle
  BY DEF Resolve, chainVars, Now
<1>2. queue # <<>>
  BY <1>1 DEF TypeInv, QueueInv
<1>3. LedgerInv'
  BY <1>1, SameLedger DEF TypeInv, chainVars
<1>4. QueueInv' /\ TaskInv'
  <2>1. CASE refs' = refs \cup Served /\ Goes("sign") /\ UNCHANGED mine
    <3>1. QueueInv' /\ pc' = "sign"
      BY <1>2, <2>1, GoesEffect DEF TypeInv, Pc
    <3> QED
      BY <1>1, <1>2, <2>1, <3>1, ServedType DEF TypeInv, TaskInv
  <2>2. CASE Settle
    BY <1>2, <1>3, <2>2, SettleEffect, SettledTask DEF TypeInv
  <2> QED
    BY <1>1, <2>1, <2>2
<1> QED
  BY <1>1, <1>3, <1>4 DEF TypeInv, CacheTypes, OutsideTypes, cacheVars, chainVars

LEMMA SignTypes == ASSUME TypeInv, Sign PROVE TypeInv'
<1>1. /\ UNCHANGED <<cacheVars, awaits, clean, chainVars>> /\ Now' = Now /\ pc = "sign"
      /\ \/ Goes("send") /\ UNCHANGED <<refs, mine>>
         \/ Settle
  BY DEF Sign, chainVars, Now
<1>2. queue # <<>>
  BY <1>1 DEF TypeInv, QueueInv
<1>3. LedgerInv'
  BY <1>1, SameLedger DEF TypeInv, chainVars
<1>4. QueueInv' /\ TaskInv'
  <2>1. CASE Goes("send") /\ UNCHANGED <<refs, mine>>
    <3>1. QueueInv' /\ pc' = "send"
      BY <1>2, <2>1, GoesEffect DEF TypeInv, Pc
    <3> QED
      BY <1>1, <1>2, <2>1, <3>1 DEF TypeInv, TaskInv
  <2>2. CASE Settle
    BY <1>2, <1>3, <2>2, SettleEffect, SettledTask DEF TypeInv
  <2> QED
    BY <1>1, <2>1, <2>2
<1> QED
  BY <1>1, <1>3, <1>4 DEF TypeInv, CacheTypes, OutsideTypes, cacheVars, chainVars

(* Valid references name things that the signer may use.                   *)
LEMMA ValidUsable ==
  ASSUME NEW R, \A r \in R : Valid(r)
  PROVE  \A x \in Ids(R) : OwnerAt(x, Now) \in {"signer", "shared"}
BY DEF Valid, Ids

LEMMA SendEffect ==
  ASSUME TypeInv, Send
  PROVE  /\ TypeInv' /\ pc = "send" /\ queue # <<>>
         /\ UNCHANGED <<queueVars, done, refs, cacheVars, awaits, clean, indexed, told>>
         /\ \/ Grown(Ids(refs)) /\ pc' \in {"reply", "reset"} /\ mine' = Now + 1
            \/ UNCHANGED ledger /\ pc' = "reset"
<1>1. pc = "send" /\ UNCHANGED <<refs, cacheVars, awaits, clean, indexed, told>>
  BY DEF Send
<1>2. queue # <<>> /\ Now \in Nat /\ Ids(refs) \subseteq Thing
  BY <1>1, NowType DEF TypeInv, QueueInv, TaskInv, Ids
<1>3. CASE /\ \A r \in refs : Valid(r)
           /\ Land(refs, {}) /\ mine' = Now + 1
           /\ \E to \in {"reply"} \cup (IF "lost" \in Faults THEN {"reset"} ELSE {}) : Goes(to)
  <2>1. LedgerInv' /\ Grown(Ids(refs)) /\ elsewhere' = elsewhere \cup {}
    BY <1>2, <1>3, ValidUsable, LandGrows DEF TypeInv
  <2>2. PICK to \in {"reply", "reset"} : Goes(to)
    BY <1>3
  <2>3. QueueInv' /\ pc' = to /\ UNCHANGED <<queueVars, done>>
    BY <1>2, <2>2, GoesEffect DEF TypeInv, Pc
  <2>4. Now' = Now + 1
    BY <2>1 DEF Grown
  <2>5. CacheTypes' /\ OutsideTypes' /\ refs' \subseteq [id : Thing, version : {No} \cup 0..Now']
    <3>1. elsewhere' \subseteq 1..Now'
      BY <1>2, <2>1, <2>4 DEF TypeInv, OutsideTypes
    <3> QED
      BY <1>1, <1>2, <2>4, <3>1, RangesGrow
  <2>6. TaskInv'
    BY <1>2, <1>3, <2>4, <2>5 DEF TaskInv
  <2> QED
    BY <1>1, <1>2, <1>3, <2>1, <2>2, <2>3, <2>5, <2>6 DEF TypeInv
<1>4. CASE Goes("reset") /\ UNCHANGED <<mine, ledger, elsewhere>>
  <2>1. QueueInv' /\ pc' = "reset" /\ UNCHANGED <<queueVars, done>>
    BY <1>2, <1>4, GoesEffect DEF TypeInv, Pc
  <2>2. LedgerInv' /\ Now' = Now
    BY <1>4, SameLedger DEF TypeInv
  <2> QED
    BY <1>1, <1>2, <1>4, <2>1, <2>2 DEF TypeInv, TaskInv, CacheTypes, OutsideTypes, cacheVars
<1> QED
  BY <1>3, <1>4 DEF Send

LEMMA ReplyTypes ==
  ASSUME TypeInv, Reply
  PROVE  TypeInv' /\ queue # <<>> /\ mine \in 1..Now /\ pc' \in {"build", "idle"}
<1>1. pc = "reply" /\ ApplyEffects(mine) /\ Settle /\ UNCHANGED <<awaits, ledger, indexed, elsewhere>>
  BY DEF Reply
<1>2. queue # <<>> /\ mine \in 1..Now
  BY <1>1, NowType DEF TypeInv, QueueInv, TaskInv
<1>3. QueueInv' /\ refs' = {} /\ mine' = 0 /\ pc' \in {"build", "idle"}
  BY <1>1, <1>2, SettleEffect DEF TypeInv
<1>4. CacheTypes' /\ LedgerInv' /\ Now' = Now
  BY <1>1, <1>2, ApplyTypes, SameLedger DEF TypeInv
<1>5. TaskInv' /\ OutsideTypes'
  BY <1>1, <1>3, <1>4, SettledTask DEF TypeInv, OutsideTypes
<1> QED
  BY <1>2, <1>3, <1>4, <1>5 DEF TypeInv

LEMMA ResetOnErrorTypes ==
  ASSUME TypeInv, ResetOnError
  PROVE  /\ TypeInv' /\ queue # <<>>
         /\ \/ lastDigest = 0 /\ pc' \in {"build", "idle"}
            \/ lastDigest # 0 /\ pc' = "wait"
<1>1. /\ pc = "reset" /\ Clear /\ WaitForLastTransaction("task") /\ clean' = TRUE
      /\ UNCHANGED <<ledger, indexed, told, elsewhere>>
      /\ \/ lastDigest = 0 /\ Settle
         \/ lastDigest # 0 /\ Goes("wait") /\ UNCHANGED <<refs, mine>>
  BY DEF ResetOnError, chainVars
<1>2. queue # <<>>
  BY <1>1 DEF TypeInv, QueueInv
<1>3. CacheTypes' /\ OutsideTypes' /\ LedgerInv' /\ Now' = Now
  BY <1>1, ClearTypes, WaitTypes, SameLedger DEF TypeInv
<1>4. CASE lastDigest = 0 /\ Settle
  <2>1. QueueInv' /\ refs' = {} /\ mine' = 0 /\ pc' \in {"build", "idle"}
    BY <1>2, <1>4, SettleEffect DEF TypeInv
  <2> QED
    BY <1>2, <1>3, <1>4, <2>1, SettledTask DEF TypeInv
<1>5. CASE lastDigest # 0 /\ Goes("wait") /\ UNCHANGED <<refs, mine>>
  <2>1. QueueInv' /\ pc' = "wait"
    BY <1>2, <1>5, GoesEffect DEF TypeInv, Pc
  <2> QED
    BY <1>2, <1>3, <1>5, <2>1 DEF TypeInv, TaskInv
<1> QED
  BY <1>1, <1>4, <1>5

LEMMA WaitedEffect ==
  ASSUME TypeInv, NEW w \in {"task", "user"}, w = "task" => pc = "wait", Waited(w)
  PROVE  /\ TypeInv' /\ awaits[w] # 0 /\ awaits' = [awaits EXCEPT ![w] = 0]
         /\ UNCHANGED <<owned, shared, gasCoin, clean, ledger, indexed>>
         /\ \/ w = "task" /\ queue # <<>> /\ pc' \in {"build", "idle"}
            \/ w = "user" /\ UNCHANGED <<queueVars, pc, refs, mine>>
         /\ \/ awaits[w] <= indexed /\ lastDigest' = 0 /\ UNCHANGED told
            \/ UNCHANGED lastDigest
               /\ told' = [x \in Thing |-> IF told[x] > indexed THEN No ELSE told[x]]
<1>1. /\ awaits[w] # 0 /\ awaits' = [awaits EXCEPT ![w] = 0]
      /\ UNCHANGED <<owned, shared, gasCoin, clean, ledger, indexed, elsewhere>>
      /\ \/ awaits[w] <= indexed /\ lastDigest' = 0 /\ UNCHANGED told
         \/ UNCHANGED lastDigest
            /\ told' = [x \in Thing |-> IF told[x] > indexed THEN No ELSE told[x]]
      /\ \/ w = "task" /\ Settle
         \/ w = "user" /\ UNCHANGED <<queueVars, pc, refs, mine, done>>
  BY DEF Waited
<1>2. LedgerInv' /\ Now' = Now /\ Now \in Nat
  BY <1>1, SameLedger, NowType DEF TypeInv
<1>3. CacheTypes' /\ OutsideTypes'
  <2>1. lastDigest' \in 0..Now /\ told' \in [Thing -> {No} \cup 0..Now]
    BY <1>1, <1>2 DEF TypeInv, CacheTypes
  <2>2. awaits' \in [{"task", "user"} -> 0..Now]
    BY <1>1, <1>2 DEF TypeInv, OutsideTypes
  <2> QED
    BY <1>1, <1>2, <2>1, <2>2 DEF TypeInv, CacheTypes, OutsideTypes
<1>4. CASE w = "task" /\ Settle
  <2>1. queue # <<>>
    BY <1>4 DEF TypeInv, QueueInv
  <2>2. QueueInv' /\ TaskInv' /\ pc' \in {"build", "idle"}
    BY <1>2, <1>4, <2>1, SettleEffect, SettledTask DEF TypeInv
  <2> QED
    BY <1>1, <1>2, <1>3, <1>4, <2>1, <2>2 DEF TypeInv
<1>5. CASE w = "user" /\ UNCHANGED <<queueVars, pc, refs, mine, done>>
  <2>1. QueueInv' /\ TaskInv'
    BY <1>2, <1>5 DEF TypeInv, QueueInv, TaskInv, queueVars
  <2> QED
    BY <1>1, <1>2, <1>3, <1>5, <2>1 DEF TypeInv
<1> QED
  BY <1>1, <1>4, <1>5

LEMMA UserTypes ==
  ASSUME TypeInv, UserResets \/ UserWaits \/ \E i \in 1..Now : UserApplies(i)
  PROVE  TypeInv' /\ UNCHANGED <<queueVars, pc, refs, mine, ledger, indexed>>
<1>1. /\ UNCHANGED <<queueVars, pc, refs, mine, done, ledger, indexed, elsewhere>>
      /\ \/ Clear /\ WaitForLastTransaction("user") /\ UNCHANGED <<clean, told>>
         \/ UNCHANGED <<cacheVars, clean, told>> /\ WaitForLastTransaction("user")
         \/ UNCHANGED awaits /\ \E i \in 1..Now : ApplyEffects(i)
  BY DEF UserResets, UserWaits, UserApplies, chainVars
<1>2. LedgerInv' /\ Now' = Now
  BY <1>1, SameLedger DEF TypeInv
<1>3. QueueInv' /\ TaskInv'
  BY <1>1, <1>2 DEF TypeInv, QueueInv, TaskInv, queueVars
<1>4. CASE Clear /\ WaitForLastTransaction("user") /\ UNCHANGED <<clean, told>>
  <2>1. clean' \in BOOLEAN
    BY <1>4 DEF TypeInv, CacheTypes
  <2> QED
    BY <1>1, <1>2, <1>3, <1>4, <2>1, ClearTypes, WaitTypes DEF TypeInv
<1>5. CASE UNCHANGED <<cacheVars, clean, told>> /\ WaitForLastTransaction("user")
  <2>1. CacheTypes'
    BY <1>2, <1>5 DEF TypeInv, CacheTypes, cacheVars
  <2> QED
    BY <1>1, <1>2, <1>3, <1>5, <2>1, WaitTypes DEF TypeInv
<1>6. CASE UNCHANGED awaits /\ \E i \in 1..Now : ApplyEffects(i)
  <2>1. CacheTypes'
    BY <1>1, <1>6, ApplyTypes
  <2>2. OutsideTypes'
    BY <1>1, <1>2, <1>6 DEF TypeInv, OutsideTypes
  <2> QED
    BY <1>1, <1>2, <1>3, <2>1, <2>2 DEF TypeInv
<1> QED
  BY <1>1, <1>4, <1>5, <1>6

LEMMA ElsewhereEffect ==
  ASSUME TypeInv, Elsewhere
  PROVE  /\ TypeInv' /\ \E I \in SUBSET Thing : I # {} /\ Grown(I)
         /\ UNCHANGED <<queueVars, pc, refs, mine, cacheVars, awaits, clean, indexed, told>>
<1>1. UNCHANGED <<queueVars, pc, refs, mine, cacheVars, awaits, done, clean, indexed, told>>
  BY DEF Elsewhere
<1>2. PICK x \in Objects, c \in Coins :
        /\ OwnerAt(x, Now) \in {"signer", "shared"} /\ OwnerAt(c, Now) = "signer"
        /\ Land({Ref(x, VersionAt(x, Now)), Ref(c, VersionAt(c, Now))}, {Now + 1})
  BY DEF Elsewhere
<1> DEFINE R == {Ref(x, VersionAt(x, Now)), Ref(c, VersionAt(c, Now))}
<1>3. Ids(R) = {x, c} /\ Ids(R) \subseteq Thing /\ Ids(R) # {}
  BY DEF Ids, Ref, Thing
<1>4. \A y \in Ids(R) : OwnerAt(y, Now) \in {"signer", "shared"}
  BY <1>2, <1>3
<1> HIDE DEF R
<1>5. LedgerInv' /\ Grown(Ids(R)) /\ elsewhere' = elsewhere \cup {Now + 1}
  <2>1. Land(R, {Now + 1})
    BY <1>2 DEF R
  <2> QED
    BY <1>3, <1>4, <2>1, LandGrows DEF TypeInv
<1>6. Now \in Nat /\ Now' = Now + 1
  BY <1>5 DEF Grown
<1>7. elsewhere' \subseteq 1..Now'
  <2>1. elsewhere \subseteq 1..Now
    BY DEF TypeInv, OutsideTypes
  <2> QED
    BY <1>5, <1>6, <2>1
<1>8. /\ CacheTypes' /\ OutsideTypes' /\ mine' \in 0..Now'
      /\ refs' \subseteq [id : Thing, version : {No} \cup 0..Now']
  BY <1>1, <1>6, <1>7, RangesGrow
<1>9. QueueInv' /\ TaskInv'
  BY <1>1, <1>8 DEF TypeInv, QueueInv, TaskInv, queueVars
<1> QED
  BY <1>1, <1>3, <1>5, <1>8, <1>9 DEF TypeInv

LEMMA IndexTypes == ASSUME TypeInv, Index PROVE TypeInv'
<1>1. /\ UNCHANGED <<queueVars, pc, refs, mine, cacheVars, awaits, done, clean, ledger, told, elsewhere>>
      /\ indexed < Now /\ indexed' = indexed + 1
  BY DEF Index
<1>2. LedgerInv' /\ Now' = Now /\ Now \in Nat
  BY <1>1, SameLedger, NowType DEF TypeInv
<1>3. indexed' \in 0..Now
  BY <1>1, <1>2 DEF TypeInv, OutsideTypes
<1> QED
  BY <1>1, <1>2, <1>3 DEF TypeInv, QueueInv, TaskInv, CacheTypes, OutsideTypes, queueVars, cacheVars

-----------------------------------------------------------------------------
(* A task waits for the fullnode only at that point.                       *)
TaskWaits == awaits["task"] # 0 => pc = "wait"

LEMMA InitTypes == Init => TypeInv /\ TaskWaits
<1> SUFFICES ASSUME Init PROVE TypeInv /\ TaskWaits
  OBVIOUS
<1>1. ledger = <<>> /\ Now = 0
  BY DEF Init, Now
<1>2. \A x, k : k \in 0..Now => OwnerAt(x, k) = "signer"
  BY <1>1 DEF OwnerAt, VersionAt
<1>3. LedgerInv
  BY <1>1, <1>2 DEF LedgerInv
<1>4. QueueInv
  BY DEF Init, Queue!Init, QueueInv, Pc
<1>5. TaskInv /\ TaskWaits
  BY <1>1 DEF Init, TaskInv, TaskWaits
<1>6. CacheTypes
  <2>1. 0 \in 0..Now
    BY <1>1
  <2>2. owned \in [Thing -> {No} \cup 0..Now] /\ told \in [Thing -> {No} \cup 0..Now]
    BY <2>1 DEF Init
  <2> QED
    BY <2>1, <2>2 DEF Init, CacheTypes
<1>7. OutsideTypes
  <2>1. 0 \in 0..Now
    BY <1>1
  <2> QED
    BY <2>1 DEF Init, OutsideTypes
<1> QED
  BY <1>3, <1>4, <1>5, <1>6, <1>7 DEF TypeInv

LEMMA NextTypes ==
  ASSUME TypeInv, TaskWaits, [Next]_vars
  PROVE  TypeInv' /\ TaskWaits'
<1>1. ASSUME NEW t \in Txs, Submit(t) PROVE TypeInv' /\ TaskWaits'
  <2>1. UNCHANGED awaits /\ (pc = "wait" => pc' = "wait")
    BY <1>1, SubmitEffect DEF Submit, TypeInv, QueueInv
  <2> QED
    BY <1>1, <2>1, SubmitTypes DEF TaskWaits
<1>2. CASE BuildFromCache
  BY <1>2, BuildFromCacheTypes DEF BuildFromCache, TaskWaits
<1>3. CASE Resolve
  BY <1>3, ResolveTypes DEF Resolve, TaskWaits
<1>4. CASE Sign
  BY <1>4, SignTypes DEF Sign, TaskWaits
<1>5. CASE Send
  BY <1>5, SendEffect DEF TaskWaits
<1>6. CASE Reply
  BY <1>6, ReplyTypes DEF Reply, TaskWaits
<1>7. CASE ResetOnError
  <2>1. awaits' = [awaits EXCEPT !["task"] = lastDigest]
    BY <1>7 DEF ResetOnError, WaitForLastTransaction
  <2>2. TypeInv' /\ (lastDigest = 0 \/ pc' = "wait")
    BY <1>7, ResetOnErrorTypes
  <2> QED
    BY <2>1, <2>2 DEF TaskWaits, TypeInv, OutsideTypes
<1>8. ASSUME NEW w \in {"task", "user"}, Waited(w) PROVE TypeInv' /\ TaskWaits'
  <2>1. w = "task" => pc = "wait"
    BY <1>8 DEF Waited, TaskWaits
  <2>2. /\ TypeInv' /\ awaits' = [awaits EXCEPT ![w] = 0]
        /\ w = "task" \/ UNCHANGED pc
    BY <1>8, <2>1, WaitedEffect
  <2> QED
    BY <2>2 DEF TaskWaits, TypeInv, OutsideTypes
<1>9. CASE UserResets \/ UserWaits \/ \E i \in 1..Now : UserApplies(i)
  <2>1. TypeInv' /\ UNCHANGED pc
    BY <1>9, UserTypes
  <2>2. awaits'["task"] = awaits["task"]
    BY <1>9 DEF UserResets, UserWaits, UserApplies, WaitForLastTransaction, TypeInv, OutsideTypes
  <2> QED
    BY <2>1, <2>2 DEF TaskWaits
<1>10. CASE Elsewhere
  BY <1>10, ElsewhereEffect DEF TaskWaits
<1>11. CASE Index
  BY <1>11, IndexTypes DEF Index, TaskWaits
<1>12. CASE UNCHANGED vars
  BY <1>12, SameLedger DEF vars, queueVars, cacheVars, chainVars, TypeInv, QueueInv, TaskInv, CacheTypes,
     OutsideTypes, TaskWaits
<1> QED
  BY <1>1, <1>2, <1>3, <1>4, <1>5, <1>6, <1>7, <1>8, <1>9, <1>10, <1>11, <1>12 DEF Next, Step

LEMMA Typed == Spec => [](TypeInv /\ TaskWaits)
<1>1. TypeInv /\ TaskWaits /\ [Next]_vars => (TypeInv /\ TaskWaits)'
  BY NextTypes
<1> QED
  BY <1>1, InitTypes, PTL DEF Spec

(* Every field keeps to its range, and whatever runs is in the queue.      *)
THEOREM TypeCorrect == Spec => []TypeOK
<1>1. TypeInv => TypeOK
  <2> SUFFICES ASSUME TypeInv PROVE TypeOK
    OBVIOUS
  <2>1. Queue!TypeOK
    <3>1. queue \in Seq(Txs) /\ running = IF queue = <<>> THEN {} ELSE {queue[1]}
      BY DEF TypeInv, QueueInv
    <3>2. queue # <<>> => queue[1] \in {queue[i] : i \in 1..Len(queue)}
      BY <3>1
    <3> QED
      BY <3>1, <3>2 DEF Queue!TypeOK, Queue!ToSet
  <2> QED
    BY <2>1 DEF TypeInv, QueueInv, TaskInv, CacheTypes, OutsideTypes, TypeOK, Pc
<1> QED
  BY <1>1, Typed, PTL

-----------------------------------------------------------------------------
(* The rest is about a caller that is Patient.  Its own wait never overlaps *)
(* a task, and a wait is always for the last transaction cached.           *)
PatientInv ==
  /\ awaits["user"] # 0 => queue = <<>>
  /\ \A w \in {"task", "user"} : awaits[w] # 0 => awaits[w] = lastDigest
  /\ pc = "reply" => mine > lastDigest

(* All the executor was told is on the fullnode, or comes no later than    *)
(* the last transaction cached: this is what makes a wait for that one do. *)
BehindInv == \A x \in Thing : told[x] <= indexed \/ told[x] <= lastDigest

(* What the cache has is what was told, unless the thing is shared by now; *)
(* nothing that is or was shared is the signer's again.                    *)
CacheInv ==
  /\ \A x \in Thing : owned[x] # No /\ told[x] # No =>
       owned[x] = told[x] \/ OwnerAt(x, told[x]) = "shared"
  /\ gasCoin # NoCoin => told[gasCoin.id] \in {No, gasCoin.version}
  /\ \A x \in shared : OwnerAt(x, Now) \in {"shared", "gone"}
  /\ clean => gasCoin = NoCoin /\ \A x \in Thing : owned[x] = No

(* Outside of a wait, the fullnode serves what the cache does not have.    *)
FreshInv ==
  pc # "wait" /\ awaits["user"] = 0 =>
    /\ gasCoin = NoCoin => \A x \in Thing : told[x] <= indexed
    /\ \A x \in Thing \ shared : owned[x] = No =>
         told[x] <= indexed \/ OwnerAt(x, told[x]) = "gone"

Knows == PatientInv /\ BehindInv /\ CacheInv /\ FreshInv

(* The references of a transaction, from the cache until it is clean.      *)
RefsInv ==
  /\ pc = "resolve" => refs = Cached
  /\ OwnedRefsCurrent /\ HealsAfterReset

LEMMA InitKnows == Init => Knows /\ RefsInv
<1> SUFFICES ASSUME Init PROVE Knows /\ RefsInv
  OBVIOUS
<1>1. PatientInv
  BY DEF Init, PatientInv
<1>2. BehindInv /\ FreshInv
  BY DEF Init, BehindInv, FreshInv
<1>3. CacheInv
  BY DEF Init, CacheInv
<1>4. RefsInv
  BY DEF Init, RefsInv, OwnedRefsCurrent, HealsAfterReset
<1> QED
  BY <1>1, <1>2, <1>3, <1>4 DEF Knows

(* The chain stays, or grows.                                              *)
ChainGoesOn == UNCHANGED ledger \/ \E I \in SUBSET Thing : I # {} /\ Grown(I)

LEMMA ChainKeeps ==
  ASSUME LedgerInv, LedgerInv', ChainGoesOn
  PROVE  /\ \A x, k : k \in 0..Now => VersionAt(x, k)' = VersionAt(x, k) /\ OwnerAt(x, k)' = OwnerAt(x, k)
         /\ \A x \in Thing : OwnerAt(x, Now) \in {"shared", "gone"} =>
              OwnerAt(x, Now)' \in {"shared", "gone"}
<1>1. Now \in Nat
  BY NowType
<1>2. CASE UNCHANGED ledger
  BY <1>2 DEF VersionAt, OwnerAt, Now
<1>3. ASSUME NEW I \in SUBSET Thing, Grown(I)
      PROVE  /\ \A x, k : k \in 0..Now => VersionAt(x, k)' = VersionAt(x, k) /\ OwnerAt(x, k)' = OwnerAt(x, k)
             /\ \A x \in Thing : OwnerAt(x, Now) \in {"shared", "gone"} =>
                  OwnerAt(x, Now)' \in {"shared", "gone"}
  <2>1. PICK N \in Nat : Now = N
    BY <1>1
  <2>2. /\ Now' = N + 1
        /\ \A x, k : k \in 0..N => VersionAt(x, k)' = VersionAt(x, k) /\ OwnerAt(x, k)' = OwnerAt(x, k)
    BY <1>3, <2>1 DEF Grown
  <2>3. ASSUME NEW x \in Thing, OwnerAt(x, N) \in {"shared", "gone"}
        PROVE  OwnerAt(x, Now)' \in {"shared", "gone"}
    <3>1. N \in 0..Now' /\ OwnerAt(x, N)' \in {"shared", "gone"}
      BY <2>2, <2>3
    <3> QED
      BY <3>1 DEF LedgerInv
  <2> QED
    BY <2>1, <2>2, <2>3
<1> QED
  BY <1>2, <1>3 DEF ChainGoesOn

(* A step that touches neither the cache nor the waits.                    *)
LEMMA KnowsKept ==
  ASSUME TypeInv, LedgerInv', Knows, ChainGoesOn, indexed' \in {indexed, indexed + 1},
         UNCHANGED <<cacheVars, told, awaits, clean>>,
         awaits["user"] # 0 => queue' = <<>>, pc' = "reply" => mine' > lastDigest,
         pc = "wait" => pc' = "wait"
  PROVE  Knows'
<1>1. UNCHANGED <<owned, shared, gasCoin, lastDigest, told, awaits, clean>>
  BY DEF cacheVars
<1>2. /\ \A x, k : k \in 0..Now => OwnerAt(x, k)' = OwnerAt(x, k)
      /\ \A x \in Thing : OwnerAt(x, Now) \in {"shared", "gone"} =>
           OwnerAt(x, Now)' \in {"shared", "gone"}
  BY ChainKeeps DEF TypeInv
<1>3. indexed \in Nat /\ indexed <= indexed' /\ \A x \in Thing : told[x] = No \/ told[x] \in 0..Now
  BY NowType DEF TypeInv, OutsideTypes, CacheTypes
<1>4. PatientInv'
  BY <1>1 DEF Knows, PatientInv
<1>5. BehindInv'
  <2>1. \A x \in Thing : told[x] <= indexed => told[x] <= indexed'
    BY <1>3, NowType DEF TypeInv, OutsideTypes, No
  <2> QED
    BY <1>1, <2>1 DEF Knows, BehindInv
<1>6. CacheInv'
  <2>1. ASSUME NEW x \in Thing, owned[x] # No, told[x] # No
        PROVE  owned[x] = told[x] \/ OwnerAt(x, told[x])' = "shared"
    BY <1>1, <1>2, <1>3, <2>1 DEF Knows, CacheInv
  <2>2. \A x \in shared : OwnerAt(x, Now)' \in {"shared", "gone"}
    BY <1>2 DEF Knows, CacheInv, TypeInv, CacheTypes, Thing
  <2>3. /\ gasCoin # NoCoin => told[gasCoin.id] \in {No, gasCoin.version}
        /\ clean => gasCoin = NoCoin /\ \A x \in Thing : owned[x] = No
    BY DEF Knows, CacheInv
  <2> QED
    BY <1>1, <2>1, <2>2, <2>3 DEF CacheInv
<1>7. FreshInv'
  <2> SUFFICES ASSUME pc' # "wait", awaits["user"] = 0
               PROVE  /\ gasCoin = NoCoin => \A x \in Thing : told[x] <= indexed'
                      /\ \A x \in Thing \ shared : owned[x] = No =>
                           told[x] <= indexed' \/ OwnerAt(x, told[x])' = "gone"
    BY <1>1 DEF FreshInv
  <2>1. /\ gasCoin = NoCoin => \A x \in Thing : told[x] <= indexed
        /\ \A x \in Thing \ shared : owned[x] = No =>
             told[x] <= indexed \/ OwnerAt(x, told[x]) = "gone"
    BY DEF Knows, FreshInv
  <2>2. \A x \in Thing : told[x] <= indexed => told[x] <= indexed'
    BY <1>3, NowType DEF TypeInv, OutsideTypes, No
  <2>3. \A x \in Thing : told[x] = No => told[x] <= indexed'
    BY <1>3 DEF No
  <2> QED
    BY <1>2, <1>3, <2>1, <2>2, <2>3
<1> QED
  BY <1>4, <1>5, <1>6, <1>7 DEF Knows

(* Effects later than the last ones bring what they wrote up to date.      *)
LEMMA ApplyKnows ==
  ASSUME TypeInv, Knows, NEW i \in 1..Now, ApplyEffects(i), i > lastDigest,
         UNCHANGED <<ledger, indexed, awaits>>, \A w \in {"task", "user"} : awaits[w] = 0,
         pc # "wait", pc' # "reply"
  PROVE  Knows'
<1> DEFINE W == DOMAIN ledger[i].writes
           o(x) == ledger[i].writes[x]
<1>1. /\ owned' = [x \in Thing |-> IF x \in W /\ o(x) \in {"signer", "other"} THEN i
                                  ELSE IF x \in W /\ o(x) \in {"gone"} THEN No ELSE owned[x]]
      /\ shared' = (shared \ {x \in W : o(x) \in {"gone"}}) \cup {x \in W : o(x) \in {"shared"}}
      /\ gasCoin' = Ref(ledger[i].gas, i) /\ lastDigest' = i /\ clean' = FALSE
      /\ told' = [x \in Thing |-> IF x \in W THEN i ELSE told[x]]
  BY DEF ApplyEffects
<1>2. /\ W \subseteq Thing /\ ledger[i].gas \in W /\ i \in Nat /\ i # 0 /\ i # No
      /\ \A x \in W : o(x) \in Owner
  <2>1. ledger[i] \in Entries /\ ledger[i].gas \in W
    BY DEF TypeInv, LedgerInv, Now
  <2> QED
    BY <2>1, NowType DEF Entries, No, TypeInv
<1>3. \A x \in W : OwnerAt(x, i) = o(x)
  BY <1>2, WrittenNow DEF Wrote
<1>4. Now' = Now /\ \A x, k : OwnerAt(x, k)' = OwnerAt(x, k)
  BY DEF Now, OwnerAt, VersionAt
<1> HIDE DEF W, o
<1>5. PatientInv'
  BY <1>1 DEF PatientInv
<1>6. BehindInv'
  <2> SUFFICES ASSUME NEW x \in Thing PROVE told'[x] <= indexed \/ told'[x] <= i
    BY <1>1 DEF BehindInv
  <2>1. CASE x \in W
    BY <1>1, <1>2, <2>1
  <2>2. CASE x \notin W
    <3>1. told'[x] = told[x]
      BY <1>1, <2>2
    <3>2. told[x] \in Int /\ lastDigest \in Nat
      BY NowType DEF TypeInv, CacheTypes, No
    <3>3. told[x] <= indexed \/ told[x] <= lastDigest
      BY DEF Knows, BehindInv
    <3> QED
      BY <1>2, <3>1, <3>2, <3>3
  <2> QED
    BY <2>1, <2>2
<1>7. CacheInv'
  <2>1. ASSUME NEW x \in Thing, owned'[x] # No, told'[x] # No
        PROVE  owned'[x] = told'[x] \/ OwnerAt(x, told'[x]) = "shared"
    <3>1. CASE x \in W
      BY <1>1, <1>2, <1>3, <2>1, <3>1 DEF Owner
    <3>2. CASE x \notin W
      BY <1>1, <2>1, <3>2 DEF Knows, CacheInv
    <3> QED
      BY <3>1, <3>2
  <2>2. told'[gasCoin'.id] \in {No, gasCoin'.version}
    <3>1. told'[ledger[i].gas] = i /\ gasCoin'.id = ledger[i].gas /\ gasCoin'.version = i
      BY <1>1, <1>2 DEF Ref
    <3> QED
      BY <3>1
  <2>3. ASSUME NEW x \in shared' PROVE OwnerAt(x, Now) \in {"shared", "gone"}
    <3>1. CASE x \in shared
      BY <3>1 DEF Knows, CacheInv
    <3>2. CASE x \notin shared
      <4>1. x \in W /\ o(x) = "shared"
        BY <1>1, <2>3, <3>2
      <4>2. x \in Thing /\ OwnerAt(x, i) = "shared" /\ i \in 0..Now
        BY <1>2, <1>3, <4>1
      <4> QED
        BY <4>2 DEF TypeInv, LedgerInv
    <3> QED
      BY <3>1, <3>2
  <2> QED
    BY <1>1, <1>4, <2>1, <2>2, <2>3 DEF CacheInv
<1>8. FreshInv'
  <2>1. gasCoin' # NoCoin
    <3>1. gasCoin'.version = i /\ NoCoin.version = No
      BY <1>1 DEF Ref, NoCoin
    <3> QED
      BY <1>2, <3>1
  <2>2. ASSUME NEW x \in Thing \ shared', owned'[x] = No
        PROVE  told'[x] <= indexed \/ OwnerAt(x, told'[x]) = "gone"
    <3>1. CASE x \in W
      <4>1. o(x) = "gone" /\ told'[x] = i
        BY <1>1, <1>2, <2>2, <3>1 DEF Owner
      <4> QED
        BY <1>3, <3>1, <4>1
    <3>2. CASE x \notin W
      <4>1. x \notin shared /\ owned[x] = No /\ told'[x] = told[x]
        BY <1>1, <2>2, <3>2
      <4> QED
        BY <4>1 DEF Knows, FreshInv
    <3> QED
      BY <3>1, <3>2
  <2> QED
    BY <1>4, <2>1, <2>2 DEF FreshInv
<1> QED
  BY <1>5, <1>6, <1>7, <1>8 DEF Knows

(* Nothing is ahead of the fullnode once no effects are cached, and after  *)
(* a wait for the last of them that ends, whichever way it does.           *)
LEMMA NothingAhead ==
  ASSUME TypeInv, BehindInv, lastDigest = 0 \/ lastDigest <= indexed
  PROVE  \A x \in Thing : told[x] <= indexed
<1> SUFFICES ASSUME NEW x \in Thing PROVE told[x] <= indexed
  OBVIOUS
<1>1. told[x] \in Int /\ lastDigest \in Nat /\ indexed \in Nat
  BY NowType DEF TypeInv, CacheTypes, OutsideTypes, No
<1>2. told[x] <= indexed \/ told[x] <= lastDigest
  BY DEF BehindInv
<1> QED
  BY <1>1, <1>2

(* A reset, which waits for the last transaction cached if there is one.   *)
LEMMA ResetKnows ==
  ASSUME TypeInv, Knows, NEW w \in {"task", "user"}, Clear, WaitForLastTransaction(w),
         UNCHANGED <<ledger, indexed, told>>, \A u \in {"task", "user"} : awaits[u] = 0,
         w = "user" => queue' = <<>>, pc' # "reply",
         lastDigest = 0 \/ w = "user" \/ pc' = "wait"
  PROVE  Knows'
<1>1. /\ owned' = [x \in Thing |-> No] /\ gasCoin' = NoCoin /\ UNCHANGED <<shared, lastDigest>>
      /\ awaits' = [awaits EXCEPT ![w] = lastDigest]
  BY DEF Clear, WaitForLastTransaction
<1>2. Now' = Now /\ \A x, k : OwnerAt(x, k)' = OwnerAt(x, k)
  BY DEF Now, OwnerAt, VersionAt
<1>3. \A u \in {"task", "user"} : awaits'[u] = IF u = w THEN lastDigest ELSE 0
  BY <1>1 DEF TypeInv, OutsideTypes
<1>4. PatientInv'
  BY <1>1, <1>3 DEF PatientInv
<1>5. BehindInv'
  BY <1>1 DEF Knows, BehindInv
<1>6. CacheInv'
  BY <1>1, <1>2 DEF Knows, CacheInv
<1>7. FreshInv'
  <2>1. CASE lastDigest = 0
    <3>1. \A x \in Thing : told[x] <= indexed
      BY <2>1, NothingAhead DEF Knows
    <3> QED
      BY <3>1 DEF FreshInv
  <2>2. CASE lastDigest # 0
    <3>1. pc' = "wait" \/ awaits'["user"] # 0
      BY <1>3, <2>2
    <3> QED
      BY <3>1 DEF FreshInv
  <2> QED
    BY <2>1, <2>2
<1> QED
  BY <1>4, <1>5, <1>6, <1>7 DEF Knows

(* A wait that ends.                                                       *)
LEMMA WaitedKnows ==
  ASSUME TypeInv, TaskWaits, Knows, NEW w \in {"task", "user"}, Waited(w)
  PROVE  Knows'
<1>1. w = "task" => pc = "wait"
  BY DEF Waited, TaskWaits
<1>2. /\ TypeInv' /\ awaits[w] # 0 /\ awaits' = [awaits EXCEPT ![w] = 0]
      /\ UNCHANGED <<owned, shared, gasCoin, clean, ledger, indexed>>
      /\ \/ w = "task" /\ queue # <<>> /\ pc' \in {"build", "idle"}
         \/ w = "user" /\ UNCHANGED <<queueVars, pc, refs, mine>>
      /\ \/ awaits[w] <= indexed /\ lastDigest' = 0 /\ UNCHANGED told
         \/ UNCHANGED lastDigest
            /\ told' = [x \in Thing |-> IF told[x] > indexed THEN No ELSE told[x]]
  BY <1>1, WaitedEffect
<1>3. \A u \in {"task", "user"} : awaits[u] # 0 => u = w
  <2>1. pc = "wait" => queue # <<>>
    BY DEF TypeInv, QueueInv
  <2> QED
    BY <1>1, <1>2, <2>1 DEF TaskWaits, Knows, PatientInv
<1>4. \A u \in {"task", "user"} : awaits'[u] = 0
  BY <1>2, <1>3 DEF TypeInv, OutsideTypes
<1>5. pc' # "reply"
  <2>1. w = "user" => pc = "idle"
    BY <1>2 DEF Knows, PatientInv, TypeInv, QueueInv
  <2> QED
    BY <1>2, <2>1
<1>6. PatientInv'
  BY <1>4, <1>5 DEF PatientInv
<1>7. /\ \A x \in Thing : told'[x] <= indexed
      /\ \A x \in Thing : told'[x] \in {No, told[x]}
  <2>1. CASE awaits[w] <= indexed /\ lastDigest' = 0 /\ UNCHANGED told
    <3>1. lastDigest <= indexed
      BY <1>2, <2>1 DEF Knows, PatientInv
    <3> QED
      BY <2>1, <3>1, NothingAhead DEF Knows
  <2>2. CASE told' = [x \in Thing |-> IF told[x] > indexed THEN No ELSE told[x]]
    <3>1. indexed \in Nat /\ \A x \in Thing : told[x] \in Int
      BY NowType DEF TypeInv, OutsideTypes, CacheTypes, No
    <3> QED
      BY <2>2, <3>1 DEF No
  <2> QED
    BY <1>2, <2>1, <2>2
<1>8. Now' = Now /\ \A x, k : OwnerAt(x, k)' = OwnerAt(x, k)
  BY <1>2 DEF Now, OwnerAt, VersionAt
<1>9. BehindInv' /\ FreshInv'
  BY <1>2, <1>7 DEF BehindInv, FreshInv
<1>10. CacheInv'
  <2>1. gasCoin # NoCoin => gasCoin.id \in Thing
    BY DEF TypeInv, CacheTypes, Thing
  <2> QED
    BY <1>2, <1>7, <1>8, <2>1 DEF Knows, CacheInv
<1> QED
  BY <1>6, <1>9, <1>10 DEF Knows

-----------------------------------------------------------------------------
(* What the references of a task name.                                     *)
Current(r) == OwnerAt(r.id, Now) = "signer" /\ told[r.id] = VersionAt(r.id, Now)
                => r.version = VersionAt(r.id, Now)

(* When the executor knows all, and the caller may use what it names.      *)
KnowsAll == /\ clean /\ \A x \in Thing : told[x] = VersionAt(x, Now)
            /\ OwnerAt(Uses[Head(queue)], Now) \in {"signer", "shared"}

LEMMA CachedCurrent ==
  ASSUME TypeInv, Knows, queue # <<>>, NEW r \in Cached
  PROVE  Current(r)
<1> SUFFICES ASSUME OwnerAt(r.id, Now) = "signer", told[r.id] = VersionAt(r.id, Now)
             PROVE  r.version = VersionAt(r.id, Now)
  BY DEF Current
<1> DEFINE x == Uses[Head(queue)]
<1>1. x \in Thing /\ Now \in Nat
  BY HeadType, NowType DEF TypeInv, Thing
<1>2. VersionAt(r.id, Now) \in 0..Now
  BY <1>1, VersionIs
<1>3. told[r.id] # No
  BY <1>2 DEF No
<1>4. \/ gasCoin # NoCoin /\ r = gasCoin
      \/ owned[x] # No /\ r = Ref(x, owned[x])
      \/ x \in shared /\ r = SharedRef(x)
  BY DEF Cached
<1> HIDE DEF x
<1>5. CASE gasCoin # NoCoin /\ r = gasCoin
  BY <1>3, <1>5 DEF Knows, CacheInv
<1>6. CASE owned[x] # No /\ r = Ref(x, owned[x])
  <2>1. r.id = x /\ r.version = owned[x]
    BY <1>6 DEF Ref
  <2>2. owned[x] = told[x] \/ OwnerAt(x, told[x]) = "shared"
    BY <1>1, <1>3, <1>6, <2>1 DEF Knows, CacheInv
  <2>3. OwnerAt(x, told[x]) = OwnerAt(x, Now)
    BY <1>1, <1>2, <2>1, VersionBelow
  <2> QED
    BY <2>1, <2>2, <2>3
<1>7. CASE x \in shared /\ r = SharedRef(x)
  BY <1>7 DEF SharedRef, Ref, Knows, CacheInv
<1> QED
  BY <1>4, <1>5, <1>6, <1>7

(* A thing that is served for want of a cached entry is served as it is,   *)
(* if the executor was told of its version.                                *)
LEMMA ServedAsItIs ==
  ASSUME TypeInv, NEW x \in Thing, told[x] <= indexed, told[x] = VersionAt(x, Now)
  PROVE  VersionAt(x, indexed) = VersionAt(x, Now) /\ OwnerAt(x, indexed) = OwnerAt(x, Now)
<1>1. Now \in Nat /\ indexed \in 0..Now /\ VersionAt(x, Now) <= indexed
  BY NowType DEF TypeInv, OutsideTypes
<1> QED
  BY <1>1, VersionBelow

LEMMA ServedForWant ==
  ASSUME TypeInv, Knows, pc = "resolve", refs = Cached, NEW r \in Served
  PROVE  /\ r.id \in Thing
         /\ told[r.id] = VersionAt(r.id, Now) /\ OwnerAt(r.id, Now) # "gone" =>
              \/ OwnerAt(r.id, Now) = "shared" /\ r = SharedRef(r.id)
              \/ OwnerAt(r.id, Now) # "shared" /\ r = Ref(r.id, VersionAt(r.id, Now))
         /\ r.id \in Coins /\ told[r.id] = VersionAt(r.id, Now) => OwnerAt(r.id, Now) = "signer"
<1> DEFINE x == Uses[Head(queue)]
<1>1. queue # <<>> /\ awaits["user"] = 0
  BY DEF TypeInv, QueueInv, Knows, PatientInv
<1>2. x \in Objects /\ x \in Thing /\ x \notin Coins /\ Coins \subseteq Thing
  BY <1>1, HeadType, Sizes DEF TypeInv, Thing
<1>3. \/ /\ x \notin Ids(refs) /\ OwnerAt(x, indexed) # "gone"
         /\ r = IF OwnerAt(x, indexed) = "shared" THEN SharedRef(x) ELSE Ref(x, VersionAt(x, indexed))
      \/ /\ \A s \in refs : s.id \notin Coins
         /\ \E c \in Coins : OwnerAt(c, indexed) = "signer" /\ r = Ref(c, VersionAt(c, indexed))
  BY DEF Served, Ids
<1>4. /\ gasCoin = NoCoin => \A y \in Thing : told[y] <= indexed
      /\ \A y \in Thing \ shared : owned[y] = No =>
           told[y] <= indexed \/ OwnerAt(y, told[y]) = "gone"
  BY <1>1 DEF Knows, FreshInv
<1>5. CASE /\ x \notin Ids(refs)
           /\ r = IF OwnerAt(x, indexed) = "shared" THEN SharedRef(x) ELSE Ref(x, VersionAt(x, indexed))
  <2>1. owned[x] = No /\ x \notin shared
    <3>1. owned[x] # No => Ref(x, owned[x]) \in Cached /\ Ref(x, owned[x]).id = x
      BY DEF Cached, Ref
    <3>2. owned[x] = No /\ x \in shared => SharedRef(x) \in Cached /\ SharedRef(x).id = x
      BY DEF Cached, SharedRef, Ref
    <3> QED
      BY <1>5, <3>1, <3>2 DEF Ids
  <2>2. r.id = x
    BY <1>5 DEF SharedRef, Ref
  <2>3. told[x] <= indexed \/ OwnerAt(x, told[x]) = "gone"
    BY <1>2, <1>4, <2>1
  <2> HIDE DEF x
  <2>4. ASSUME told[x] = VersionAt(x, Now), OwnerAt(x, Now) # "gone"
        PROVE  \/ OwnerAt(x, Now) = "shared" /\ r = SharedRef(x)
               \/ OwnerAt(x, Now) # "shared" /\ r = Ref(x, VersionAt(x, Now))
    <3>1. Now \in Nat /\ VersionAt(x, Now) \in 0..Now
      BY NowType, VersionIs DEF TypeInv
    <3>2. OwnerAt(x, told[x]) = OwnerAt(x, Now)
      BY <2>4, <3>1, VersionBelow
    <3>3. VersionAt(x, indexed) = VersionAt(x, Now) /\ OwnerAt(x, indexed) = OwnerAt(x, Now)
      BY <1>2, <2>3, <2>4, <3>2, ServedAsItIs
    <3> QED
      BY <1>5, <3>3
  <2> QED
    BY <1>2, <2>2, <2>4
<1>6. ASSUME \A s \in refs : s.id \notin Coins, NEW c \in Coins,
             OwnerAt(c, indexed) = "signer", r = Ref(c, VersionAt(c, indexed))
      PROVE  /\ r.id \in Thing
             /\ told[r.id] = VersionAt(r.id, Now) /\ OwnerAt(r.id, Now) # "gone" =>
                  \/ OwnerAt(r.id, Now) = "shared" /\ r = SharedRef(r.id)
                  \/ OwnerAt(r.id, Now) # "shared" /\ r = Ref(r.id, VersionAt(r.id, Now))
             /\ told[r.id] = VersionAt(r.id, Now) => OwnerAt(r.id, Now) = "signer"
  <2>1. gasCoin = NoCoin
    <3>1. gasCoin # NoCoin => gasCoin \in Cached /\ gasCoin.id \in Coins
      BY DEF Cached, TypeInv, CacheTypes
    <3> QED
      BY <1>6, <3>1
  <2>2. r.id = c /\ c \in Thing /\ told[c] <= indexed
    BY <1>2, <1>4, <1>6, <2>1 DEF Ref
  <2>3. told[c] = VersionAt(c, Now) =>
          VersionAt(c, indexed) = VersionAt(c, Now) /\ OwnerAt(c, indexed) = OwnerAt(c, Now)
    BY <2>2, ServedAsItIs
  <2> QED
    BY <1>6, <2>2, <2>3
<1> HIDE DEF x
<1> QED
  BY <1>2, <1>3, <1>5, <1>6

LEMMA ServedCurrent ==
  ASSUME TypeInv, Knows, pc = "resolve", refs = Cached, NEW r \in Served
  PROVE  Current(r)
<1>1. /\ told[r.id] = VersionAt(r.id, Now) /\ OwnerAt(r.id, Now) # "gone" =>
           \/ OwnerAt(r.id, Now) = "shared"
           \/ r = Ref(r.id, VersionAt(r.id, Now))
  BY ServedForWant
<1> QED
  BY <1>1 DEF Current, Ref

(* After a reset the cache names nothing but an object that is shared.     *)
LEMMA CachedValid ==
  ASSUME TypeInv, Knows, queue # <<>>, KnowsAll, NEW r \in Cached
  PROVE  Valid(r)
<1> DEFINE x == Uses[Head(queue)]
<1>1. x \in Thing
  BY HeadType DEF TypeInv, Thing
<1>2. x \in shared /\ r = SharedRef(x)
  BY <1>1 DEF Cached, KnowsAll, Knows, CacheInv
<1>3. OwnerAt(x, Now) = "shared"
  BY <1>2 DEF KnowsAll, Knows, CacheInv
<1> HIDE DEF x
<1> QED
  BY <1>2, <1>3 DEF Valid, SharedRef, Ref

LEMMA ServedValid ==
  ASSUME TypeInv, Knows, pc = "resolve", refs = Cached, KnowsAll, NEW r \in Served
  PROVE  Valid(r)
<1>1. queue # <<>>
  BY DEF TypeInv, QueueInv
<1>2. r.id \in Thing /\ told[r.id] = VersionAt(r.id, Now)
  BY ServedForWant DEF KnowsAll
<1>3. r.id \in Coins \/ r.id = Uses[Head(queue)]
  BY DEF Served, Ref, SharedRef
<1>4. OwnerAt(r.id, Now) \in {"signer", "shared"}
  BY <1>2, <1>3, ServedForWant DEF KnowsAll
<1>5. \/ OwnerAt(r.id, Now) = "shared" /\ r = SharedRef(r.id)
      \/ OwnerAt(r.id, Now) = "signer" /\ r = Ref(r.id, VersionAt(r.id, Now))
  BY <1>2, <1>4, ServedForWant
<1>6. Now \in Nat /\ VersionAt(r.id, Now) # No
  <2>1. VersionAt(r.id, Now) \in Nat
    BY NowType, VersionIs DEF TypeInv
  <2> QED
    BY <2>1, NowType DEF TypeInv, No
<1> QED
  BY <1>5, <1>6 DEF Valid, SharedRef, Ref

(* A transaction that the executor has not been told of excuses it.        *)
LEMMA RefsKept ==
  ASSUME TypeInv, TypeInv', RefsInv, ChainGoesOn, UNCHANGED <<refs, cacheVars, told, clean>>,
         pc' \in {"resolve", "sign"} => pc' = pc /\ Head(queue') = Head(queue)
  PROVE  RefsInv'
<1>1. UNCHANGED <<owned, shared, gasCoin>>
  BY DEF cacheVars
<1>2. pc' = "resolve" => refs' = Cached'
  BY <1>1 DEF RefsInv, Cached
<1>3. CASE UNCHANGED ledger
  <2>1. Now' = Now /\ \A x, k : VersionAt(x, k)' = VersionAt(x, k) /\ OwnerAt(x, k)' = OwnerAt(x, k)
    BY <1>3 DEF Now, VersionAt, OwnerAt
  <2>2. OwnedRefsCurrent'
    BY <2>1 DEF RefsInv, OwnedRefsCurrent
  <2>3. \A r : Valid(r)' = Valid(r)
    BY <2>1 DEF Valid
  <2>4. HealsAfterReset'
    BY <2>1, <2>3 DEF RefsInv, HealsAfterReset
  <2> QED
    BY <1>2, <2>2, <2>4 DEF RefsInv
<1>4. ASSUME NEW I \in SUBSET Thing, I # {}, Grown(I) PROVE RefsInv'
  <2>1. /\ \A x \in I : VersionAt(x, Now)' = Now + 1
        /\ \A x : x \notin I => VersionAt(x, Now)' = VersionAt(x, Now) /\ OwnerAt(x, Now)' = OwnerAt(x, Now)
    BY <1>4 DEF Grown
  <2>2. \A x \in I : told[x] # VersionAt(x, Now)'
    <3> SUFFICES ASSUME NEW x \in I PROVE told[x] # VersionAt(x, Now)'
      OBVIOUS
    <3>1. Now \in Nat /\ (told[x] = No \/ told[x] \in 0..Now)
      BY NowType DEF TypeInv, CacheTypes
    <3> QED
      BY <2>1, <3>1 DEF No
  <2>3. OwnedRefsCurrent'
    <3> SUFFICES ASSUME pc' = "sign", NEW r \in refs', OwnerAt(r.id, Now)' = "signer",
                        told'[r.id] = VersionAt(r.id, Now)'
                 PROVE  r.version = VersionAt(r.id, Now)'
      BY DEF OwnedRefsCurrent
    <3>1. r.id \notin I
      BY <2>2
    <3> QED
      BY <2>1, <3>1 DEF RefsInv, OwnedRefsCurrent
  <2>4. HealsAfterReset'
    <3>1. ~ \A x \in Thing : told'[x] = VersionAt(x, Now)'
      BY <1>4, <2>2
    <3> QED
      BY <3>1 DEF HealsAfterReset
  <2> QED
    BY <1>2, <2>3, <2>4 DEF RefsInv
<1> QED
  BY <1>3, <1>4 DEF ChainGoesOn

(* The references of a transaction that is clean now are what it was given.*)
LEMMA RefsGiven ==
  ASSUME TypeInv, queue # <<>>, UNCHANGED <<ledger, told, clean, queue>>, pc' = "sign",
         \A r \in refs' : Current(r), KnowsAll => \A r \in refs' : Valid(r)
  PROVE  RefsInv'
<1>1. Now' = Now /\ \A x, k : VersionAt(x, k)' = VersionAt(x, k) /\ OwnerAt(x, k)' = OwnerAt(x, k)
  BY DEF Now, VersionAt, OwnerAt
<1>2. OwnedRefsCurrent'
  BY <1>1 DEF Current, OwnedRefsCurrent
<1>3. \A r : Valid(r)' = Valid(r)
  BY <1>1 DEF Valid
<1>4. HealsAfterReset'
  BY <1>1, <1>3 DEF KnowsAll, HealsAfterReset
<1> QED
  BY <1>2, <1>4 DEF RefsInv

Inv == TypeInv /\ TaskWaits /\ Knows /\ RefsInv

(* The steps up to the signature leave the cache alone.                    *)
LEMMA BuildKnows ==
  ASSUME Inv, BuildFromCache \/ Resolve \/ Sign, TypeInv'
  PROVE  Knows' /\ RefsInv'
<1>1. /\ UNCHANGED <<cacheVars, awaits, clean, ledger, indexed, told>> /\ queue # <<>>
      /\ pc \in {"build", "resolve", "sign"}
  BY DEF BuildFromCache, Resolve, Sign, chainVars, Inv, TypeInv, QueueInv
<1>2. \/ /\ pc = "build" /\ refs' = Cached /\ UNCHANGED queue
         /\ \/ pc' = "resolve"
            \/ pc' = "sign"
      \/ /\ pc = "resolve" /\ refs' = refs \cup Served /\ UNCHANGED queue /\ pc' = "sign"
      \/ pc' \in {"build", "idle", "send"}
  <2>1. CASE BuildFromCache
    BY <2>1 DEF BuildFromCache, Goes, queueVars
  <2>2. CASE Resolve
    BY <1>1, <2>2, SettleEffect DEF Resolve, Goes, queueVars, Inv, TypeInv
  <2>3. CASE Sign
    BY <1>1, <2>3, SettleEffect DEF Sign, Goes, queueVars, Inv, TypeInv
  <2> QED
    BY <2>1, <2>2, <2>3
<1>3. Knows'
  <2>1. awaits["user"] = 0
    BY <1>1 DEF Inv, Knows, PatientInv
  <2> QED
    BY <1>1, <1>2, <2>1, KnowsKept DEF Inv, ChainGoesOn, TypeInv
<1> SUFFICES RefsInv'
  BY <1>3
<1>4. CASE pc = "build" /\ refs' = Cached /\ UNCHANGED queue /\ pc' = "resolve"
  BY <1>1, <1>4 DEF RefsInv, Cached, cacheVars, OwnedRefsCurrent, HealsAfterReset
<1>5. CASE pc = "build" /\ refs' = Cached /\ UNCHANGED queue /\ pc' = "sign"
  <2>1. \A r \in Cached : Current(r) /\ (KnowsAll => Valid(r))
    BY <1>1, CachedCurrent, CachedValid DEF Inv
  <2> QED
    BY <1>1, <1>5, <2>1, RefsGiven DEF Inv
<1>6. CASE pc = "resolve" /\ refs' = refs \cup Served /\ UNCHANGED queue /\ pc' = "sign"
  <2>1. refs = Cached
    BY <1>6 DEF Inv, RefsInv
  <2>2. \A r \in refs' : Current(r) /\ (KnowsAll => Valid(r))
    BY <1>1, <1>6, <2>1, CachedCurrent, CachedValid, ServedCurrent, ServedValid DEF Inv
  <2> QED
    BY <1>1, <1>6, <2>2, RefsGiven DEF Inv
<1>7. CASE pc' \in {"build", "idle", "send"}
  BY <1>7 DEF RefsInv, OwnedRefsCurrent, HealsAfterReset
<1> QED
  BY <1>2, <1>4, <1>5, <1>6, <1>7

(* No reference is there to be judged.                                     *)
LEMMA NothingNamed == pc' \notin {"resolve", "sign"} => RefsInv'
BY DEF RefsInv, OwnedRefsCurrent, HealsAfterReset

LEMMA NextKnows ==
  ASSUME Patient, Inv, [Next]_vars
  PROVE  Inv'
<1>1. TypeInv' /\ TaskWaits' /\ LedgerInv'
  BY NextTypes DEF Inv, TypeInv
<1>2. /\ pc # "wait" => awaits["task"] = 0
      /\ queue # <<>> => awaits["user"] = 0
      /\ pc \in Pc /\ (pc = "idle" <=> queue = <<>>)
  BY DEF Inv, TaskWaits, Knows, PatientInv, TypeInv, QueueInv
<1> SUFFICES Knows' /\ RefsInv'
  BY <1>1 DEF Inv
<1>3. ASSUME NEW t \in Txs, Submit(t) PROVE Knows' /\ RefsInv'
  <2>1. /\ UNCHANGED <<refs, mine, cacheVars, awaits, clean, ledger, indexed, told>> /\ awaits["user"] = 0
        /\ \/ queue = <<>> /\ pc' = "build"
           \/ queue # <<>> /\ pc' = pc /\ Head(queue') = Head(queue)
    BY <1>3, SubmitEffect DEF Submit, chainVars, Inv, TypeInv
  <2>2. (pc' = "reply" => mine' > lastDigest') /\ (pc = "wait" => pc' = "wait")
    BY <1>2, <2>1 DEF Inv, Knows, PatientInv, cacheVars
  <2>3. Knows'
    BY <1>1, <2>1, <2>2, KnowsKept DEF Inv, ChainGoesOn, cacheVars
  <2>4. RefsInv'
    BY <1>1, <2>1, RefsKept DEF Inv, ChainGoesOn
  <2> QED
    BY <2>3, <2>4
<1>4. CASE BuildFromCache \/ Resolve \/ Sign
  BY <1>1, <1>4, BuildKnows
<1>5. CASE Send
  <2>1. /\ pc = "send" /\ queue # <<>>
        /\ UNCHANGED <<queue, refs, cacheVars, awaits, clean, indexed, told>>
        /\ pc' \in {"reply", "reset"} /\ ChainGoesOn /\ (pc' = "reply" => mine' = Now + 1)
    <3>1. Ids(refs) \in SUBSET Thing
      BY DEF Inv, TypeInv, TaskInv, Ids
    <3>2. Land(refs, {}) => Ids(refs) # {}
      BY DEF Land, Ids
    <3>3. UNCHANGED ledger \/ Land(refs, {})
      BY <1>5 DEF Send
    <3> QED
      BY <1>5, <3>1, <3>2, <3>3, SendEffect DEF Inv, ChainGoesOn, queueVars
  <2>2. pc' = "reply" => mine' > lastDigest'
    BY <2>1, NowType DEF Inv, TypeInv, CacheTypes, cacheVars
  <2>3. Knows'
    BY <1>1, <1>2, <2>1, <2>2, KnowsKept DEF Inv, cacheVars
  <2> QED
    BY <2>1, <2>3, NothingNamed
<1>6. CASE Reply
  <2>1. /\ pc = "reply" /\ queue # <<>> /\ mine \in 1..Now /\ pc' \in {"build", "idle"}
        /\ ApplyEffects(mine) /\ UNCHANGED <<awaits, ledger, indexed>>
    BY <1>6, ReplyTypes DEF Reply, Inv
  <2>2. mine > lastDigest /\ \A w \in {"task", "user"} : awaits[w] = 0
    BY <1>2, <2>1 DEF Inv, Knows, PatientInv
  <2>3. Knows'
    BY <2>1, <2>2, ApplyKnows DEF Inv
  <2> QED
    BY <2>1, <2>3, NothingNamed
<1>7. CASE ResetOnError
  <2>1. /\ pc = "reset" /\ queue # <<>> /\ Clear /\ WaitForLastTransaction("task")
        /\ UNCHANGED <<ledger, indexed, told>>
        /\ \/ lastDigest = 0 /\ pc' \in {"build", "idle"}
           \/ lastDigest # 0 /\ pc' = "wait"
    BY <1>7, ResetOnErrorTypes DEF ResetOnError, chainVars, Inv
  <2>2. Knows'
    BY <1>2, <2>1, ResetKnows DEF Inv
  <2> QED
    BY <2>1, <2>2, NothingNamed
<1>8. ASSUME NEW w \in {"task", "user"}, Waited(w) PROVE Knows' /\ RefsInv'
  <2>1. w = "task" => pc = "wait"
    BY <1>8 DEF Waited, Inv, TaskWaits
  <2>2. pc' \in {"build", "idle"}
    BY <1>2, <1>8, <2>1, WaitedEffect DEF Inv
  <2> QED
    BY <1>8, <2>2, WaitedKnows, NothingNamed DEF Inv
<1>9. CASE UserResets \/ UserWaits \/ \E i \in 1..Now : UserApplies(i)
  <2>1. /\ awaits["user"] = 0 /\ queue = <<>> /\ pc = "idle" /\ awaits["task"] = 0
        /\ UNCHANGED <<queue, pc, refs, mine, ledger, indexed>>
    <3>1. Free /\ UNCHANGED <<queue, pc, refs, mine, ledger, indexed>>
      BY <1>9 DEF UserResets, UserWaits, UserApplies, queueVars, chainVars
    <3> QED
      BY <1>2, <3>1 DEF Free
  <2>2. CASE UserResets
    <3>1. Clear /\ WaitForLastTransaction("user") /\ UNCHANGED <<clean, told>>
      BY <2>2 DEF UserResets, chainVars
    <3> QED
      BY <2>1, <3>1, ResetKnows, NothingNamed DEF Inv
  <2>3. CASE UserWaits
    <3>1. UNCHANGED <<cacheVars, clean, told>> /\ lastDigest # 0
          /\ awaits' = [awaits EXCEPT !["user"] = lastDigest]
      BY <2>3 DEF UserWaits, WaitForLastTransaction, chainVars
    <3>2. Now' = Now /\ \A x, k : OwnerAt(x, k)' = OwnerAt(x, k)
      BY <2>1 DEF Now, OwnerAt, VersionAt
    <3>3. awaits'["user"] = lastDigest /\ awaits'["task"] = 0
      BY <2>1, <3>1 DEF Inv, TypeInv, OutsideTypes
    <3>4. PatientInv' /\ BehindInv' /\ FreshInv'
      BY <2>1, <3>1, <3>3 DEF Inv, Knows, PatientInv, BehindInv, FreshInv, cacheVars
    <3>5. CacheInv'
      BY <3>1, <3>2 DEF Inv, Knows, CacheInv, cacheVars
    <3> QED
      BY <2>1, <3>4, <3>5, NothingNamed DEF Knows
  <2>4. ASSUME NEW i \in 1..Now, UserApplies(i) PROVE Knows' /\ RefsInv'
    <3>1. ApplyEffects(i) /\ i > lastDigest /\ UNCHANGED awaits
      BY <2>4 DEF UserApplies
    <3> QED
      BY <2>1, <3>1, ApplyKnows, NothingNamed DEF Inv
  <2> QED
    BY <1>9, <2>2, <2>3, <2>4
<1>10. CASE Elsewhere
  <2>1. /\ ChainGoesOn /\ UNCHANGED <<queue, pc, refs, mine, cacheVars, awaits, clean, indexed, told>>
    BY <1>10, ElsewhereEffect DEF Inv, ChainGoesOn, queueVars
  <2>2. (awaits["user"] # 0 => queue' = <<>>) /\ (pc' = "reply" => mine' > lastDigest')
    BY <2>1 DEF Inv, Knows, PatientInv, cacheVars
  <2>3. Knows'
    BY <1>1, <2>1, <2>2, KnowsKept DEF Inv, cacheVars
  <2> QED
    BY <1>1, <2>1, <2>3, RefsKept DEF Inv
<1>11. CASE Index \/ UNCHANGED vars
  <2>1. /\ ChainGoesOn /\ UNCHANGED <<queue, pc, refs, mine, cacheVars, awaits, clean, told>>
        /\ indexed' \in {indexed, indexed + 1}
    BY <1>11 DEF Index, vars, ChainGoesOn, queueVars, chainVars
  <2>2. (awaits["user"] # 0 => queue' = <<>>) /\ (pc' = "reply" => mine' > lastDigest')
    BY <2>1 DEF Inv, Knows, PatientInv, cacheVars
  <2>3. Knows'
    BY <1>1, <2>1, <2>2, KnowsKept DEF Inv, cacheVars
  <2> QED
    BY <1>1, <2>1, <2>3, RefsKept DEF Inv
<1> QED
  BY <1>3, <1>4, <1>5, <1>6, <1>7, <1>8, <1>9, <1>10, <1>11 DEF Next, Step

LEMMA Invariant == ASSUME Patient PROVE Spec => []Inv
<1>1. Init => Inv
  BY InitTypes, InitKnows DEF Inv
<1>2. Inv /\ [Next]_vars => Inv'
  BY NextKnows
<1> QED
  BY <1>1, <1>2, PTL DEF Spec

(* Whatever the signer still owns is named at the version the executor was *)
(* told of, although updates come through a cache that knows each thing by *)
(* one of three maps, and through a fullnode that may lag behind.          *)
THEOREM KnownRefsUsed == ASSUME Patient PROVE Spec => []OwnedRefsCurrent
<1>1. Inv => OwnedRefsCurrent
  BY DEF Inv, RefsInv
<1> QED
  BY <1>1, Invariant, PTL

(* After an error the reset leaves nothing behind that would have the next *)
(* transaction refused, provided the executor knows what happened.         *)
THEOREM ResetHeals == ASSUME Patient PROVE Spec => []HealsAfterReset
<1>1. Inv => HealsAfterReset
  BY DEF Inv, RefsInv
<1> QED
  BY <1>1, Invariant, PTL

=============================================================================
