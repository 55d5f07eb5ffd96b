----------------------- MODULE TransactionBuilderProofs -----------------------
(***************************************************************************)
(* TransactionBuilder for any number of commands, when the caller adds     *)
(* nothing while plugins run or after they failed and uses, of the results *)
(* from before a build, those that StillRefer: every argument keeps        *)
(* referring to the command whose result was passed, and the commands end  *)
(* where they were added.                                                  *)
(***************************************************************************)
EXTENDS TransactionBuilder, FiniteSetTheorems, SequenceTheorems, TLAPS

(* The order in which commands stand once they are sorted: where one was   *)
(* added, and the MergeCoins of an intent in front of its SplitCoins.      *)
Spot(x) == command[IF x > 0 THEN x ELSE -x].place

Follows(x, y) == Before(Spot(x), Spot(y)) \/ (y > 0 /\ x = -y)

(* A fork ends after everything that it and those before it have added.    *)
End(p) == Append(p, MaxCommands + 1)

Base(s) == IF s = Root THEN <<>> ELSE command[s].place

Under(p, q) == Len(p) < Len(q) /\ \A k \in 1..Len(p) : q[k] = p[k]

Arg == [at : Nat, nested : BOOLEAN]

Use == [kind : {"call", "intent", "split", "thunk", "void"}, arg : Arg, means : Nat,
        nested : BOOLEAN, place : Seq(Int)]

Entry == [what : {"fork", "command"}, id : Int]

Typed ==
  /\ commands \in Seq(Int) /\ command \in Seq(Use) /\ Len(command) <= MaxCommands
  /\ DOMAIN section \subseteq Nat /\ Root \in DOMAIN section
  /\ section \in [DOMAIN section -> Seq(Entry)]
  /\ available \in [DOMAIN section -> SUBSET Nat]
  /\ handle \in Seq(Nat) /\ Len(handle) = Len(command)
  /\ held \subseteq Created /\ pending \subseteq DOMAIN section \ {Root}
  /\ result \in [Id -> {None} \cup Created]
  /\ aliased \in BOOLEAN /\ rejected \in BOOLEAN
  /\ phase \in {"open", "waiting", "plugins"}

PlacesInv ==
  \A u \in Created : /\ Len(command[u].place) > 0
                     /\ \A k \in 1..Len(command[u].place) : command[u].place[k] \in Created

ListInv ==
  /\ \A i, j \in DOMAIN commands : commands[i] = commands[j] => i = j
  /\ \A x \in ToSet(commands) : x \in Created \/ (-x \in Created /\ Kind(-x) = "split")
  /\ \A u \in Created : ~IsThunk(u) => u \in ToSet(commands)

(* The forks are those of the thunks in the list, and each is in one with  *)
(* a smaller number.                                                       *)
ForksInv ==
  /\ DOMAIN section = {Root} \cup {u \in ToSet(commands) : IsThunk(u)}
  /\ \A f \in DOMAIN section \ {Root} : \E s \in DOMAIN section : Item("fork", f) \in ToSet(section[s])
  /\ \A s \in DOMAIN section : \A e \in ToSet(section[s]) :
       IF e.what = "fork" THEN e.id \in DOMAIN section /\ s < e.id ELSE e.id \in ToSet(commands)

ListedInv ==
  /\ \A x \in ToSet(commands) : ~IsThunk(x) =>
       \E s \in DOMAIN section : Item("command", x) \in ToSet(section[s])
  /\ DOMAIN section = {Root} => section[Root] = Items(commands)

Live(e) == e.what = "fork" \/ ~IsThunk(e.id)

Within(s, e) == Under(Base(s), Spot(e.id))

InLine(d, e) == Live(d) /\ Live(e) => Follows(d.id, e.id)

OrderInv ==
  \A s \in DOMAIN section :
    /\ \A i \in DOMAIN section[s] : Within(s, section[s][i])
    /\ \A i, j \in DOMAIN section[s] : i < j => InLine(section[s][i], section[s][j])

PhaseInv ==
  /\ phase = "plugins" => aliased
  /\ aliased => ~rejected /\ DOMAIN section = {Root}

HeldInv ==
  \A u \in held : /\ handle[u] \in DOMAIN commands /\ commands[handle[u]] = Meant(u)
                  /\ Kind(Meant(u)) # "split"
                  /\ \A s \in DOMAIN section :
                       handle[u] \in available[s] => Before(End(Spot(u)), End(Base(s)))

AvailableInv == \A s \in DOMAIN section : available[s] \subseteq DOMAIN commands

ResultInv ==
  /\ \A f \in Id : result[f] # None =>
       /\ f \in Created /\ Kind(f) = "thunk" /\ f \notin pending
       /\ Kind(result[f]) # "void"
       /\ Before(End(Spot(result[f])), End(Spot(f)))
  /\ \A f \in DOMAIN section \ {Root} :
       f \in pending \/ Kind(f) = "void" \/ result[f] # None \/ rejected
  /\ \A f \in pending : Kind(f) = "thunk"

(* A thunk in the list has the index of what it returned.                  *)
ReturnInv ==
  \A f \in Id : result[f] # None /\ f \in ToSet(commands) =>
    /\ handle[result[f]] \in DOMAIN commands
    /\ commands[handle[result[f]]] = Meant(result[f])
    /\ Kind(Meant(result[f])) # "split"

MeansFits(u) ==
  /\ command[u].means = None => command[u].arg = NoArg /\ ~command[u].nested
  /\ command[u].means # None =>
       /\ command[u].means \in Created /\ Kind(command[u].means) # "void"
       /\ command[u].nested => Kind(command[u].means) = "call"
       /\ Before(End(Spot(command[u].means)), Spot(u))
       /\ ~IsThunk(u)

MeansInv == \A u \in Created : MeansFits(u)

(* The inductive invariant.                                                *)
Inv ==
  /\ Typed /\ PlacesInv /\ ListInv /\ ForksInv /\ ListedInv /\ OrderInv /\ PhaseInv
  /\ HeldInv /\ AvailableInv /\ ResultInv /\ ReturnInv /\ MeansInv /\ ArgumentsFollow
-----------------------------------------------------------------------------
(* The order of places.                                                    *)
Above(p, q) == Len(p) <= Len(q) /\ \A k \in 1..Len(p) : q[k] = p[k]

LEMMA BeforeIrreflexive ==
  ASSUME NEW p \in Seq(Int)
  PROVE  ~Before(p, p)
<1>1. \A i \in DOMAIN p : p[i] \in Int
  OBVIOUS
<1> QED
  BY <1>1 DEF Before

LEMMA BeforeTransitive ==
  ASSUME NEW p \in Seq(Int), NEW q \in Seq(Int), NEW r \in Seq(Int), Before(p, q), Before(q, r)
  PROVE  Before(p, r)
<1>1. PICK i \in DOMAIN p \cap DOMAIN q : p[i] < q[i] /\ \A k \in 1..(i - 1) : p[k] = q[k]
  BY DEF Before
<1>2. PICK j \in DOMAIN q \cap DOMAIN r : q[j] < r[j] /\ \A k \in 1..(j - 1) : q[k] = r[k]
  BY DEF Before
<1>3. /\ i \in 1..Len(p) /\ i \in 1..Len(q) /\ j \in 1..Len(q) /\ j \in 1..Len(r)
      /\ Len(p) \in Nat /\ Len(q) \in Nat /\ Len(r) \in Nat
      /\ DOMAIN p = 1..Len(p) /\ DOMAIN r = 1..Len(r)
      /\ p[i] \in Int /\ q[i] \in Int /\ q[j] \in Int /\ r[j] \in Int
  BY <1>1, <1>2
<1>4. CASE i < j
  <2>1. i \in 1..(j - 1) /\ i \in DOMAIN p \cap DOMAIN r
    BY <1>3, <1>4
  <2>2. p[i] < r[i]
    <3>1. q[i] = r[i]
      BY <1>2, <2>1
    <3> QED
      BY <1>1, <3>1
  <2>3. ASSUME NEW k \in 1..(i - 1) PROVE p[k] = r[k]
    <3>1. k \in 1..(j - 1)
      BY <1>3, <1>4
    <3> QED
      BY <1>1, <1>2, <3>1
  <2> QED
    BY <2>1, <2>2, <2>3 DEF Before
<1>5. CASE ~(i < j)
  <2>1. j \in DOMAIN p \cap DOMAIN r
    BY <1>3, <1>5
  <2>2. p[j] < r[j]
    <3>1. CASE i = j
      BY <1>1, <1>2, <1>3, <3>1
    <3>2. CASE i # j
      <4>1. j \in 1..(i - 1)
        BY <1>3, <1>5, <3>2
      <4> QED
        BY <1>1, <1>2, <4>1
    <3> QED
      BY <3>1, <3>2
  <2>3. ASSUME NEW k \in 1..(j - 1) PROVE p[k] = r[k]
    <3>1. k \in 1..(i - 1)
      BY <1>3, <1>5
    <3> QED
      BY <1>1, <1>2, <3>1
  <2> QED
    BY <2>1, <2>2, <2>3 DEF Before
<1> QED
  BY <1>4, <1>5

(* Places further down keep the order of those they are under.             *)
LEMMA BeforeBelow ==
  ASSUME NEW p \in Seq(Int), NEW q \in Seq(Int), NEW p2 \in Seq(Int), NEW q2 \in Seq(Int),
         Before(p, q), Above(p, p2), Above(q, q2)
  PROVE  Before(p2, q2)
<1>1. PICK i \in DOMAIN p \cap DOMAIN q : p[i] < q[i] /\ \A k \in 1..(i - 1) : p[k] = q[k]
  BY DEF Before
<1>2. /\ i \in 1..Len(p) /\ i \in 1..Len(q)
      /\ Len(p) \in Nat /\ Len(q) \in Nat /\ Len(p2) \in Nat /\ Len(q2) \in Nat
      /\ DOMAIN p2 = 1..Len(p2) /\ DOMAIN q2 = 1..Len(q2)
  BY <1>1
<1>3. i \in DOMAIN p2 \cap DOMAIN q2 /\ p2[i] = p[i] /\ q2[i] = q[i]
  BY <1>2 DEF Above
<1>4. ASSUME NEW k \in 1..(i - 1) PROVE p2[k] = q2[k]
  <2>1. k \in 1..Len(p) /\ k \in 1..Len(q)
    BY <1>2, SMTT(30)
  <2> QED
    BY <1>1, <2>1 DEF Above
<1> QED
  BY <1>1, <1>3, <1>4 DEF Before

LEMMA AboveItself ==
  ASSUME NEW p \in Seq(Int)
  PROVE  /\ Above(p, p)
         /\ \A q \in Seq(Int) : Under(p, q) => Above(p, q)
         /\ Above(p, End(p)) /\ (MaxCommands \in Nat => End(p) \in Seq(Int))
<1>1. Len(p) \in Nat /\ \A q \in Seq(Int) : Len(q) \in Nat
  OBVIOUS
<1>2. Len(Append(p, MaxCommands + 1)) = Len(p) + 1 /\ \A k \in 1..Len(p) : Append(p, MaxCommands + 1)[k] = p[k]
  OBVIOUS
<1>3. MaxCommands \in Nat => Append(p, MaxCommands + 1) \in Seq(Int)
  OBVIOUS
<1> QED
  BY <1>1, <1>2, <1>3 DEF Above, Under, End

LEMMA UnderTransitive ==
  ASSUME NEW p \in Seq(Int), NEW q \in Seq(Int), NEW r \in Seq(Int), Under(p, q), Under(q, r)
  PROVE  Under(p, r)
<1>1. Len(p) \in Nat /\ Len(q) \in Nat /\ Len(r) \in Nat
  OBVIOUS
<1> QED
  BY <1>1 DEF Under
-----------------------------------------------------------------------------
(* Flattening sequences that are in order, each and one after another.  A  *)
(* recursive function exists because a least index where it does not       *)
(* cannot be.                                                              *)
Sorted(s, R) == \A i, j \in DOMAIN s : i < j => <<s[i], s[j]>> \in R

LEMMA LeastElement ==
  ASSUME NEW T, T \subseteq Nat, T # {}
  PROVE  \E x \in T : \A y \in T : x <= y
<1> DEFINE R == OpToRel(<, Nat)
<1>1. IsWellFoundedOn(R, Nat)
  BY NatLessThanWellFounded
<1>2. R = {ss \in Nat \X Nat : ss[1] < ss[2]}
  BY DEF OpToRel
<1> HIDE DEF R
<1>3. PICK x \in T : \A y \in T : <<y, x>> \notin R
  BY <1>1, WFMin
<1>4. \A y \in T : ~ (y < x)
  BY <1>2, <1>3
<1> QED
  BY <1>3, <1>4

LEMMA ConcatenationSorted ==
  ASSUME NEW S, NEW R, NEW s \in Seq(S), NEW t \in Seq(S), Sorted(s, R), Sorted(t, R),
         \A x \in ToSet(s), y \in ToSet(t) : <<x, y>> \in R
  PROVE  s \o t \in Seq(S) /\ Sorted(s \o t, R) /\ ToSet(s \o t) = ToSet(s) \cup ToSet(t)
<1> DEFINE u == s \o t
           m == Len(s)
           n == Len(t)
<1>1. /\ m \in Nat /\ n \in Nat /\ DOMAIN s = 1..m /\ DOMAIN t = 1..n
      /\ u \in Seq(S) /\ Len(u) = m + n /\ DOMAIN u = 1..(m + n)
      /\ \A i \in 1..(m + n) : u[i] = IF i <= m THEN s[i] ELSE t[i - m]
  OBVIOUS
<1> HIDE DEF u, m, n
<1>2. Sorted(u, R)
  <2> SUFFICES ASSUME NEW i \in DOMAIN u, NEW j \in DOMAIN u, i < j
               PROVE  <<u[i], u[j]>> \in R
    BY DEF Sorted
  <2>1. CASE j <= m
    <3>1. i \in 1..m /\ j \in 1..m /\ u[i] = s[i] /\ u[j] = s[j]
      BY <1>1, <2>1
    <3> QED
      BY <1>1, <3>1 DEF Sorted
  <2>2. CASE i <= m /\ ~(j <= m)
    <3>1. i \in 1..m /\ j - m \in 1..n /\ u[i] = s[i] /\ u[j] = t[j - m]
      BY <1>1, <2>2
    <3> QED
      BY <1>1, <3>1 DEF ToSet
  <2>3. CASE ~(i <= m)
    <3>1. i - m \in 1..n /\ j - m \in 1..n /\ i - m < j - m /\ u[i] = t[i - m] /\ u[j] = t[j - m]
      BY <1>1, <2>3
    <3> QED
      BY <1>1, <3>1 DEF Sorted
  <2> QED
    BY <1>1, <2>1, <2>2, <2>3
<1>3. ToSet(u) = ToSet(s) \cup ToSet(t)
  <2>1. ASSUME NEW x \in ToSet(u) PROVE x \in ToSet(s) \cup ToSet(t)
    <3>1. PICK i \in 1..(m + n) : x = u[i]
      BY <1>1, <2>1 DEF ToSet
    <3>2. CASE i <= m
      <4>1. i \in 1..m
        BY <1>1, <3>2
      <4> QED
        BY <1>1, <3>1, <3>2, <4>1 DEF ToSet
    <3>3. CASE ~(i <= m)
      <4>1. i - m \in 1..n
        BY <1>1, <3>3
      <4> QED
        BY <1>1, <3>1, <3>3, <4>1 DEF ToSet
    <3> QED
      BY <3>2, <3>3
  <2>2. ASSUME NEW x \in ToSet(s) PROVE x \in ToSet(u)
    <3>1. PICK i \in 1..m : x = s[i]
      BY <1>1, <2>2 DEF ToSet
    <3>2. i \in 1..(m + n) /\ i <= m
      BY <1>1
    <3> QED
      BY <1>1, <3>1, <3>2 DEF ToSet
  <2>3. ASSUME NEW x \in ToSet(t) PROVE x \in ToSet(u)
    <3>1. PICK i \in 1..n : x = t[i]
      BY <1>1, <2>3 DEF ToSet
    <3>2. i + m \in 1..(m + n) /\ ~(i + m <= m) /\ (i + m) - m = i
      BY <1>1
    <3> QED
      BY <1>1, <3>1, <3>2 DEF ToSet
  <2> QED
    BY <2>1, <2>2, <2>3
<1> QED
  BY <1>1, <1>2, <1>3 DEF u

LEMMA FlattenSorted ==
  ASSUME NEW S, NEW R, NEW seqs \in Seq(Seq(S)),
         \A i \in DOMAIN seqs : Sorted(seqs[i], R),
         \A i, j \in DOMAIN seqs : i < j =>
           \A x \in ToSet(seqs[i]), y \in ToSet(seqs[j]) : <<x, y>> \in R
  PROVE  /\ FlattenSeq(seqs) \in Seq(S) /\ Sorted(FlattenSeq(seqs), R)
         /\ ToSet(FlattenSeq(seqs)) = UNION {ToSet(seqs[i]) : i \in DOMAIN seqs}
<1> DEFINE N == Len(seqs)
           Next1(f, i) == IF i = 1 THEN seqs[i] ELSE f[i - 1] \o seqs[i]
           Until(k) == {f \in [1..k -> Seq(S)] : \A i \in 1..k : f[i] = Next1(f, i)}
           flatten == CHOOSE f : f = [i \in 1..N |-> Next1(f, i)]
<1>1. N \in Nat /\ DOMAIN seqs = 1..N /\ \A i \in 1..N : seqs[i] \in Seq(S)
  OBVIOUS
<1>2. CASE N = 0
  <2>1. seqs = <<>> /\ FlattenSeq(seqs) = seqs
    BY <1>2 DEF FlattenSeq
  <2>2. seqs \in Seq(S) /\ DOMAIN seqs = {}
    BY <2>1
  <2> QED
    BY <2>1, <2>2 DEF Sorted, ToSet
<1>3. ASSUME NEW k \in 1..N, k = 1 \/ Until(k - 1) # {}
      PROVE  Until(k) # {}
  <2>1. CASE k = 1
    <3>1. [i \in 1..1 |-> seqs[1]] \in Until(1)
      BY <1>1, <2>1
    <3> QED
      BY <2>1, <3>1
  <2>2. CASE k # 1
    <3>1. PICK f \in Until(k - 1) : TRUE
      BY <1>3, <2>2
    <3>2. k \in Nat /\ k - 1 \in 1..(k - 1) /\ k \in 1..N
      BY <1>1, <2>2
    <3>3. f \in [1..(k - 1) -> Seq(S)] /\ \A i \in 1..(k - 1) : f[i] = Next1(f, i)
      BY <3>1
    <3> DEFINE g == [i \in 1..k |-> IF i = k THEN f[k - 1] \o seqs[k] ELSE f[i]]
    <3>4. f[k - 1] \in Seq(S) /\ seqs[k] \in Seq(S)
      BY <1>1, <3>2, <3>3
    <3>5. f[k - 1] \o seqs[k] \in Seq(S)
      BY <3>4
    <3>6. g \in [1..k -> Seq(S)]
      BY <3>2, <3>3, <3>5
    <3>7. g[k] = f[k - 1] \o seqs[k] /\ \A i \in 1..(k - 1) : g[i] = f[i]
      <4>1. k \in 1..k /\ \A i \in 1..(k - 1) : i \in 1..k /\ i # k
        BY <3>2
      <4>2. g[k] = f[k - 1] \o seqs[k]
        BY <4>1
      <4>3. ASSUME NEW i \in 1..(k - 1) PROVE g[i] = f[i]
        BY <4>1
      <4> QED
        BY <4>2, <4>3
    <3> HIDE DEF g
    <3>8. ASSUME NEW i \in 1..k PROVE g[i] = Next1(g, i)
      <4>1. CASE i = k
        BY <2>2, <3>2, <3>7, <4>1
      <4>2. CASE i # k
        <5>1. i \in 1..(k - 1) /\ (i # 1 => i - 1 \in 1..(k - 1))
          BY <3>2, <4>2
        <5>2. g[i] = f[i] /\ (i # 1 => g[i - 1] = f[i - 1])
          BY <3>7, <5>1
        <5> QED
          BY <3>3, <5>1, <5>2
      <4> QED
        BY <4>1, <4>2
    <3>9. g \in Until(k)
      BY <3>6, <3>8
    <3> QED
      BY <3>9
  <2> QED
    BY <2>1, <2>2
<1>4. ASSUME N # 0 PROVE Until(N) # {}
  <2> DEFINE Bad == {k \in 1..N : Until(k) = {}}
  <2>1. SUFFICES ASSUME N \in Bad PROVE FALSE
    <3>1. N \in 1..N
      BY <1>1, <1>4
    <3> QED
      BY <3>1
  <2>2. Bad \subseteq Nat
    BY <1>1
  <2> HIDE DEF Until
  <2>3. PICK k \in Bad : \A j \in Bad : k <= j
    BY <2>1, <2>2, LeastElement
  <2>4. k \in 1..N /\ Until(k) = {}
    BY <2>3
  <2>5. k = 1 \/ Until(k - 1) # {}
    <3>1. SUFFICES ASSUME k # 1 PROVE k - 1 \notin Bad /\ k - 1 \in 1..N
      OBVIOUS
    <3>2. k \in Nat /\ ~ (k <= k - 1) /\ k - 1 \in 1..N
      BY <1>1, <2>4, <3>1
    <3> QED
      BY <2>3, <3>2
  <2> QED
    BY <1>3, <2>4, <2>5
<1>5. ASSUME N # 0 PROVE flatten = [i \in 1..N |-> Next1(flatten, i)]
  <2>1. PICK f \in Until(N) : TRUE
    BY <1>4, <1>5
  <2>2. f \in [1..N -> Seq(S)] /\ \A i \in 1..N : f[i] = Next1(f, i)
    BY <2>1
  <2>3. f = [i \in 1..N |-> Next1(f, i)]
    BY <2>2
  <2> QED
    BY <2>3
<1>6. ASSUME N # 0, NEW i \in 1..N
      PROVE  /\ flatten[i] \in Seq(S) /\ Sorted(flatten[i], R)
             /\ ToSet(flatten[i]) = UNION {ToSet(seqs[j]) : j \in 1..i}
  <2> HIDE DEF flatten
  <2> DEFINE Good(k) == /\ flatten[k] \in Seq(S) /\ Sorted(flatten[k], R)
                        /\ ToSet(flatten[k]) = UNION {ToSet(seqs[j]) : j \in 1..k}
             Bad == {k \in 1..N : ~Good(k)}
  <2>1. SUFFICES ASSUME Bad # {} PROVE FALSE
    BY <1>6
  <2>2. Bad \subseteq Nat
    BY <1>1
  <2> HIDE DEF Good
  <2>3. PICK k \in Bad : \A j \in Bad : k <= j
    BY <2>1, <2>2, LeastElement
  <2>4. k \in 1..N /\ ~Good(k)
    BY <2>3
  <2>5. flatten[k] = Next1(flatten, k)
    BY <1>5, <1>6, <2>4
  <2>6. CASE k = 1
    <3>1. flatten[k] = seqs[k] /\ 1..k = {k} /\ k \in DOMAIN seqs
      BY <1>1, <2>4, <2>5, <2>6
    <3>2. UNION {ToSet(seqs[j]) : j \in 1..k} = ToSet(seqs[k])
      BY <3>1
    <3>3. Good(k)
      BY <1>1, <3>1, <3>2 DEF Good
    <3> QED
      BY <2>4, <3>3
  <2>7. CASE k # 1
    <3>1. k \in Nat /\ k - 1 \in 1..N /\ k \in 1..N /\ ~(k <= k - 1)
      BY <1>1, <2>4, <2>7
    <3>2. k - 1 \notin Bad
      BY <2>3, <3>1
    <3>3. Good(k - 1)
      BY <3>1, <3>2
    <3>4. /\ flatten[k - 1] \in Seq(S) /\ Sorted(flatten[k - 1], R)
          /\ ToSet(flatten[k - 1]) = UNION {ToSet(seqs[j]) : j \in 1..(k - 1)}
      BY <3>3 DEF Good
    <3>5. flatten[k] = flatten[k - 1] \o seqs[k]
      BY <2>5, <2>7
    <3>6. ASSUME NEW x \in ToSet(flatten[k - 1]), NEW y \in ToSet(seqs[k]) PROVE <<x, y>> \in R
      <4>1. PICK j \in 1..(k - 1) : x \in ToSet(seqs[j])
        BY <3>4, <3>6
      <4>2. j \in DOMAIN seqs /\ k \in DOMAIN seqs /\ j < k
        BY <1>1, <3>1
      <4> QED
        BY <3>6, <4>1, <4>2
    <3>7. seqs[k] \in Seq(S) /\ Sorted(seqs[k], R)
      BY <1>1, <3>1
    <3>8. /\ flatten[k] \in Seq(S) /\ Sorted(flatten[k], R)
          /\ ToSet(flatten[k]) = ToSet(flatten[k - 1]) \cup ToSet(seqs[k])
      <4>1. \A x \in ToSet(flatten[k - 1]), y \in ToSet(seqs[k]) : <<x, y>> \in R
        BY <3>6
      <4> DEFINE a == flatten[k - 1]
                 b == seqs[k]
      <4>2. /\ a \o b \in Seq(S) /\ Sorted(a \o b, R)
            /\ ToSet(a \o b) = ToSet(a) \cup ToSet(b)
        <5> HIDE DEF a, b
        <5>1. /\ a \in Seq(S) /\ b \in Seq(S) /\ Sorted(a, R) /\ Sorted(b, R)
              /\ \A x \in ToSet(a), y \in ToSet(b) : <<x, y>> \in R
          BY <3>4, <3>7, <4>1 DEF a, b
        <5> QED
          BY <5>1, ConcatenationSorted
      <4> QED
        BY <3>5, <4>2
    <3>9. UNION {ToSet(seqs[j]) : j \in 1..k} = (UNION {ToSet(seqs[j]) : j \in 1..(k - 1)}) \cup ToSet(seqs[k])
      <4>1. 1..k = 1..(k - 1) \cup {k}
        BY <3>1
      <4> QED
        BY <4>1
    <3>10. Good(k)
      BY <3>4, <3>8, <3>9 DEF Good
    <3> QED
      BY <2>4, <3>10
  <2> QED
    BY <2>6, <2>7
<1>7. ASSUME N # 0 PROVE FlattenSeq(seqs) = flatten[N]
  BY <1>7 DEF FlattenSeq
<1> QED
  <2> HIDE DEF flatten
  <2>1. CASE N # 0
    <3>1. N \in 1..N
      BY <1>1, <2>1
    <3> QED
      BY <1>1, <1>6, <1>7, <2>1, <3>1
  <2> QED
    BY <1>2, <2>1
-----------------------------------------------------------------------------
(* What holds of a member when it holds of all those of a lower rank.      *)
LEMMA RankInduction ==
  ASSUME NEW C, NEW T, NEW rank \in [C -> Nat],
         \A v \in C : (\A w \in C : rank[w] < rank[v] => w \in T) => v \in T
  PROVE  C \subseteq T
<1> DEFINE Ranks == {rank[v] : v \in C \ T}
<1>1. SUFFICES ASSUME Ranks # {} PROVE FALSE
  OBVIOUS
<1>2. Ranks \subseteq Nat
  OBVIOUS
<1> HIDE DEF Ranks
<1>3. PICK k \in Ranks : \A j \in Ranks : k <= j
  BY <1>1, <1>2, LeastElement
<1>4. PICK v \in C \ T : k = rank[v]
  BY <1>3 DEF Ranks
<1>5. ASSUME NEW w \in C, rank[w] < rank[v] PROVE w \in T
  <2>1. rank[w] \in Nat /\ rank[v] \in Nat /\ ~(rank[v] <= rank[w])
    BY <1>5
  <2>2. rank[w] \notin Ranks
    BY <1>3, <1>4, <2>1
  <2> QED
    BY <2>2 DEF Ranks
<1> QED
  BY <1>4, <1>5

(* Following results from one to the next ends: rank decreases, so the     *)
(* function that the recursion asks for exists.                            *)
Chain(C, D, next, L, leaf, N, rank) ==
  /\ D \subseteq C /\ next \in [D -> C] /\ leaf \in [C -> L]
  /\ N \in Nat /\ rank \in [C -> 0..N] /\ \A v \in D : rank[next[v]] < rank[v]

LEMMA ChainEnds ==
  ASSUME NEW C, NEW D, NEW next, NEW L, NEW leaf, NEW N, NEW rank,
         Chain(C, D, next, L, leaf, N, rank)
  PROVE  \E e \in [C -> L] : \A v \in C : e[v] = IF v \in D THEN e[next[v]] ELSE leaf[v]
<1> DEFINE Step(e, v) == IF v \in D THEN e[next[v]] ELSE leaf[v]
           Low(k) == {v \in C : rank[v] < k}
           Until(k, e) == e = [v \in Low(k) |-> Step(e, v)]
           Stuck == {k \in Nat : ~\E e : Until(k, e)}
<1> USE DEF Chain
<1>1. Stuck = {}
  <2>1. SUFFICES ASSUME Stuck # {} PROVE FALSE
    OBVIOUS
  <2> HIDE DEF Until
  <2>2. PICK k \in Stuck : \A j \in Stuck : k <= j
    BY <2>1, LeastElement
  <2>3. k \in Nat /\ ~\E e : Until(k, e)
    BY <2>2
  <2>4. k # 0
    <3>1. Low(0) = {}
      OBVIOUS
    <3>2. Until(0, [v \in {} |-> 0])
      BY <3>1 DEF Until
    <3> QED
      BY <2>3, <3>2
  <2>5. k - 1 \in Nat /\ k - 1 \notin Stuck
    BY <2>2, <2>3, <2>4
  <2>6. PICK e : Until(k - 1, e)
    BY <2>5
  <2> DEFINE K == Low(k - 1)
             H == Low(k)
             g == [v \in H |-> Step(e, v)]
  <2>7. e = [v \in K |-> Step(e, v)]
    BY <2>6 DEF Until
  <2>8. /\ K \subseteq H /\ H \subseteq C
        /\ \A v \in H : v \in D => next[v] \in K
    <3>1. ASSUME NEW v \in H, v \in D PROVE next[v] \in K
      <4>1. rank[next[v]] < rank[v] /\ rank[v] < k /\ next[v] \in C
        BY <3>1
      <4>2. rank[next[v]] \in Nat /\ rank[v] \in Nat
        BY <3>1
      <4> QED
        BY <2>3, <4>1, <4>2
    <3>2. K \subseteq H
      BY <2>3
    <3> QED
      BY <3>1, <3>2
  <2> HIDE DEF K, H
  <2>9. \A v \in K : g[v] = e[v]
    BY <2>7, <2>8
  <2>10. g = [v \in H |-> Step(g, v)]
    <3>1. \A v \in H : Step(g, v) = Step(e, v)
      BY <2>8, <2>9
    <3> QED
      BY <3>1
  <2>11. Until(k, g)
    <3> HIDE DEF g
    <3> QED
      BY <2>10 DEF Until, H
  <2> QED
    BY <2>3, <2>11
<1>2. \E k \in Nat : Low(k) = C
  <2>1. Low(N + 1) = C /\ N + 1 \in Nat
    OBVIOUS
  <2> HIDE DEF Low
  <2> QED
    BY <2>1
<1>3. \E e : e = [v \in C |-> Step(e, v)]
  <2>1. PICK k \in Nat : Low(k) = C
    BY <1>2
  <2>2. PICK e : Until(k, e)
    BY <1>1, <2>1
  <2>3. e = [v \in Low(k) |-> Step(e, v)]
    BY <2>2
  <2> QED
    BY <2>1, <2>3
<1>4. PICK e : e = [v \in C |-> Step(e, v)]
  BY <1>3
<1> DEFINE T == {v \in C : e[v] \in L}
<1>5. \A v \in C : (\A w \in C : rank[w] < rank[v] => w \in T) => v \in T
  BY <1>4
<1>6. C \subseteq T
  <2>1. rank \in [C -> Nat]
    OBVIOUS
  <2> HIDE DEF T
  <2> QED
    BY <1>5, <2>1, RankInduction
<1>7. e \in [C -> L]
  BY <1>4, <1>6
<1>8. \A v \in C : e[v] = Step(e, v)
  BY <1>4
<1> QED
  BY <1>7, <1>8
-----------------------------------------------------------------------------
(* The sorted list.                                                        *)
LEMMA CommandTyped ==
  ASSUME Typed
  PROVE  /\ Len(command) \in Nat /\ Created = 1..Len(command)
         /\ \A u \in Created : command[u] \in Use /\ command[u].place \in Seq(Int)
         /\ MaxCommands \in Nat /\ Created \subseteq Id /\ Created \subseteq Nat
<1>1. command \in Seq(Use) /\ Len(command) <= MaxCommands /\ MaxCommands \in Nat
  BY Sizes DEF Typed
<1>2. \A u \in Created : command[u] \in Use
  BY <1>1 DEF Created
<1>3. Created = 1..Len(command) /\ Len(command) \in Nat
  BY <1>1 DEF Created
<1>4. \A u \in Created : command[u].place \in Seq(Int)
  BY <1>2 DEF Use
<1>5. Created \subseteq Id /\ Created \subseteq Nat
  BY <1>1, <1>3 DEF Id
<1> QED
  BY <1>1, <1>2, <1>3, <1>4, <1>5

LEMMA SpotTyped ==
  ASSUME Typed, ListInv
  PROVE  /\ \A u \in Created : Spot(u) = command[u].place /\ Spot(u) \in Seq(Int) /\ u > 0
         /\ \A x \in ToSet(commands) :
              /\ x \in Int /\ x # 0 /\ Spot(x) \in Seq(Int)
              /\ x > 0 => x \in Created
              /\ ~(x > 0) => -x \in Created /\ Kind(-x) = "split" /\ ~IsThunk(x)
<1>1. \A u \in Created : u \in Nat /\ u > 0 /\ command[u].place \in Seq(Int)
  BY CommandTyped
<1>2. \A u \in Created : Spot(u) = command[u].place /\ Spot(u) \in Seq(Int) /\ u > 0
  BY <1>1 DEF Spot
<1>3. ASSUME NEW x \in ToSet(commands)
      PROVE  /\ x \in Int /\ x # 0 /\ Spot(x) \in Seq(Int)
             /\ x > 0 => x \in Created
             /\ ~(x > 0) => -x \in Created /\ Kind(-x) = "split" /\ ~IsThunk(x)
  <2>1. x \in Int
    <3>1. commands \in Seq(Int)
      BY DEF Typed
    <3> QED
      BY <1>3, <3>1 DEF ToSet
  <2>2. x \in Created \/ (-x \in Created /\ Kind(-x) = "split")
    BY DEF ListInv
  <2>3. CASE x \in Created
    BY <1>1, <1>2, <2>1, <2>3
  <2>4. CASE x \notin Created
    <3>1. -x \in Created /\ Kind(-x) = "split" /\ ~(x > 0) /\ x # 0
      BY <1>1, <2>1, <2>2, <2>4
    <3>2. Spot(x) \in Seq(Int)
      BY <1>1, <2>1, <3>1 DEF Spot
    <3> QED
      BY <2>1, <2>4, <3>1, <3>2 DEF IsThunk
  <2> QED
    BY <2>3, <2>4
<1> QED
  BY <1>2, <1>3

Layer(flat, s) ==
  FlattenSeq([i \in DOMAIN section[s] |->
    IF section[s][i].what = "fork" THEN flat[section[s][i].id]
    ELSE IF IsThunk(section[s][i].id) THEN <<>> ELSE <<section[s][i].id>>])

Flat == CHOOSE flat : flat = [s \in DOMAIN section |-> Layer(flat, s)]

LEMMA FilteredIsFlat == Filtered = Flat[Root]
BY DEF Filtered, Flat, Layer

LEMMA SectionsBounded ==
  ASSUME Typed, ForksInv
  PROVE  \A s \in DOMAIN section : s \in 0..MaxCommands /\ (s # Root => s \in Created)
<1> SUFFICES ASSUME NEW s \in DOMAIN section PROVE s \in 0..MaxCommands /\ (s # Root => s \in Created)
  OBVIOUS
<1>1. s = Root \/ IsThunk(s)
  BY DEF ForksInv
<1>2. CASE s = Root
  BY <1>2, CommandTyped DEF Root
<1>3. CASE IsThunk(s)
  BY <1>3, CommandTyped DEF IsThunk, Id
<1> QED
  BY <1>1, <1>2, <1>3

LEMMA FlatExists ==
  ASSUME Typed, ForksInv
  PROVE  Flat = [s \in DOMAIN section |-> Layer(Flat, s)]
<1> DEFINE M == MaxCommands
           Low(k) == {s \in DOMAIN section : M - s < k}
           Until(k, e) == e = [s \in Low(k) |-> Layer(e, s)]
           Stuck == {k \in Nat : ~\E e : Until(k, e)}
<1>1. M \in Nat /\ \A s \in DOMAIN section : s \in Nat /\ s <= M
  BY CommandTyped, SectionsBounded
<1> HIDE DEF M
<1>2. Stuck = {}
  <2>1. SUFFICES ASSUME Stuck # {} PROVE FALSE
    OBVIOUS
  <2> HIDE DEF Until
  <2>2. PICK k \in Stuck : \A j \in Stuck : k <= j
    BY <2>1, LeastElement
  <2>3. k \in Nat /\ ~\E e : Until(k, e)
    BY <2>2
  <2>4. k # 0
    <3>1. Low(0) = {}
      BY <1>1
    <3>2. Until(0, [v \in {} |-> 0])
      BY <3>1 DEF Until
    <3> QED
      BY <2>3, <3>2
  <2>5. k - 1 \in Nat /\ k - 1 \notin Stuck
    BY <2>2, <2>3, <2>4
  <2>6. PICK e : Until(k - 1, e)
    BY <2>5
  <2> DEFINE L == Low(k - 1)
             H == Low(k)
             g == [s \in H |-> Layer(e, s)]
  <2>7. e = [s \in L |-> Layer(e, s)]
    BY <2>6 DEF Until
  <2>8. L \subseteq H /\ H \subseteq DOMAIN section
    BY <1>1, <2>3
  <2>9. ASSUME NEW s \in H, NEW i \in DOMAIN section[s], section[s][i].what = "fork"
        PROVE  section[s][i].id \in L
    <3>1. section[s][i] \in ToSet(section[s]) /\ s \in DOMAIN section
      BY <2>8, <2>9 DEF ToSet
    <3>2. section[s][i].id \in DOMAIN section /\ s < section[s][i].id
      BY <2>9, <3>1 DEF ForksInv
    <3> QED
      BY <1>1, <2>3, <3>1, <3>2
  <2> HIDE DEF L, H
  <2>10. \A s \in L : g[s] = e[s]
    BY <2>7, <2>8
  <2> HIDE DEF g
  <2>11. ASSUME NEW s \in H PROVE Layer(g, s) = Layer(e, s)
    BY <2>9, <2>10, <2>11 DEF Layer
  <2>12. g = [s \in H |-> Layer(g, s)]
    BY <2>11 DEF g
  <2>13. Until(k, g)
    BY <2>12 DEF Until, H
  <2> QED
    BY <2>3, <2>13
<1>3. Low(M + 1) = DOMAIN section /\ M + 1 \in Nat
  BY <1>1
<1>4. \E e : Until(M + 1, e)
  <2> HIDE DEF Until
  <2> QED
    BY <1>2, <1>3
<1>5. PICK e : e = [s \in DOMAIN section |-> Layer(e, s)]
  BY <1>3, <1>4
<1> QED
  BY <1>5 DEF Flat

InOrder == {p \in Int \X Int : Follows(p[1], p[2])}

SortedFrom(s) ==
  /\ Flat[s] \in Seq(Int) /\ Sorted(Flat[s], InOrder)
  /\ \A x \in ToSet(Flat[s]) : x \in ToSet(commands) /\ ~IsThunk(x) /\ Under(Base(s), Spot(x))
  /\ \A e \in ToSet(section[s]) :
       IF e.what = "fork" THEN ToSet(Flat[e.id]) \subseteq ToSet(Flat[s])
       ELSE IsThunk(e.id) \/ e.id \in ToSet(Flat[s])

(* What an entry of a section stands for: itself, or what its fork has.    *)
Part(e) == IF e.what = "fork" THEN Flat[e.id] ELSE IF IsThunk(e.id) THEN <<>> ELSE <<e.id>>

PartFits(e) ==
  /\ Part(e) \in Seq(Int) /\ Sorted(Part(e), InOrder)
  /\ \A x \in ToSet(Part(e)) :
       /\ x \in ToSet(commands) /\ ~IsThunk(x) /\ Live(e)
       /\ IF e.what = "fork" THEN Under(Spot(e.id), Spot(x)) ELSE x = e.id

LEMMA EntryTyped ==
  ASSUME Typed, ListInv, ForksInv, NEW s \in DOMAIN section, NEW e \in ToSet(section[s])
  PROVE  /\ e.id \in ToSet(commands) /\ e.id \in Int /\ e.id # 0 /\ Spot(e.id) \in Seq(Int)
         /\ e.what = "fork" =>
              /\ e.id \in DOMAIN section /\ s < e.id /\ e.id # Root /\ e.id \in Created
              /\ IsThunk(e.id) /\ Base(e.id) = Spot(e.id)
<1>1. IF e.what = "fork" THEN e.id \in DOMAIN section /\ s < e.id ELSE e.id \in ToSet(commands)
  BY DEF ForksInv
<1>2. s \in Nat
  BY SectionsBounded
<1>3. CASE e.what = "fork"
  <2>1. e.id \in DOMAIN section /\ s < e.id /\ e.id \in Nat
    BY <1>1, <1>3, SectionsBounded
  <2>2. e.id # Root /\ e.id > 0
    BY <1>2, <2>1 DEF Root
  <2>3. e.id \in ToSet(commands) /\ IsThunk(e.id) /\ e.id \in Created
    BY <2>1, <2>2, SectionsBounded DEF ForksInv
  <2>4. Base(e.id) = Spot(e.id)
    BY <2>2 DEF Base, Spot
  <2> QED
    BY <2>1, <2>2, <2>3, <2>4, SpotTyped
<1>4. CASE e.what # "fork"
  BY <1>1, <1>4, SpotTyped
<1> QED
  BY <1>3, <1>4

LEMMA PartSorted ==
  ASSUME Typed, ListInv, ForksInv, NEW s \in DOMAIN section, NEW e \in ToSet(section[s]),
         \A f \in DOMAIN section : s < f => SortedFrom(f)
  PROVE  PartFits(e)
<1>1. CASE e.what = "fork"
  <2>1. /\ e.id \in DOMAIN section /\ s < e.id /\ Base(e.id) = Spot(e.id)
    BY <1>1, EntryTyped
  <2>2. SortedFrom(e.id) /\ Part(e) = Flat[e.id]
    BY <1>1, <2>1 DEF Part
  <2> QED
    BY <1>1, <2>1, <2>2 DEF PartFits, SortedFrom, Live
<1>2. CASE e.what # "fork" /\ IsThunk(e.id)
  <2>1. PICK p : p = Part(e)
    OBVIOUS
  <2>2. p = <<>>
    BY <1>2, <2>1 DEF Part
  <2>3. p \in Seq(Int) /\ Sorted(p, InOrder) /\ ToSet(p) = {}
    BY <2>2 DEF Sorted, ToSet
  <2> QED
    BY <2>1, <2>3 DEF PartFits
<1>3. CASE e.what # "fork" /\ ~IsThunk(e.id)
  <2>1. PICK p, x : p = Part(e) /\ x = e.id
    OBVIOUS
  <2>2. p = <<x>> /\ x \in Int /\ x \in ToSet(commands) /\ ~IsThunk(x)
    BY <1>3, <2>1, EntryTyped DEF Part
  <2>3. p \in Seq(Int) /\ DOMAIN p = {1} /\ p[1] = x
    BY <2>2
  <2>4. Sorted(p, InOrder) /\ ToSet(p) = {x}
    BY <2>3 DEF Sorted, ToSet
  <2> QED
    BY <1>3, <2>1, <2>2, <2>3, <2>4 DEF PartFits, Live
<1> QED
  BY <1>1, <1>2, <1>3

LEMMA PartsInOrder ==
  ASSUME Typed, ListInv, ForksInv, NEW s \in DOMAIN section,
         NEW d \in ToSet(section[s]), NEW e \in ToSet(section[s]),
         PartFits(d), PartFits(e), InLine(d, e), NEW x \in ToSet(Part(d)), NEW y \in ToSet(Part(e))
  PROVE  <<x, y>> \in InOrder
<1>1. /\ x \in ToSet(commands) /\ Live(d) /\ y \in ToSet(commands) /\ Live(e)
      /\ IF d.what = "fork" THEN Under(Spot(d.id), Spot(x)) ELSE x = d.id
      /\ IF e.what = "fork" THEN Under(Spot(e.id), Spot(y)) ELSE y = e.id
  BY DEF PartFits
<1>2. Follows(d.id, e.id)
  BY <1>1 DEF InLine
<1>3. /\ d.id \in Int /\ d.id # 0 /\ Spot(d.id) \in Seq(Int) /\ d.id \in ToSet(commands)
      /\ e.id \in Int /\ e.id # 0 /\ Spot(e.id) \in Seq(Int) /\ e.id \in ToSet(commands)
      /\ x \in Int /\ Spot(x) \in Seq(Int) /\ y \in Int /\ Spot(y) \in Seq(Int)
  BY <1>1, EntryTyped, SpotTyped
<1>4. Above(Spot(d.id), Spot(x)) /\ Above(Spot(e.id), Spot(y))
  BY <1>1, <1>3, AboveItself
<1>5. CASE Before(Spot(d.id), Spot(e.id))
  <2>1. Before(Spot(x), Spot(y))
    BY <1>3, <1>4, <1>5, BeforeBelow
  <2> QED
    BY <1>3, <2>1 DEF InOrder, Follows
<1>6. CASE e.id > 0 /\ d.id = -e.id
  <2>1. ~(d.id > 0) /\ -d.id = e.id
    BY <1>3, <1>6
  <2>2. Kind(-d.id) = "split"
    BY <1>3, <2>1, SpotTyped
  <2>3. ~IsThunk(e.id)
    BY <2>1, <2>2 DEF IsThunk
  <2>4. e.what # "fork"
    BY <2>3, EntryTyped
  <2>5. d.what # "fork"
    <3>1. d.what = "fork" => d.id \in Created
      BY EntryTyped
    <3> QED
      BY <2>1, <3>1, CommandTyped
  <2> QED
    BY <1>1, <1>2, <1>3, <2>4, <2>5 DEF InOrder
<1> QED
  BY <1>2, <1>5, <1>6 DEF Follows

(* Each section is sorted if the forks in it are.                          *)
LEMMA LayerSorted ==
  ASSUME Typed, ListInv, PlacesInv, ForksInv, OrderInv, NEW s \in DOMAIN section,
         \A f \in DOMAIN section : s < f => SortedFrom(f)
  PROVE  SortedFrom(s)
<1>1. PICK sec : sec = section[s]
  OBVIOUS
<1>2. sec \in Seq(Entry)
  BY <1>1 DEF Typed
<1>3. PICK n \in Nat : n = Len(sec) /\ DOMAIN sec = 1..n
  BY <1>2
<1>4. PICK seqs : seqs = [i \in 1..n |-> Part(sec[i])]
  OBVIOUS
<1>5. Flat[s] = FlattenSeq(seqs)
  <2>1. Flat[s] = Layer(Flat, s)
    BY FlatExists
  <2> QED
    BY <1>1, <1>3, <1>4, <2>1 DEF Layer, Part
<1>6. \A i \in 1..n : sec[i] \in ToSet(section[s]) /\ PartFits(sec[i])
  <2>1. \A i \in 1..n : sec[i] \in ToSet(section[s])
    BY <1>1, <1>3 DEF ToSet
  <2> QED
    BY <2>1, PartSorted
<1>7. PICK S : S = Int
  OBVIOUS
<1>8. seqs \in Seq(Seq(S)) /\ DOMAIN seqs = 1..n /\ \A i \in 1..n : seqs[i] = Part(sec[i])
  <2>1. \A i \in 1..n : Part(sec[i]) \in Seq(S)
    BY <1>6, <1>7 DEF PartFits
  <2>2. seqs \in [1..n -> Seq(S)]
    BY <1>4, <2>1
  <2> QED
    BY <1>4, <2>2
<1>9. \A i \in DOMAIN seqs : Sorted(seqs[i], InOrder)
  BY <1>6, <1>8 DEF PartFits
<1>10. ASSUME NEW i \in 1..n, NEW j \in 1..n, i < j,
              NEW x \in ToSet(seqs[i]), NEW y \in ToSet(seqs[j])
       PROVE  <<x, y>> \in InOrder
  <2>1. InLine(sec[i], sec[j])
    BY <1>1, <1>3, <1>10 DEF OrderInv
  <2> QED
    BY <1>6, <1>8, <1>10, <2>1, PartsInOrder
<1>11. /\ Flat[s] \in Seq(S) /\ Sorted(Flat[s], InOrder)
       /\ ToSet(Flat[s]) = UNION {ToSet(seqs[i]) : i \in 1..n}
  <2>1. \A i, j \in DOMAIN seqs : i < j =>
           \A x \in ToSet(seqs[i]), y \in ToSet(seqs[j]) : <<x, y>> \in InOrder
    BY <1>8, <1>10
  <2>2. PICK R : R = InOrder
    OBVIOUS
  <2>3. /\ FlattenSeq(seqs) \in Seq(S) /\ Sorted(FlattenSeq(seqs), R)
        /\ ToSet(FlattenSeq(seqs)) = UNION {ToSet(seqs[i]) : i \in DOMAIN seqs}
    BY <1>8, <1>9, <2>1, <2>2, FlattenSorted
  <2> QED
    BY <1>5, <1>8, <2>2, <2>3
<1>12. ASSUME NEW x \in ToSet(Flat[s])
       PROVE  x \in ToSet(commands) /\ ~IsThunk(x) /\ Under(Base(s), Spot(x))
  <2>1. PICK i \in 1..n : x \in ToSet(Part(sec[i]))
    BY <1>8, <1>11
  <2>2. PICK e : e = sec[i]
    OBVIOUS
  <2>3. /\ x \in ToSet(commands) /\ ~IsThunk(x)
        /\ IF e.what = "fork" THEN Under(Spot(e.id), Spot(x)) ELSE x = e.id
    BY <1>6, <2>1, <2>2 DEF PartFits
  <2>4. Under(Base(s), Spot(e.id))
    BY <1>1, <1>3, <2>2 DEF OrderInv, Within
  <2>5. Base(s) \in Seq(Int)
    BY SectionsBounded, CommandTyped DEF Base
  <2>6. Spot(e.id) \in Seq(Int) /\ Spot(x) \in Seq(Int)
    BY <1>6, <2>2, <2>3, EntryTyped, SpotTyped
  <2> QED
    BY <2>3, <2>4, <2>5, <2>6, UnderTransitive
<1>13. ASSUME NEW e \in ToSet(section[s])
       PROVE  IF e.what = "fork" THEN ToSet(Flat[e.id]) \subseteq ToSet(Flat[s])
              ELSE IsThunk(e.id) \/ e.id \in ToSet(Flat[s])
  <2>1. PICK i \in 1..n : e = sec[i]
    BY <1>1, <1>3 DEF ToSet
  <2>2. ToSet(Part(e)) \subseteq ToSet(Flat[s])
    BY <1>8, <1>11, <2>1
  <2>3. CASE e.what = "fork"
    BY <2>2, <2>3 DEF Part
  <2>4. CASE e.what # "fork" /\ ~IsThunk(e.id)
    <3>1. e.id \in ToSet(<<e.id>>)
      BY DEF ToSet
    <3> QED
      BY <2>2, <2>4, <3>1 DEF Part
  <2> QED
    BY <2>3, <2>4
<1> QED
  BY <1>7, <1>11, <1>12, <1>13 DEF SortedFrom

LEMMA FlatSorted ==
  ASSUME Typed, ListInv, PlacesInv, ForksInv, OrderInv
  PROVE  \A s \in DOMAIN section : SortedFrom(s)
<1> DEFINE rank == [s \in DOMAIN section |-> MaxCommands - s]
           T == {s \in DOMAIN section : SortedFrom(s)}
<1>1. /\ MaxCommands \in Nat
      /\ \A s \in DOMAIN section : s \in 0..MaxCommands
  BY SectionsBounded, CommandTyped
<1>2. rank \in [DOMAIN section -> Nat]
  BY <1>1
<1>3. ASSUME NEW s \in DOMAIN section, \A f \in DOMAIN section : rank[f] < rank[s] => f \in T
      PROVE  s \in T
  <2>1. \A f \in DOMAIN section : s < f => rank[f] < rank[s]
    BY <1>1
  <2>2. \A f \in DOMAIN section : s < f => SortedFrom(f)
    BY <1>3, <2>1
  <2> QED
    BY <2>2, LayerSorted
<1> HIDE DEF rank, T
<1>4. DOMAIN section \subseteq T
  BY <1>2, <1>3, RankInduction
<1> QED
  BY <1>4 DEF T

LEMMA FilteredSorted ==
  ASSUME Typed, ListInv, PlacesInv, ForksInv, ListedInv, OrderInv
  PROVE  /\ Filtered \in Seq(Int) /\ Sorted(Filtered, InOrder)
         /\ ToSet(Filtered) = {x \in ToSet(commands) : ~IsThunk(x)}
<1>1. \A s \in DOMAIN section : SortedFrom(s)
  BY FlatSorted
<1>2. /\ Filtered \in Seq(Int) /\ Sorted(Filtered, InOrder)
      /\ \A x \in ToSet(Filtered) : x \in ToSet(commands) /\ ~IsThunk(x)
  BY <1>1, FilteredIsFlat DEF SortedFrom, Typed
<1> DEFINE T == {s \in DOMAIN section : ToSet(Flat[s]) \subseteq ToSet(Flat[Root])}
           rank == [s \in DOMAIN section |-> s]
<1>3. rank \in [DOMAIN section -> Nat]
  BY DEF Typed
<1>4. ASSUME NEW s \in DOMAIN section, \A r \in DOMAIN section : rank[r] < rank[s] => r \in T
      PROVE  s \in T
  <2>1. CASE s = Root
    BY <2>1
  <2>2. CASE s # Root
    <3>1. PICK r \in DOMAIN section : Item("fork", s) \in ToSet(section[r])
      BY <2>2 DEF ForksInv
    <3>2. r < s /\ ToSet(Flat[s]) \subseteq ToSet(Flat[r])
      <4>1. PICK e : e = Item("fork", s)
        OBVIOUS
      <4>2. e.what = "fork" /\ e.id = s /\ e \in ToSet(section[r])
        BY <3>1, <4>1 DEF Item
      <4> QED
        BY <1>1, <4>2 DEF ForksInv, SortedFrom
    <3> QED
      BY <1>4, <3>2
  <2> QED
    BY <2>1, <2>2
<1>5. DOMAIN section \subseteq T
  <2> HIDE DEF rank, T
  <2> QED
    BY <1>3, <1>4, RankInduction
<1>6. ASSUME NEW x \in ToSet(commands), ~IsThunk(x)
      PROVE  x \in ToSet(Filtered)
  <2>1. PICK s \in DOMAIN section : Item("command", x) \in ToSet(section[s])
    BY <1>6 DEF ListedInv
  <2>2. PICK e : e = Item("command", x)
    OBVIOUS
  <2>3. e.what # "fork" /\ e.id = x /\ e \in ToSet(section[s])
    BY <2>1, <2>2 DEF Item
  <2>4. x \in ToSet(Flat[s])
    BY <1>1, <1>6, <2>3 DEF SortedFrom
  <2> QED
    BY <1>5, <2>4, FilteredIsFlat
<1> QED
  BY <1>2, <1>6
-----------------------------------------------------------------------------
(* What results stand for.  A result is of a command that was added before *)
(* the thunk's own function ended, so that following them ends.            *)
Earlier(w, v) == Before(End(Spot(w)), End(Spot(v)))

LEMMA EndOf ==
  ASSUME NEW q \in Seq(Int)
  PROVE  /\ MaxCommands \in Nat /\ End(q) \in Seq(Int) /\ Len(End(q)) = Len(q) + 1
         /\ End(q)[Len(q) + 1] = MaxCommands + 1 /\ \A k \in 1..Len(q) : End(q)[k] = q[k]
<1>1. MaxCommands \in Nat
  BY Sizes
<1>2. PICK m : m = MaxCommands + 1 /\ m \in Int
  BY <1>1
<1>3. PICK e : e = Append(q, m)
  OBVIOUS
<1>4. e \in Seq(Int) /\ Len(e) = Len(q) + 1 /\ e[Len(q) + 1] = m /\ \A k \in 1..Len(q) : e[k] = q[k]
  BY <1>2, <1>3
<1>5. End(q) = e
  BY <1>2, <1>3 DEF End
<1> QED
  BY <1>1, <1>2, <1>4, <1>5

LEMMA EarlierOrder ==
  ASSUME Typed
  PROVE  /\ \A v \in Created : ~Earlier(v, v)
         /\ \A u, v, w \in Created : Earlier(u, v) /\ Earlier(v, w) => Earlier(u, w)
<1>1. \A v \in Created : End(Spot(v)) \in Seq(Int)
  <2>1. \A v \in Created : Spot(v) \in Seq(Int)
    BY CommandTyped DEF Spot
  <2> QED
    BY <2>1, EndOf
<1>2. \A v \in Created : ~Earlier(v, v)
  BY <1>1, BeforeIrreflexive DEF Earlier
<1>3. ASSUME NEW u \in Created, NEW v \in Created, NEW w \in Created, Earlier(u, v), Earlier(v, w)
      PROVE  Earlier(u, w)
  BY <1>1, <1>3, BeforeTransitive DEF Earlier
<1> QED
  BY <1>2, <1>3

LEMMA EarlierRanked ==
  ASSUME Typed
  PROVE  \E rank \in [Created -> 0..MaxCommands] : \A v, w \in Created : Earlier(w, v) => rank[w] < rank[v]
<1> DEFINE Low(v) == {w \in Created : Earlier(w, v)}
           rank == [v \in Created |-> Cardinality(Low(v))]
<1>1. PICK n : n = Len(command)
  OBVIOUS
<1>2. n \in Nat /\ Created = 1..n /\ n <= MaxCommands /\ MaxCommands \in Nat
  BY <1>1, CommandTyped DEF Typed
<1>3. IsFiniteSet(Created) /\ Cardinality(Created) <= MaxCommands /\ Cardinality(Created) \in Nat
  <2>1. IsFiniteSet(1..n) /\ Cardinality(1..n) = n
    <3>1. IsFiniteSet(1..n) /\ Cardinality(1..n) = IF 1 > n THEN 0 ELSE n - 1 + 1
      BY <1>2, FS_Interval
    <3> QED
      BY <1>2, <3>1
  <2> QED
    BY <1>2, <2>1
<1>4. ASSUME NEW v \in Created
      PROVE  Low(v) \subseteq Created /\ IsFiniteSet(Low(v)) /\ Cardinality(Low(v)) \in 0..MaxCommands
  <2>1. PICK L : L = Low(v)
    OBVIOUS
  <2>2. L \subseteq Created
    BY <2>1
  <2>3. IsFiniteSet(L) /\ Cardinality(L) <= Cardinality(Created)
    BY <1>3, <2>2, FS_Subset
  <2>4. Cardinality(L) \in Nat
    BY <2>3, FS_CardinalityType
  <2>5. Cardinality(L) \in 0..MaxCommands
    BY <1>2, <1>3, <2>3, <2>4
  <2> QED
    BY <2>1, <2>2, <2>3, <2>5
<1>5. ASSUME NEW v \in Created, NEW w \in Created, Earlier(w, v)
      PROVE  rank[w] < rank[v]
  <2>1. PICK L, H : L = Low(w) /\ H = Low(v)
    OBVIOUS
  <2>2. L \subseteq H /\ w \in H /\ w \notin L
    BY <1>5, <2>1, EarlierOrder
  <2>3. IsFiniteSet(H)
    BY <1>4, <2>1
  <2>4. Cardinality(L) < Cardinality(H)
    <3>1. L # H
      BY <2>2
    <3>2. IsFiniteSet(L) /\ Cardinality(L) <= Cardinality(H)
      BY <2>2, <2>3, FS_Subset
    <3>3. Cardinality(L) # Cardinality(H)
      BY <2>2, <2>3, <3>1, FS_Subset
    <3>4. Cardinality(L) \in Nat /\ Cardinality(H) \in Nat
      BY <2>3, <3>2, FS_CardinalityType
    <3> QED
      BY <3>2, <3>3, <3>4
  <2> QED
    BY <2>1, <2>4
<1>6. rank \in [Created -> 0..MaxCommands]
  BY <1>4
<1> HIDE DEF rank
<1> QED
  BY <1>5, <1>6

LEMMA EarlierInduction ==
  ASSUME Typed, NEW T, \A v \in Created : (\A w \in Created : Earlier(w, v) => w \in T) => v \in T
  PROVE  Created \subseteq T
<1>1. PICK rank \in [Created -> 0..MaxCommands] : \A v, w \in Created : Earlier(w, v) => rank[w] < rank[v]
  BY EarlierRanked
<1>2. rank \in [Created -> Nat]
  BY <1>1, CommandTyped
<1>3. ASSUME NEW v \in Created, \A w \in Created : rank[w] < rank[v] => w \in T
      PROVE  v \in T
  BY <1>1, <1>3
<1>4. PICK C : C = Created
  OBVIOUS
<1> QED
  BY <1>2, <1>3, <1>4, RankInduction

ResultsOrdered == \A f \in Created : Resolves(f) => result[f] \in Created /\ Earlier(result[f], f)

Gone(v) == IsThunk(v) /\ v \notin ToSet(commands) /\ Resolves(v)

LEMMA MeantEquation ==
  ASSUME Typed, ResultsOrdered
  PROVE  \A v \in Created : Meant(v) = IF Gone(v) THEN Meant(result[v]) ELSE v
<1> DEFINE D == {v \in Created : Gone(v)}
           next == [v \in D |-> result[v]]
           leaf == [v \in Created |-> v]
           meant == CHOOSE e : e = [v \in Created |-> IF IsThunk(v) /\ v \notin ToSet(commands) /\ Resolves(v)
                                                      THEN e[result[v]] ELSE v]
<1>1. PICK rank \in [Created -> 0..MaxCommands] : \A v, w \in Created : Earlier(w, v) => rank[w] < rank[v]
  BY EarlierRanked
<1>2. \A v \in D : result[v] \in Created /\ rank[result[v]] < rank[v]
  BY <1>1 DEF ResultsOrdered, Gone
<1>3. Chain(Created, D, next, Created, leaf, MaxCommands, rank)
  <2>1. next \in [D -> Created] /\ leaf \in [Created -> Created] /\ D \subseteq Created
    BY <1>2
  <2>2. \A v \in D : next[v] = result[v]
    OBVIOUS
  <2>3. MaxCommands \in Nat
    BY Sizes
  <2> HIDE DEF D, next, leaf
  <2> QED
    BY <1>1, <1>2, <2>1, <2>2, <2>3 DEF Chain
<1>4. PICK e \in [Created -> Created] : \A v \in Created : e[v] = IF v \in D THEN e[next[v]] ELSE leaf[v]
  <2> HIDE DEF D, next, leaf
  <2>1. PICK C : C = Created
    OBVIOUS
  <2> QED
    BY <1>3, <2>1, ChainEnds
<1>5. e = [v \in Created |-> IF IsThunk(v) /\ v \notin ToSet(commands) /\ Resolves(v)
                             THEN e[result[v]] ELSE v]
  <2>1. \A v \in Created : e[v] = IF Gone(v) THEN e[result[v]] ELSE v
    BY <1>4
  <2> QED
    BY <2>1 DEF Gone
<1>6. meant = [v \in Created |-> IF IsThunk(v) /\ v \notin ToSet(commands) /\ Resolves(v)
                                 THEN meant[result[v]] ELSE v]
  BY <1>5
<1>7. \A v : Meant(v) = meant[v]
  BY DEF Meant
<1> HIDE DEF meant
<1>8. \A v \in Created : meant[v] = IF Gone(v) THEN meant[result[v]] ELSE v
  BY <1>6 DEF Gone
<1> QED
  BY <1>7, <1>8

LEMMA MeantEnds ==
  ASSUME Typed, ResultsOrdered, \A f \in Created : Resolves(f) => Kind(result[f]) # "void"
  PROVE  \A v \in Created : /\ Meant(v) \in Created /\ ~Gone(Meant(v))
                            /\ Meant(v) = v \/ Earlier(Meant(v), v)
                            /\ Kind(v) # "void" => Kind(Meant(v)) # "void"
<1> DEFINE Ends(v) == /\ Meant(v) \in Created /\ ~Gone(Meant(v))
                      /\ Meant(v) = v \/ Earlier(Meant(v), v)
                      /\ Kind(v) # "void" => Kind(Meant(v)) # "void"
           T == {v \in Created : Ends(v)}
<1>1. ASSUME NEW v \in Created, \A w \in Created : Earlier(w, v) => w \in T
      PROVE  v \in T
  <2>1. CASE ~Gone(v)
    <3>1. Meant(v) = v
      BY <2>1, MeantEquation
    <3> QED
      BY <2>1, <3>1
  <2>2. CASE Gone(v)
    <3>1. PICK q : q = result[v]
      OBVIOUS
    <3>2. q \in Created /\ Earlier(q, v) /\ Kind(q) # "void" /\ Meant(v) = Meant(q)
      BY <2>2, <3>1, MeantEquation DEF ResultsOrdered, Gone
    <3>3. Ends(q)
      BY <1>1, <3>2
    <3>4. Earlier(Meant(q), v)
      <4>1. PICK m \in Created : m = Meant(q)
        BY <3>3
      <4>2. m = q \/ Earlier(m, q)
        BY <3>3, <4>1
      <4> QED
        BY <3>2, <4>1, <4>2, EarlierOrder
    <3> QED
      BY <3>2, <3>3, <3>4
  <2> QED
    BY <2>1, <2>2
<1> HIDE DEF T
<1>2. Created \subseteq T
  BY <1>1, EarlierInduction
<1> QED
  BY <1>2 DEF T

MeantOK ==
  \A v \in Created : /\ Meant(v) = IF Gone(v) THEN Meant(result[v]) ELSE v
                     /\ Gone(v) => result[v] \in Created /\ Earlier(result[v], v)
                     /\ Meant(v) \in Created /\ ~Gone(Meant(v))
                     /\ Meant(v) = v \/ Earlier(Meant(v), v)
                     /\ Kind(v) # "void" => Kind(Meant(v)) # "void"

LEMMA MeantCorrect == Typed /\ ResultInv => MeantOK
<1> SUFFICES ASSUME Typed, ResultInv PROVE MeantOK
  OBVIOUS
<1>1. ASSUME NEW f \in Created, Resolves(f)
      PROVE  result[f] \in Created /\ Earlier(result[f], f) /\ Kind(result[f]) # "void"
  <2>1. f \in Id /\ result[f] # None
    BY <1>1, CommandTyped DEF Resolves
  <2> QED
    BY <2>1 DEF ResultInv, Earlier, Typed
<1>2. ResultsOrdered
  BY <1>1 DEF ResultsOrdered
<1> QED
  BY <1>1, <1>2, MeantEquation, MeantEnds DEF MeantOK, Gone

(* Results that have not changed lead to where they led.                   *)
LEMMA MeantStays ==
  ASSUME Typed, ResultInv, Typed', ResultInv', Created \subseteq Created',
         \A v \in Created : ((Gone(v))' <=> Gone(v)) /\ (Gone(v) => result'[v] = result[v])
  PROVE  \A v \in Created : Meant(v)' = Meant(v)
<1>1. MeantOK
  BY MeantCorrect
<1>2. MeantOK'
  BY MeantCorrect, PTL
<1> DEFINE T == {v \in Created : Meant(v)' = Meant(v)}
<1>3. ASSUME NEW v \in Created, \A w \in Created : Earlier(w, v) => w \in T PROVE v \in T
  <2>1. v \in Created' /\ ((Gone(v))' <=> Gone(v)) /\ (Gone(v) => result'[v] = result[v])
    OBVIOUS
  <2>2. Meant(v) = IF Gone(v) THEN Meant(result[v]) ELSE v
    BY <1>1 DEF MeantOK
  <2>3. Meant(v)' = IF (Gone(v))' THEN Meant(result[v])' ELSE v
    BY <1>2, <2>1 DEF MeantOK
  <2>4. CASE Gone(v)
    <3>1. result[v] \in Created /\ Earlier(result[v], v)
      BY <1>1, <2>4 DEF MeantOK
    <3>2. PICK q \in Created : q = result[v]
      BY <3>1
    <3>3. Meant(q)' = Meant(q)
      BY <1>3, <3>1, <3>2
    <3>4. Meant(result[v])' = Meant(q)'
      <4>1. q = (result[v])'
        BY <2>1, <2>4, <3>2
      <4> QED
        BY <4>1
    <3> QED
      BY <2>1, <2>2, <2>3, <2>4, <3>2, <3>3, <3>4
  <2>5. CASE ~Gone(v)
    BY <2>1, <2>2, <2>3, <2>5
  <2> QED
    BY <2>4, <2>5
<1> HIDE DEF T
<1>4. Created \subseteq T
  BY <1>3, EarlierInduction
<1> QED
  BY <1>4 DEF T

LEMMA OriginalEquation ==
  ASSUME Typed, ResultInv, ReturnInv
  PROVE  \A j \in DOMAIN commands :
           Original(j) = IF IsThunk(commands[j]) /\ Resolves(commands[j])
                         THEN Original(handle[result[commands[j]]]) ELSE commands[j]
<1> DEFINE C == DOMAIN commands
           D == {j \in C : IsThunk(commands[j]) /\ Resolves(commands[j])}
           next == [j \in D |-> handle[result[commands[j]]]]
           leaf == [j \in C |-> commands[j]]
           original == CHOOSE e : e = [j \in C |-> IF IsThunk(commands[j]) /\ Resolves(commands[j])
                                                   THEN e[handle[result[commands[j]]]] ELSE commands[j]]
<1>1. PICK rank \in [Created -> 0..MaxCommands] : \A v, w \in Created : Earlier(w, v) => rank[w] < rank[v]
  BY EarlierRanked
<1> DEFINE low == [j \in C |-> IF commands[j] \in Created THEN rank[commands[j]] ELSE 0]
<1>2. ASSUME NEW j \in D
      PROVE  /\ handle[result[commands[j]]] \in C
             /\ commands[handle[result[commands[j]]]] \in Created /\ commands[j] \in Created
             /\ rank[commands[handle[result[commands[j]]]]] < rank[commands[j]]
  <2>1. PICK f : f = commands[j]
    OBVIOUS
  <2>2. f \in Created /\ f \in Id /\ f \in ToSet(commands) /\ result[f] # None
    <3>1. f \in Created /\ result[f] # None /\ f \in ToSet(commands)
      BY <2>1 DEF IsThunk, Resolves, ToSet
    <3> QED
      BY <3>1, CommandTyped
  <2>3. PICK q \in Created : q = result[f]
    BY <2>2 DEF Typed
  <2>4. PICK w \in Created : w = Meant(q) /\ (w = q \/ Earlier(w, q))
    BY <2>3, MeantCorrect DEF MeantOK
  <2>5. handle[q] \in C /\ commands[handle[q]] = w
    BY <2>2, <2>3, <2>4 DEF ReturnInv
  <2>6. Earlier(q, f)
    BY <2>2, <2>3 DEF ResultInv, Earlier
  <2>7. rank[w] < rank[f]
    <3>1. Earlier(w, f)
      BY <2>2, <2>4, <2>6, EarlierOrder
    <3> QED
      BY <1>1, <2>2, <3>1
  <2> QED
    BY <2>1, <2>2, <2>3, <2>5, <2>7
<1>3. MaxCommands \in Nat
  BY Sizes
<1>4. \A j \in C : commands[j] \in Int
  BY DEF Typed
<1>5. Chain(C, D, next, Int, leaf, MaxCommands, low)
  <2>1. next \in [D -> C] /\ D \subseteq C
    BY <1>2
  <2>2. leaf \in [C -> Int]
    BY <1>4
  <2>3. \A j \in C : low[j] \in 0..MaxCommands
    BY <1>1, <1>3
  <2>4. low \in [C -> 0..MaxCommands]
    BY <2>3
  <2>5. ASSUME NEW j \in D PROVE low[next[j]] < low[j]
    <3>1. PICK k \in C : k = next[j] /\ k = handle[result[commands[j]]]
      BY <1>2
    <3>2. low[k] = rank[commands[k]]
      BY <1>2, <3>1
    <3>3. low[j] = rank[commands[j]]
      BY <1>2
    <3> QED
      BY <1>2, <3>1, <3>2, <3>3
  <2> HIDE DEF C, D, next, leaf, low
  <2> QED
    BY <1>3, <2>1, <2>2, <2>4, <2>5 DEF Chain
<1>6. PICK e : /\ e \in [C -> Int]
               /\ \A j \in C : e[j] = IF j \in D THEN e[next[j]] ELSE leaf[j]
  <2> HIDE DEF C, D, next, leaf, low
  <2>1. PICK L : L = Int
    OBVIOUS
  <2> QED
    BY <1>5, <2>1, ChainEnds
<1>7. e = [j \in C |-> IF IsThunk(commands[j]) /\ Resolves(commands[j])
                       THEN e[handle[result[commands[j]]]] ELSE commands[j]]
  <2>1. ASSUME NEW j \in C
        PROVE  e[j] = IF IsThunk(commands[j]) /\ Resolves(commands[j])
                      THEN e[handle[result[commands[j]]]] ELSE commands[j]
    <3>1. CASE j \in D
      <4>1. next[j] = handle[result[commands[j]]]
        BY <3>1
      <4> QED
        BY <1>6, <3>1, <4>1
    <3>2. CASE j \notin D
      <4>1. leaf[j] = commands[j]
        OBVIOUS
      <4> QED
        BY <1>6, <3>2, <4>1
    <3> QED
      BY <3>1, <3>2
  <2> HIDE DEF D, next, leaf, low
  <2> QED
    BY <1>6, <2>1
<1>8. original = [j \in C |-> IF IsThunk(commands[j]) /\ Resolves(commands[j])
                              THEN original[handle[result[commands[j]]]] ELSE commands[j]]
  BY <1>7
<1>9. \A i : Original(i) = original[i]
  BY DEF Original
<1> HIDE DEF original
<1>10. \A j \in C : original[j] = IF IsThunk(commands[j]) /\ Resolves(commands[j])
                                  THEN original[handle[result[commands[j]]]] ELSE commands[j]
  BY <1>8
<1> QED
  BY <1>9, <1>10

LEMMA IndexFound ==
  ASSUME NEW S, NEW s \in Seq(S), NEW u \in ToSet(s)
  PROVE  IndexIn(s, u) \in DOMAIN s /\ s[IndexIn(s, u)] = u
<1> DEFINE T == {i \in DOMAIN s : s[i] = u}
<1>1. T \subseteq Nat /\ T # {}
  BY DEF ToSet
<1>2. PICK i \in T : \A j \in T : i <= j
  BY <1>1, LeastElement
<1>3. \A j \in 1..(i - 1) : s[j] # u
  <2> SUFFICES ASSUME NEW j \in 1..(i - 1), s[j] = u PROVE FALSE
    OBVIOUS
  <2>1. i \in 1..Len(s) /\ Len(s) \in Nat /\ DOMAIN s = 1..Len(s)
    BY <1>2
  <2>2. j \in T /\ ~(i <= j)
    BY <2>1
  <2> QED
    BY <1>2, <2>2
<1> QED
  BY <1>2, <1>3 DEF IndexIn

LEMMA InitInv == Init => Inv
<1> SUFFICES ASSUME Init PROVE Inv
  OBVIOUS
<1>1. /\ commands = <<>> /\ command = <<>> /\ section = [s \in {Root} |-> <<>>]
      /\ aliased = FALSE /\ available = [s \in {Root} |-> {}] /\ handle = <<>> /\ held = {}
      /\ pending = {} /\ result = [u \in Id |-> None] /\ rejected = FALSE /\ phase = "open"
  BY DEF Init
<1>2. /\ Created = {} /\ Len(command) = 0 /\ Len(handle) = 0 /\ ToSet(commands) = {}
      /\ DOMAIN commands = {} /\ DOMAIN section = {Root} /\ DOMAIN section[Root] = {}
      /\ ToSet(section[Root]) = {}
  BY <1>1 DEF Created, ToSet
<1>3. Typed
  <2>1. commands \in Seq(Int) /\ command \in Seq(Use) /\ handle \in Seq(Nat)
    BY <1>1
  <2>2. 0 <= MaxCommands
    BY Sizes
  <2>3. section \in [DOMAIN section -> Seq(Entry)] /\ available \in [DOMAIN section -> SUBSET Nat]
    BY <1>1
  <2> QED
    BY <1>1, <1>2, <2>1, <2>2, <2>3 DEF Typed, Root
<1>4. PlacesInv /\ ListInv /\ MeansInv
  BY <1>2 DEF PlacesInv, ListInv, MeansInv
<1>5. ForksInv /\ OrderInv
  BY <1>2 DEF ForksInv, OrderInv
<1>6. ListedInv
  <2>1. section[Root] = Items(commands)
    BY <1>1 DEF Items
  <2> QED
    BY <1>2, <2>1 DEF ListedInv
<1>7. PhaseInv /\ HeldInv /\ AvailableInv
  BY <1>1 DEF PhaseInv, HeldInv, AvailableInv
<1>8. ResultInv /\ ReturnInv
  BY <1>1, <1>2 DEF ResultInv, ReturnInv
<1>9. ArgumentsFollow
  BY <1>2 DEF ArgumentsFollow
<1> QED
  BY <1>3, <1>4, <1>5, <1>6, <1>7, <1>8, <1>9 DEF Inv
-----------------------------------------------------------------------------
(* A transaction without thunks, whose section lists what its list does.   *)
Plain ==
  /\ Typed /\ PlacesInv /\ ListInv /\ section = [s \in {Root} |-> Items(commands)]
  /\ \A x \in ToSet(commands) : ~IsThunk(x)
  /\ \A i, j \in DOMAIN commands : i < j => Follows(commands[i], commands[j])

LEMMA PlainSection == Plain => ForksInv /\ ListedInv /\ OrderInv
<1> SUFFICES ASSUME Plain PROVE ForksInv /\ ListedInv /\ OrderInv
  OBVIOUS
<1>1. /\ DOMAIN section = {Root} /\ section[Root] = Items(commands) /\ commands \in Seq(Int)
      /\ \A x \in ToSet(commands) : ~IsThunk(x)
  BY DEF Plain, Typed
<1>2. /\ DOMAIN section[Root] = DOMAIN commands
      /\ \A i \in DOMAIN commands : /\ section[Root][i] = Item("command", commands[i])
                                    /\ section[Root][i].what = "command"
                                    /\ section[Root][i].id = commands[i]
                                    /\ commands[i] \in ToSet(commands)
  BY <1>1 DEF Items, Item, ToSet
<1>3. ForksInv
  <2>1. DOMAIN section = {Root} \cup {u \in ToSet(commands) : IsThunk(u)}
    BY <1>1
  <2>2. ASSUME NEW s \in DOMAIN section, NEW e \in ToSet(section[s])
        PROVE  e.what # "fork" /\ e.id \in ToSet(commands)
    BY <1>1, <1>2 DEF ToSet
  <2> QED
    BY <1>1, <2>1, <2>2 DEF ForksInv
<1>4. ListedInv
  <2>1. ASSUME NEW x \in ToSet(commands)
        PROVE  Item("command", x) \in ToSet(section[Root])
    BY <1>2 DEF ToSet
  <2> QED
    BY <1>1, <2>1 DEF ListedInv
<1>5. OrderInv
  <2>1. ASSUME NEW i \in DOMAIN commands
        PROVE  Within(Root, section[Root][i])
    <3>1. PICK x : x = commands[i]
      OBVIOUS
    <3>2. x \in ToSet(commands) /\ section[Root][i].id = x
      BY <1>2, <3>1
    <3>3. Len(Spot(x)) > 0
      <4>1. x \in Int /\ (x > 0 => x \in Created) /\ (~(x > 0) => -x \in Created)
        BY <3>2, SpotTyped DEF Plain
      <4>2. CASE x > 0
        BY <4>1, <4>2 DEF Plain, PlacesInv, Spot
      <4>3. CASE ~(x > 0)
        BY <4>1, <4>3 DEF Plain, PlacesInv, Spot
      <4> QED
        BY <4>2, <4>3
    <3>4. Len(Base(Root)) = 0
      BY DEF Base
    <3>5. Under(Base(Root), Spot(x))
      BY <3>3, <3>4 DEF Under
    <3> QED
      BY <3>2, <3>5 DEF Within
  <2>2. ASSUME NEW i \in DOMAIN commands, NEW j \in DOMAIN commands, i < j
        PROVE  InLine(section[Root][i], section[Root][j])
    BY <1>2, <2>2 DEF Plain, InLine
  <2> QED
    BY <1>1, <1>2, <2>1, <2>2 DEF OrderInv
<1> QED
  BY <1>3, <1>4, <1>5

(* What is sorted has every command once.                                  *)
LEMMA SortedOnce ==
  ASSUME NEW s \in Seq(Int), Sorted(s, InOrder), 0 \notin ToSet(s),
         \A x \in ToSet(s) : Spot(x) \in Seq(Int)
  PROVE  \A i, j \in DOMAIN s : s[i] = s[j] => i = j
<1> SUFFICES ASSUME NEW i \in DOMAIN s, NEW j \in DOMAIN s, s[i] = s[j], i < j PROVE FALSE
  OBVIOUS
<1>1. <<s[i], s[j]>> \in InOrder /\ s[i] \in ToSet(s)
  BY DEF Sorted, ToSet
<1>2. PICK x \in ToSet(s) : x = s[i] /\ x = s[j] /\ x \in Int
  BY <1>1
<1>3. Follows(x, x) /\ x # 0
  BY <1>1, <1>2 DEF InOrder
<1>4. ~Before(Spot(x), Spot(x))
  BY <1>2, BeforeIrreflexive
<1> QED
  BY <1>2, <1>3, <1>4 DEF Follows

(* The index that a thunk in the list returned leads to an earlier command. *)
LEMMA ReturnedTo ==
  ASSUME Inv, NEW v \in ToSet(commands), v \in Created, Resolves(v)
  PROVE  /\ result[v] \in Created /\ Kind(result[v]) # "void" /\ Earlier(result[v], v)
         /\ \E w \in Created : /\ w = Meant(result[v]) /\ Kind(w) # "void" /\ Kind(w) # "split"
                               /\ Earlier(w, v) /\ handle[result[v]] \in DOMAIN commands
                               /\ commands[handle[result[v]]] = w
<1>1. v \in Id /\ result[v] # None
  BY CommandTyped DEF Inv, Resolves
<1>2. PICK q \in Created : q = result[v]
  BY <1>1 DEF Inv, Typed
<1>3. Kind(q) # "void" /\ Earlier(q, v)
  BY <1>1, <1>2 DEF Inv, ResultInv, Earlier
<1>4. PICK w \in Created : w = Meant(q) /\ (w = q \/ Earlier(w, q)) /\ Kind(w) # "void"
  BY <1>2, <1>3, MeantCorrect DEF Inv, MeantOK
<1>5. Earlier(w, v)
  BY <1>2, <1>3, <1>4, EarlierOrder DEF Inv
<1>6. handle[q] \in DOMAIN commands /\ commands[handle[q]] = w /\ Kind(w) # "split"
  BY <1>1, <1>2, <1>4 DEF Inv, ReturnInv
<1> QED
  BY <1>2, <1>3, <1>4, <1>5, <1>6

(* When thunks have returned, what their results stand for is a command    *)
(* that the sorted list has, unless it is the result of one that returned  *)
(* nothing.                                                                *)
LEMMA OriginalFound ==
  ASSUME Inv, pending = {}, ~rejected
  PROVE  \A j \in DOMAIN commands : commands[j] \in Created /\ Kind(commands[j]) # "void" =>
           /\ Original(j) \in ToSet(commands) /\ Original(j) \in Created /\ ~IsThunk(Original(j))
           /\ Kind(commands[j]) # "split" => Kind(Original(j)) # "split"
           /\ ~IsThunk(commands[j]) => Original(j) = commands[j]
<1> DEFINE Found(j) ==
             /\ Original(j) \in ToSet(commands) /\ Original(j) \in Created /\ ~IsThunk(Original(j))
             /\ Kind(commands[j]) # "split" => Kind(Original(j)) # "split"
             /\ ~IsThunk(commands[j]) => Original(j) = commands[j]
           T == {v \in Created : \A j \in DOMAIN commands : commands[j] = v /\ Kind(v) # "void" => Found(j)}
<1>1. \A j \in DOMAIN commands :
        Original(j) = IF IsThunk(commands[j]) /\ Resolves(commands[j])
                      THEN Original(handle[result[commands[j]]]) ELSE commands[j]
  BY OriginalEquation DEF Inv
<1>2. ASSUME NEW v \in Created, \A w \in Created : Earlier(w, v) => w \in T
      PROVE  v \in T
  <2> SUFFICES ASSUME NEW j \in DOMAIN commands, commands[j] = v, Kind(v) # "void"
               PROVE  Found(j)
    OBVIOUS
  <2>1. v \in ToSet(commands)
    BY DEF ToSet
  <2>2. CASE ~IsThunk(v)
    BY <1>1, <2>1, <2>2
  <2>3. CASE IsThunk(v)
    <3>1. Resolves(v) /\ v \in Id
      <4>1. v \in DOMAIN section \ {Root}
        BY <2>1, <2>3, SpotTyped DEF Inv, ForksInv, Root
      <4> QED
        BY <4>1, CommandTyped DEF Inv, ResultInv, Resolves
    <3>2. PICK w \in Created : /\ w = Meant(result[v]) /\ Kind(w) # "void" /\ Kind(w) # "split"
                               /\ Earlier(w, v) /\ handle[result[v]] \in DOMAIN commands
                               /\ commands[handle[result[v]]] = w
      BY <2>1, <3>1, ReturnedTo
    <3>3. Found(handle[result[v]])
      BY <1>2, <3>2
    <3>4. Original(j) = Original(handle[result[v]])
      BY <1>1, <2>3, <3>1
    <3> QED
      BY <2>3, <3>2, <3>3, <3>4
  <2> QED
    BY <2>2, <2>3
<1> HIDE DEF T
<1>3. Created \subseteq T
  BY <1>2, EarlierInduction DEF Inv
<1> QED
  BY <1>3 DEF T

(* The thunks whose result is that of a command other than a thunk's.      *)
Placeholder(u) == u \in ToSet(commands) /\ IsThunk(u)

Direct(u) == Placeholder(u) /\ Resolves(u) /\ ~IsThunk(commands[handle[result[u]]])

(* The loop that gives the placeholders their new indices.                 *)
NumberStep(e, f, k) == IF k = 0 THEN handle ELSE Renumber(e[k - 1], k, f)

Numbers(f) == CHOOSE e : e = [k \in 0..Len(commands) |-> NumberStep(e, f, k)]

LEMMA NumbersExist ==
  ASSUME Typed, NEW f
  PROVE  /\ Renumbered(f) = Numbers(f)[Len(commands)]
         /\ \A k \in 0..Len(commands) : Numbers(f)[k] = NumberStep(Numbers(f), f, k)
<1> DEFINE Step(e, k) == NumberStep(e, f, k)
<1>1. PICK M : M = Len(commands)
  OBVIOUS
<1>2. M \in Nat
  BY <1>1 DEF Typed
<1> DEFINE Low(k) == {j \in 0..M : j < k}
           Until(k, e) == e = [j \in Low(k) |-> Step(e, j)]
           Stuck == {k \in Nat : ~\E e : Until(k, e)}
<1>3. Stuck = {}
  <2>1. SUFFICES ASSUME Stuck # {} PROVE FALSE
    OBVIOUS
  <2> HIDE DEF Until
  <2>2. PICK k \in Stuck : \A j \in Stuck : k <= j
    BY <2>1, LeastElement
  <2>3. k \in Nat /\ ~\E e : Until(k, e)
    BY <2>2
  <2>4. k # 0
    <3>1. Low(0) = {}
      OBVIOUS
    <3>2. Until(0, [j \in {} |-> 0])
      BY <3>1 DEF Until
    <3> QED
      BY <2>3, <3>2
  <2>5. k - 1 \in Nat /\ k - 1 \notin Stuck
    BY <2>2, <2>3, <2>4
  <2>6. PICK e : Until(k - 1, e)
    BY <2>5
  <2> DEFINE L == Low(k - 1)
             H == Low(k)
             g == [j \in H |-> Step(e, j)]
  <2>7. e = [j \in L |-> Step(e, j)]
    BY <2>6 DEF Until
  <2>8. L \subseteq H /\ \A j \in H : j # 0 => j - 1 \in L
    BY <1>2, <2>3
  <2> HIDE DEF L, H
  <2>9. \A j \in L : g[j] = e[j]
    BY <2>7, <2>8
  <2> HIDE DEF g
  <2>10. ASSUME NEW j \in H PROVE Step(g, j) = Step(e, j)
    BY <2>8, <2>9 DEF NumberStep
  <2>11. g = [j \in H |-> Step(g, j)]
    BY <2>10 DEF g
  <2>12. Until(k, g)
    BY <2>11 DEF Until, H
  <2> QED
    BY <2>3, <2>12
<1>4. Low(M + 1) = 0..M /\ M + 1 \in Nat
  BY <1>2
<1>5. \E e : Until(M + 1, e)
  <2> HIDE DEF Until
  <2> QED
    BY <1>3, <1>4
<1>6. PICK e : e = [k \in 0..M |-> Step(e, k)]
  BY <1>4, <1>5
<1>7. Numbers(f) = [k \in 0..M |-> Step(Numbers(f), k)]
  BY <1>1, <1>6 DEF Numbers
<1> QED
  BY <1>1, <1>7 DEF Renumbered, Numbers, NumberStep

(* One look-up that ends at a command.                                     *)
LEMMA ReachedAtOnce ==
  ASSUME Typed, NEW h, NEW k \in DOMAIN commands, IsThunk(commands[k]), Resolves(commands[k]),
         NEW i \in DOMAIN commands, i = h[result[commands[k]]], ~IsThunk(commands[i])
  PROVE  Reached(h, k) = i
<1>1. PICK M : M = Len(commands)
  OBVIOUS
<1>2. M \in Nat /\ M # 0 /\ DOMAIN commands = 1..M
  BY <1>1 DEF Typed
<1> DEFINE Look(j) == IF j \in DOMAIN commands /\ IsThunk(commands[j]) /\ Resolves(commands[j])
                      THEN h[result[commands[j]]] ELSE j
           Step(e, n) == IF n = 0 THEN k ELSE Look(e[n - 1])
           reached == CHOOSE e : e = [n \in 0..M |-> Step(e, n)]
<1>3. Look(k) = i /\ Look(i) = i
  OBVIOUS
<1> HIDE DEF Look
<1>4. \E e : e = [n \in 0..M |-> Step(e, n)]
  <2>1. PICK e : e = [n \in 0..M |-> IF n = 0 THEN k ELSE i]
    OBVIOUS
  <2>2. ASSUME NEW n \in 0..M PROVE e[n] = Step(e, n)
    <3>1. CASE n = 0
      BY <2>1, <3>1
    <3>2. CASE n # 0
      <4>1. n - 1 \in 0..M /\ e[n] = i /\ (e[n - 1] = k \/ e[n - 1] = i)
        BY <1>2, <2>1, <3>2
      <4> QED
        BY <1>3, <3>2, <4>1
    <3> QED
      BY <3>1, <3>2
  <2> HIDE DEF Step
  <2>3. e = [n \in 0..M |-> Step(e, n)]
    BY <2>1, <2>2
  <2> QED
    BY <2>3
<1>5. reached = [n \in 0..M |-> Step(reached, n)]
  BY <1>4
<1>6. Reached(h, k) = reached[M]
  BY <1>1 DEF Reached, Look
<1> HIDE DEF reached
<1>7. \A n \in 0..M : reached[n] = Step(reached, n)
  <2> HIDE DEF Step
  <2> QED
    BY <1>5
<1> DEFINE T == {n \in 1..M : reached[n] # i}
<1>8. T = {}
  <2>1. SUFFICES ASSUME T # {} PROVE FALSE
    OBVIOUS
  <2>2. PICK n \in T : \A m \in T : n <= m
    <3>1. T \subseteq Nat
      BY <1>2
    <3> HIDE DEF T
    <3> QED
      BY <2>1, <3>1, LeastElement
  <2>3. n \in 1..M /\ n \in 0..M /\ n # 0 /\ n - 1 \in 0..M /\ n - 1 \notin T
    BY <1>2, <2>2
  <2>4. reached[n] = Look(reached[n - 1])
    BY <1>7, <2>3
  <2>5. reached[n - 1] = k \/ reached[n - 1] = i
    <3>1. CASE n = 1
      <4>1. 0 \in 0..M
        BY <1>2
      <4> QED
        BY <1>7, <3>1, <4>1
    <3>2. CASE n # 1
      <4>1. n - 1 \in 1..M
        BY <1>2, <2>3, <3>2
      <4> QED
        BY <2>3, <4>1
    <3> QED
      BY <3>1, <3>2
  <2> QED
    BY <1>3, <2>2, <2>4, <2>5
<1>9. M \in 1..M
  BY <1>2
<1> QED
  BY <1>6, <1>8, <1>9

(* What the loop keeps.                                                    *)
Numbered(h, f, k) ==
  /\ h \in [Created -> Nat]
  /\ \A u \in Created : ~Placeholder(u) => h[u] = handle[u]
  /\ \A i \in 1..k : Direct(commands[i]) =>
       h[commands[i]] = IndexIn(f, commands[handle[result[commands[i]]]])

LEMMA RenumberKeeps ==
  ASSUME Inv, NEW f \in Seq(Int), ToSet(f) = {x \in ToSet(commands) : ~IsThunk(x)},
         NEW k \in DOMAIN commands, NEW h, Numbered(h, f, k - 1)
  PROVE  Numbered(Renumber(h, k, f), f, k)
<1>1. PICK M \in Nat : M = Len(commands) /\ DOMAIN commands = 1..M
  <2>1. commands \in Seq(Int)
    BY DEF Inv, Typed
  <2> QED
    BY <2>1
<1>2. PICK u : u = commands[k]
  OBVIOUS
<1>3. u \in ToSet(commands)
  BY <1>2 DEF ToSet
<1>4. PICK j : j = Reached(h, k)
  OBVIOUS
<1>5. PICK g : g = Renumber(h, k, f)
  OBVIOUS
<1>6. g = IF IsThunk(u) /\ j \in DOMAIN commands /\ ~IsThunk(commands[j])
          THEN [h EXCEPT ![u] = IndexIn(f, commands[j])] ELSE h
  BY <1>2, <1>4, <1>5 DEF Renumber
<1>7. h \in [Created -> Nat] /\ \A v \in Created : ~Placeholder(v) => h[v] = handle[v]
  BY DEF Numbered
<1>8. g \in [Created -> Nat]
  <2>1. CASE IsThunk(u) /\ j \in DOMAIN commands /\ ~IsThunk(commands[j])
    <3>1. commands[j] \in ToSet(f)
      BY <2>1 DEF ToSet
    <3>2. IndexIn(f, commands[j]) \in DOMAIN f
      BY <3>1, IndexFound
    <3>3. IndexIn(f, commands[j]) \in Nat
      BY <3>2
    <3> QED
      BY <1>6, <1>7, <3>3
  <2>2. CASE ~(IsThunk(u) /\ j \in DOMAIN commands /\ ~IsThunk(commands[j]))
    BY <1>6, <1>7, <2>2
  <2> QED
    BY <2>1, <2>2
<1>9. \A v \in Created : v # u => g[v] = h[v]
  BY <1>6, <1>7
<1>10. ASSUME NEW v \in Created, ~Placeholder(v) PROVE g[v] = handle[v]
  <2>1. CASE v # u
    BY <1>7, <1>9, <1>10, <2>1
  <2>2. CASE v = u
    <3>1. ~IsThunk(u)
      BY <1>3, <1>10, <2>2 DEF Placeholder
    <3> QED
      BY <1>6, <1>7, <1>10, <3>1
  <2> QED
    BY <2>1, <2>2
<1>11. ASSUME Direct(u) PROVE g[u] = IndexIn(f, commands[handle[result[u]]])
  <2>1. u \in Created /\ IsThunk(u) /\ Resolves(u)
    BY <1>11 DEF Direct, Placeholder, IsThunk
  <2>2. PICK q \in Created : q = result[u]
    BY <1>3, <2>1, ReturnedTo
  <2>3. PICK w \in Created : w = Meant(q) /\ handle[q] \in DOMAIN commands /\ commands[handle[q]] = w
    BY <1>3, <2>1, <2>2, ReturnedTo
  <2>4. ~IsThunk(w)
    BY <1>11, <2>2, <2>3 DEF Direct
  <2>5. ~Placeholder(q)
    <3>1. Placeholder(q) => Meant(q) = q
      BY MeantCorrect DEF Inv, MeantOK, Placeholder, Gone
    <3> QED
      BY <2>3, <2>4, <3>1 DEF Placeholder
  <2>6. h[q] = handle[q]
    BY <1>7, <2>5
  <2>7. PICK i \in DOMAIN commands : i = handle[q] /\ commands[i] = w
    BY <2>3
  <2>8. j = i
    <3>1. i = h[result[commands[k]]]
      BY <1>2, <2>2, <2>6, <2>7
    <3> QED
      BY <1>2, <1>4, <2>1, <2>4, <2>7, <3>1, ReachedAtOnce DEF Inv
  <2>9. g = [h EXCEPT ![u] = IndexIn(f, w)]
    BY <1>6, <2>1, <2>4, <2>7, <2>8
  <2>10. g[u] = IndexIn(f, w)
    BY <1>7, <2>1, <2>9
  <2> QED
    BY <2>2, <2>3, <2>10
<1>12. ASSUME NEW i \in 1..k, Direct(commands[i])
       PROVE  g[commands[i]] = IndexIn(f, commands[handle[result[commands[i]]]])
  <2>1. CASE i = k
    BY <1>2, <1>11, <1>12, <2>1
  <2>2. CASE i # k
    <3>1. i \in 1..(k - 1) /\ i \in DOMAIN commands
      BY <1>1, <2>2
    <3>2. PICK v : v = commands[i]
      OBVIOUS
    <3>3. v # u /\ v \in Created
      <4>1. v # u
        BY <1>2, <2>2, <3>1, <3>2 DEF Inv, ListInv
      <4> QED
        BY <1>12, <3>2, <4>1 DEF Direct, Placeholder, IsThunk
    <3>4. h[v] = IndexIn(f, commands[handle[result[v]]])
      BY <1>12, <3>1, <3>2 DEF Numbered
    <3> QED
      BY <1>9, <3>2, <3>3, <3>4
  <2> QED
    BY <2>1, <2>2
<1> QED
  BY <1>5, <1>8, <1>10, <1>12 DEF Numbered

LEMMA RenumberedIs ==
  ASSUME Inv, NEW f \in Seq(Int), ToSet(f) = {x \in ToSet(commands) : ~IsThunk(x)}
  PROVE  /\ Renumbered(f) \in [Created -> Nat]
         /\ \A u \in Created : ~Placeholder(u) => Renumbered(f)[u] = handle[u]
         /\ \A u \in Created : Direct(u) =>
              Renumbered(f)[u] = IndexIn(f, commands[handle[result[u]]])
<1>1. PICK M \in Nat : M = Len(commands) /\ DOMAIN commands = 1..M
  <2>1. commands \in Seq(Int)
    BY DEF Inv, Typed
  <2> QED
    BY <2>1
<1>2. PICK e : e = Numbers(f)
  OBVIOUS
<1>3. Renumbered(f) = e[M] /\ \A k \in 0..M : e[k] = NumberStep(e, f, k)
  BY <1>1, <1>2, NumbersExist DEF Inv
<1> DEFINE T == {k \in 0..M : ~Numbered(e[k], f, k)}
<1>4. T = {}
  <2>1. SUFFICES ASSUME T # {} PROVE FALSE
    OBVIOUS
  <2>2. PICK k \in T : \A m \in T : k <= m
    <3>1. T \subseteq Nat
      BY <1>1
    <3> HIDE DEF T
    <3> QED
      BY <2>1, <3>1, LeastElement
  <2>3. k \in 0..M /\ ~Numbered(e[k], f, k)
    BY <2>2
  <2>4. CASE k = 0
    <3>1. e[0] = handle
      BY <1>3, <2>3, <2>4 DEF NumberStep
    <3>2. handle \in [Created -> Nat]
      <4>1. handle \in Seq(Nat) /\ Len(handle) = Len(command) /\ command \in Seq(Use)
        BY DEF Inv, Typed
      <4>2. DOMAIN handle = DOMAIN command
        BY <4>1
      <4> QED
        BY <4>1, <4>2 DEF Created
    <3>3. 1..0 = {}
      OBVIOUS
    <3>4. Numbered(handle, f, 0)
      BY <3>2, <3>3 DEF Numbered
    <3> QED
      BY <2>3, <2>4, <3>1, <3>4
  <2>5. CASE k # 0
    <3>1. k - 1 \in 0..M /\ k - 1 \notin T /\ k \in DOMAIN commands
      BY <1>1, <2>2, <2>3, <2>5
    <3>2. Numbered(e[k - 1], f, k - 1)
      BY <3>1
    <3>3. e[k] = Renumber(e[k - 1], k, f)
      BY <1>3, <2>3, <2>5 DEF NumberStep
    <3>4. PICK h : h = e[k - 1]
      OBVIOUS
    <3>5. Numbered(Renumber(h, k, f), f, k)
      BY <3>1, <3>2, <3>4, RenumberKeeps
    <3> QED
      BY <2>3, <3>3, <3>4, <3>5
  <2> QED
    BY <2>4, <2>5
<1>5. M \in 0..M
  BY <1>1
<1>6. PICK h : h = Renumbered(f) /\ Numbered(h, f, M)
  BY <1>3, <1>4, <1>5
<1>7. ASSUME NEW u \in Created, Direct(u)
      PROVE  h[u] = IndexIn(f, commands[handle[result[u]]])
  <2>1. PICK i \in 1..M : commands[i] = u
    BY <1>1, <1>7 DEF Direct, Placeholder, ToSet
  <2> QED
    BY <1>6, <1>7, <2>1 DEF Numbered
<1> QED
  BY <1>6, <1>7 DEF Numbered

(* What Sort does, with the sorted list as a constant.                     *)
SortedTo(f) ==
  /\ phase = "waiting" /\ pending = {} /\ ~rejected
  /\ f \in Seq(Int) /\ commands' = f /\ ToSet(f) = {x \in ToSet(commands) : ~IsThunk(x)}
  /\ \A i, j \in DOMAIN f : i < j => Follows(f[i], f[j])
  /\ DOMAIN command' = Created
  /\ \A u \in Created :
       command'[u] = IF u \in ToSet(f) /\ command[u].arg # NoArg
                     THEN [command[u] EXCEPT !.arg.at = IndexIn(f, Original(command[u].arg.at))]
                     ELSE command[u]
  /\ section' = [s \in {Root} |-> Items(f)]
  /\ handle' \in [Created -> Nat]
  /\ \A u \in Created : ~Placeholder(u) => handle'[u] = handle[u]
  /\ \A u \in Created : Direct(u) => handle'[u] = IndexIn(f, commands[handle[result[u]]])
  /\ available' = [s \in {Root} |-> DOMAIN f]
  /\ aliased' = TRUE /\ phase' = "plugins" /\ held' = StillRefer(f)
  /\ UNCHANGED <<pending, result, rejected>>

LEMMA SortFacts ==
  ASSUME Inv, Careful, Sort
  PROVE  /\ SortedTo(Filtered)
         /\ command' = [u \in Created |-> command'[u]]
<1>1. PICK f : f = Filtered
  OBVIOUS
<1>2. /\ f \in Seq(Int) /\ Sorted(f, InOrder) /\ ToSet(f) = {x \in ToSet(commands) : ~IsThunk(x)}
  BY <1>1, FilteredSorted DEF Inv
<1>3. \A i, j \in DOMAIN f : i < j => Follows(f[i], f[j])
  BY <1>2 DEF Sorted, InOrder
<1>4. /\ phase = "waiting" /\ pending = {} /\ ~rejected /\ commands' = f
      /\ command' = [u \in Created |->
            IF u \in ToSet(f) /\ command[u].arg # NoArg
            THEN [command[u] EXCEPT !.arg.at = IndexIn(f, Original(@))] ELSE command[u]]
      /\ section' = [s \in {Root} |-> Items(f)]
      /\ handle' = Renumbered(f)
      /\ available' = [s \in {Root} |-> DOMAIN f]
      /\ aliased' = TRUE /\ phase' = "plugins" /\ held' = StillRefer(f)
      /\ UNCHANGED <<pending, result, rejected>>
  BY <1>1 DEF Sort, thunkVars
<1>5. \A u \in Created :
       command'[u] = IF u \in ToSet(f) /\ command[u].arg # NoArg
                     THEN [command[u] EXCEPT !.arg.at = IndexIn(f, Original(command[u].arg.at))]
                     ELSE command[u]
  BY <1>4
<1>6. /\ handle' \in [Created -> Nat]
      /\ \A u \in Created : ~Placeholder(u) => handle'[u] = handle[u]
      /\ \A u \in Created : Direct(u) => handle'[u] = IndexIn(f, commands[handle[result[u]]])
  BY <1>2, <1>4, RenumberedIs
<1>7. DOMAIN command' = Created
  BY <1>4
<1>8. SortedTo(f)
  BY <1>2, <1>3, <1>4, <1>5, <1>6, <1>7 DEF SortedTo
<1>9. command' = [u \in Created |-> command'[u]]
  BY <1>4, <1>5
<1> QED
  BY <1>1, <1>8, <1>9

(* An argument becomes the index of what its command stood for.            *)
LEMMA SortedArgument ==
  ASSUME Inv, NEW f, SortedTo(f), NEW u \in ToSet(f), u \in Created, command[u].means # None
  PROVE  LET t == Meant(command[u].means)
             i == command[u].arg.at
         IN  /\ t \in Created /\ i \in DOMAIN commands /\ commands[i] = t /\ Kind(t) # "void"
             /\ command[u].arg # NoArg
             /\ command[u].arg.nested = (Kind(t) = "split" \/ command[u].nested)
             /\ Original(i) \in ToSet(f) /\ Original(i) \in Created
             /\ IndexIn(f, Original(i)) \in DOMAIN f /\ f[IndexIn(f, Original(i))] = Original(i)
<1>1. PICK m \in Created : m = command[u].means /\ Kind(m) # "void"
  BY DEF Inv, MeansInv, MeansFits
<1>2. PICK t \in Created : t = Meant(m)
  BY <1>1, MeantCorrect DEF Inv, MeantOK
<1>3. PICK i : i = command[u].arg.at
  OBVIOUS
<1>4. Kind(t) # "void"
  BY <1>1, <1>2, MeantCorrect DEF Inv, MeantOK
<1>5. u \in ToSet(commands)
  BY DEF SortedTo
<1>6. /\ i \in DOMAIN commands /\ commands[i] = t
      /\ command[u].arg.nested = (Kind(t) = "split" \/ command[u].nested)
  BY <1>1, <1>2, <1>3, <1>5 DEF Inv, ArgumentsFollow
<1>7. command[u].arg # NoArg
  <2>1. commands \in Seq(Int)
    BY DEF Inv, Typed
  <2>2. i # 0
    BY <1>6, <2>1
  <2> QED
    BY <1>3, <2>2 DEF NoArg, None
<1>8. Original(i) \in ToSet(f) /\ Original(i) \in Created
  <2>1. Original(i) \in ToSet(commands) /\ Original(i) \in Created /\ ~IsThunk(Original(i))
    BY <1>4, <1>6, OriginalFound DEF SortedTo
  <2> QED
    BY <2>1 DEF SortedTo
<1>9. IndexIn(f, Original(i)) \in DOMAIN f /\ f[IndexIn(f, Original(i))] = Original(i)
  BY <1>8, IndexFound DEF SortedTo
<1> QED
  BY <1>1, <1>2, <1>3, <1>4, <1>6, <1>7, <1>8, <1>9

LEMMA SortedStays ==
  ASSUME Inv, NEW f, SortedTo(f)
  PROVE  /\ Created' = Created
         /\ \A u \in Created : /\ command'[u] \in Use
                               /\ command'[u].kind = command[u].kind
                               /\ command'[u].place = command[u].place
                               /\ command'[u].means = command[u].means
                               /\ command'[u].nested = command[u].nested
                               /\ command'[u].arg.nested = command[u].arg.nested
                               /\ command[u].means = None => command'[u].arg = command[u].arg
<1>1. Created' = Created
  BY DEF SortedTo, Created
<1>2. ASSUME NEW u \in Created
      PROVE  /\ command'[u] \in Use
             /\ command'[u].kind = command[u].kind
             /\ command'[u].place = command[u].place
             /\ command'[u].means = command[u].means
             /\ command'[u].nested = command[u].nested
             /\ command'[u].arg.nested = command[u].arg.nested
             /\ command[u].means = None => command'[u].arg = command[u].arg
  <2>1. command[u] \in Use
    BY CommandTyped DEF Inv
  <2>2. CASE command'[u] = command[u]
    BY <2>1, <2>2
  <2>3. CASE u \in ToSet(f) /\ command[u].arg # NoArg
    <3>1. command[u].means # None
      BY <2>3 DEF Inv, MeansInv, MeansFits
    <3>2. PICK k : k = IndexIn(f, Original(command[u].arg.at))
      OBVIOUS
    <3>3. k \in DOMAIN f /\ f \in Seq(Int)
      BY <2>3, <3>1, <3>2, SortedArgument DEF SortedTo
    <3>4. k \in Nat
      BY <3>3
    <3>5. command'[u] = [command[u] EXCEPT !.arg.at = k]
      BY <2>3, <3>2 DEF SortedTo
    <3>6. PICK a : a = [command[u].arg EXCEPT !.at = k]
      OBVIOUS
    <3>7. a \in Arg /\ a.nested = command[u].arg.nested
      BY <2>1, <3>4, <3>6 DEF Use, Arg
    <3>8. command'[u] = [command[u] EXCEPT !.arg = a]
      BY <3>5, <3>6
    <3> QED
      BY <2>1, <3>1, <3>7, <3>8 DEF Use
  <2> QED
    BY <2>2, <2>3 DEF SortedTo
<1> QED
  BY <1>1, <1>2

LEMMA SortedTyped ==
  ASSUME Inv, NEW f, SortedTo(f), command' = [u \in Created |-> command'[u]]
  PROVE  Typed'
<1>1. /\ Created' = Created /\ Created = 1..Len(command) /\ Len(command) \in Nat
      /\ \A u \in Created : command'[u] \in Use
  BY SortedStays, CommandTyped DEF Inv
<1>2. command' \in Seq(Use) /\ Len(command') = Len(command)
  <2>1. PICK n \in Nat : n = Len(command)
    BY <1>1
  <2>2. command' \in [1..n -> Use]
    BY <1>1, <2>1
  <2> QED
    BY <2>1, <2>2
<1>3. handle' \in [Created -> Nat] /\ held' \subseteq Created
  BY DEF SortedTo, StillRefer, Inv, Typed
<1>4. handle' \in Seq(Nat) /\ Len(handle') = Len(command)
  <2>1. PICK n \in Nat : n = Len(command)
    BY <1>1
  <2>2. handle' \in [1..n -> Nat]
    BY <1>1, <1>3, <2>1
  <2> QED
    BY <2>1, <2>2
<1>5. /\ section' = [s \in {Root} |-> Items(f)] /\ available' = [s \in {Root} |-> DOMAIN f]
      /\ f \in Seq(Int)
  BY DEF SortedTo
<1>6. Items(f) \in Seq(Entry)
  <2>1. PICK n \in Nat : n = Len(f) /\ DOMAIN f = 1..n
    BY <1>5
  <2>2. \A i \in 1..n : Item("command", f[i]) \in Entry
    BY <1>5, <2>1 DEF Item, Entry
  <2>3. Items(f) \in [1..n -> Entry]
    BY <2>1, <2>2 DEF Items
  <2> QED
    BY <2>3
<1>7. DOMAIN f \subseteq Nat
  BY <1>5
<1>8. /\ DOMAIN section' = {Root} /\ section' \in [DOMAIN section' -> Seq(Entry)]
      /\ available' \in [DOMAIN section' -> SUBSET Nat] /\ Root \in Nat
  BY <1>5, <1>6, <1>7 DEF Root
<1>9. /\ result \in [Id -> {None} \cup Created] /\ rejected \in BOOLEAN /\ Len(command) <= MaxCommands
  BY DEF Inv, Typed
<1> QED
  BY <1>1, <1>2, <1>3, <1>4, <1>5, <1>8, <1>9 DEF Typed, SortedTo

(* Steps after which there are no thunks, that keep what commands are.     *)
Kept ==
  /\ Created' = Created /\ result' = result /\ pending' = {} /\ DOMAIN section' = {Root}
  /\ \A u \in Created :
       /\ command'[u].place = command[u].place
       /\ command'[u].means = command[u].means /\ command'[u].nested = command[u].nested
       /\ command[u].means = None => command'[u].arg = command[u].arg
       /\ \/ command'[u].kind = command[u].kind
          \/ command[u].kind = "intent" /\ command'[u].kind \in {"call", "split"}
  /\ \A x \in ToSet(commands') \cap Created : command[x].kind \notin {"thunk", "void"}

LEMMA KeptInv ==
  ASSUME Inv, Kept
  PROVE  /\ \A u \in Created : Spot(u)' = Spot(u) /\ Spot(u) \in Seq(Int)
         /\ \A u : (IsThunk(u))' <=> IsThunk(u)
         /\ \A x \in ToSet(commands') : ~(IsThunk(x))'
         /\ PlacesInv' /\ ResultInv' /\ ReturnInv' /\ MeansInv'
<1>1. \A u \in Created : u > 0 /\ Spot(u) \in Seq(Int)
  BY SpotTyped DEF Inv
<1>2. \A u \in Created : Spot(u)' = Spot(u)
  BY <1>1 DEF Spot, Kept
<1>3. \A u \in Created : End(Spot(u))' = End(Spot(u))
  BY <1>2 DEF End
<1>4. ASSUME NEW u PROVE (IsThunk(u))' <=> IsThunk(u)
  BY DEF IsThunk, Kind, Kept
<1>5. \A x \in ToSet(commands') : ~(IsThunk(x))'
  BY <1>4 DEF IsThunk, Kind, Kept
<1>6. PlacesInv'
  BY DEF Inv, PlacesInv, Kept
<1>7. \A u \in Created : /\ Kind(u) = "thunk" => Kind(u)' = "thunk"
                         /\ Kind(u) # "void" => Kind(u)' # "void"
                         /\ Kind(u) = "call" => Kind(u)' = "call"
  BY DEF Kind, Kept
<1>8. ResultInv' /\ ReturnInv'
  <2>1. ASSUME NEW f \in Id, result'[f] # None
        PROVE  /\ f \in Created' /\ Kind(f)' = "thunk" /\ f \notin pending'
               /\ Kind(result[f])' # "void"
               /\ Before(End(Spot(result[f])), End(Spot(f)))'
               /\ f \notin ToSet(commands')
    <3>1. /\ f \in Created /\ Kind(f) = "thunk" /\ Kind(result[f]) # "void"
          /\ Before(End(Spot(result[f])), End(Spot(f)))
      BY <2>1 DEF Inv, ResultInv, Kept
    <3>2. PICK r \in Created : r = result[f]
      BY <2>1 DEF Inv, Typed, Kept
    <3>3. Kind(r)' # "void" /\ Before(End(Spot(r)), End(Spot(f)))'
      BY <1>3, <1>7, <3>1, <3>2 DEF Before
    <3>4. r = (result[f])'
      BY <3>2 DEF Kept
    <3>5. Kind(result[f])' # "void" /\ Before(End(Spot(result[f])), End(Spot(f)))'
      BY <3>3, <3>4
    <3>6. f \notin ToSet(commands')
      BY <3>1 DEF Kept, Kind
    <3> QED
      BY <1>7, <3>1, <3>5, <3>6 DEF Kept
  <2> QED
    BY <2>1 DEF ResultInv, ReturnInv, Kept
<1>9. MeansInv'
  <2> SUFFICES ASSUME NEW u \in Created PROVE MeansFits(u)'
    BY DEF MeansInv, Kept
  <2>1. CASE command[u].means = None
    BY <2>1 DEF Inv, MeansInv, MeansFits, Kept
  <2>2. CASE command[u].means # None
    <3>1. PICK m \in Created : m = command[u].means
      BY <2>2 DEF Inv, MeansInv, MeansFits
    <3>2. /\ Kind(m) # "void" /\ (command[u].nested => Kind(m) = "call")
          /\ Before(End(Spot(m)), Spot(u)) /\ ~IsThunk(u)
      BY <2>2, <3>1 DEF Inv, MeansInv, MeansFits
    <3>3. m = (command[u].means)' /\ command'[u].nested = command[u].nested
      BY <3>1 DEF Kept
    <3>4. Before(End(Spot(m)), Spot(u))'
      BY <1>2, <1>3, <3>2 DEF Before
    <3>5. Before(End(Spot(command[u].means)), Spot(u))'
      BY <3>3, <3>4
    <3>6. Kind(m)' # "void" /\ (command[u].nested => Kind(m)' = "call")
      BY <1>7, <3>2
    <3>7. Kind(command[u].means)' # "void" /\ (command[u].nested => Kind(command[u].means)' = "call")
      BY <3>3, <3>6
    <3>8. ~(IsThunk(u))' /\ m \in Created'
      BY <1>4, <3>2 DEF Kept
    <3> QED
      BY <2>2, <3>1, <3>3, <3>5, <3>7, <3>8 DEF MeansFits
  <2> QED
    BY <2>1, <2>2
<1> QED
  BY <1>1, <1>2, <1>4, <1>5, <1>6, <1>8, <1>9

(* Everything that has been added ends before the transaction does.        *)
LEMMA EndsInRoot ==
  ASSUME Typed, PlacesInv, NEW u \in Created
  PROVE  Before(End(Spot(u)), End(<<>>))
<1>1. PICK q : q = Spot(u)
  OBVIOUS
<1>2. q \in Seq(Int) /\ Len(q) > 0 /\ q[1] \in Created
  <2>1. q = command[u].place /\ q \in Seq(Int)
    BY <1>1, CommandTyped DEF Spot
  <2>2. Len(q) > 0 /\ \A k \in 1..Len(q) : q[k] \in Created
    BY <2>1 DEF PlacesInv
  <2>3. 1 \in 1..Len(q)
    BY <2>1, <2>2
  <2> QED
    BY <2>1, <2>2, <2>3
<1>3. <<>> \in Seq(Int) /\ Len(<<>>) = 0
  OBVIOUS
<1>4. PICK d : d = End(<<>>)
  OBVIOUS
<1>5. d \in Seq(Int) /\ Len(d) = 1 /\ d[1] = MaxCommands + 1 /\ MaxCommands \in Nat
  <2>1. 0 + 1 = 1
    OBVIOUS
  <2> QED
    BY <1>3, <1>4, <2>1, EndOf
<1>6. PICK e : e = End(q)
  OBVIOUS
<1>7. e \in Seq(Int) /\ Len(e) = Len(q) + 1 /\ e[1] = q[1]
  <2>1. 1 \in 1..Len(q)
    BY <1>2
  <2> QED
    BY <1>2, <1>6, <2>1, EndOf
<1>8. e[1] < d[1]
  <2>1. q[1] \in Nat /\ q[1] <= MaxCommands
    <3>1. q[1] \in Id
      BY <1>2, CommandTyped
    <3> QED
      BY <1>5, <3>1 DEF Id
  <2> QED
    BY <1>5, <1>7, <2>1
<1>9. 1 \in DOMAIN e /\ 1 \in DOMAIN d
  BY <1>2, <1>5, <1>7
<1>10. 1..(1 - 1) = {}
  OBVIOUS
<1> QED
  BY <1>1, <1>4, <1>6, <1>8, <1>9, <1>10 DEF Before

LEMMA SortKeeps ==
  ASSUME Inv, NEW f, SortedTo(f), Typed'
  PROVE  Kept /\ Plain' /\ PhaseInv' /\ AvailableInv'
<1>1. Kept
  <2>1. \A x \in ToSet(commands') \cap Created : command[x].kind \notin {"thunk", "void"}
    BY DEF SortedTo, IsThunk, Kind
  <2>2. DOMAIN section' = {Root} /\ pending' = {} /\ result' = result
    BY DEF SortedTo
  <2> QED
    BY <2>1, <2>2, SortedStays DEF Kept
<1>2. /\ commands' = f /\ f \in Seq(Int) /\ ToSet(f) = {x \in ToSet(commands) : ~IsThunk(x)}
      /\ \A i, j \in DOMAIN f : i < j => Follows(f[i], f[j])
  BY DEF SortedTo
<1>3. \A x \in ToSet(f) : /\ x \in Int /\ x # 0 /\ Spot(x) \in Seq(Int)
                          /\ (x > 0 => x \in Created)
                          /\ (~(x > 0) => -x \in Created /\ Kind(-x) = "split")
  BY <1>2, SpotTyped DEF Inv
<1>4. \A x \in ToSet(f) : Spot(x)' = Spot(x)
  <2> SUFFICES ASSUME NEW x \in ToSet(f) PROVE Spot(x)' = Spot(x)
    OBVIOUS
  <2>1. CASE x > 0
    BY <1>1, <1>3, <2>1 DEF Spot, Kept
  <2>2. CASE ~(x > 0)
    BY <1>1, <1>3, <2>2 DEF Spot, Kept
  <2> QED
    BY <2>1, <2>2
<1>5. ASSUME NEW i \in DOMAIN f, NEW j \in DOMAIN f, i < j
      PROVE  Follows(commands[i], commands[j])'
  <2>1. PICK x, y : x = f[i] /\ y = f[j]
    OBVIOUS
  <2>2. Follows(x, y) /\ x \in ToSet(f) /\ y \in ToSet(f)
    BY <1>2, <1>5, <2>1 DEF ToSet
  <2>3. Follows(x, y)'
    BY <1>4, <2>2 DEF Follows, Before
  <2>4. x = (commands[i])' /\ y = (commands[j])'
    BY <1>2, <2>1
  <2> QED
    BY <2>3, <2>4
<1>6. ListInv'
  <2>1. \A i, j \in DOMAIN f : f[i] = f[j] => i = j
    <3>1. Sorted(f, InOrder)
      <4>1. \A i \in DOMAIN f : f[i] \in Int
        BY <1>2
      <4> QED
        BY <1>2, <4>1 DEF Sorted, InOrder
    <3>2. 0 \notin ToSet(f) /\ \A x \in ToSet(f) : Spot(x) \in Seq(Int)
      BY <1>3
    <3> QED
      BY <1>2, <3>1, <3>2, SortedOnce
  <2>2. ASSUME NEW x \in ToSet(f)
        PROVE  x \in Created' \/ (-x \in Created' /\ Kind(-x)' = "split")
    <3>1. PICK y : y = -x
      OBVIOUS
    <3>2. x \in Created \/ (y \in Created /\ Kind(y) = "split")
      BY <1>3, <3>1
    <3>3. y \in Created /\ Kind(y) = "split" => y \in Created' /\ Kind(y)' = "split"
      BY <1>1 DEF Kept, Kind
    <3>4. Kind(-x)' = Kind(y)'
      BY <3>1
    <3> QED
      BY <1>1, <3>1, <3>2, <3>3, <3>4 DEF Kept
  <2>3. ASSUME NEW u \in Created, ~(IsThunk(u))'
        PROVE  u \in ToSet(f)
    <3>1. ~IsThunk(u)
      BY <1>1, <2>3, KeptInv
    <3> QED
      BY <1>2, <3>1 DEF Inv, ListInv
  <2>4. ToSet(commands') = ToSet(f) /\ Created' = Created
    BY <1>1, <1>2 DEF Kept
  <2> QED
    BY <1>2, <2>1, <2>2, <2>3, <2>4 DEF ListInv
<1>7. Plain'
  <2>1. section' = [s \in {Root} |-> Items(commands')]
    BY DEF SortedTo
  <2>2. PlacesInv' /\ \A x \in ToSet(commands') : ~(IsThunk(x))'
    BY <1>1, KeptInv
  <2> QED
    BY <1>2, <1>5, <1>6, <2>1, <2>2 DEF Plain, Items, Item
<1>8. PhaseInv' /\ AvailableInv'
  <2>1. aliased' = TRUE /\ ~rejected' /\ DOMAIN section' = {Root} /\ available'[Root] = DOMAIN commands'
    BY DEF SortedTo
  <2> QED
    BY <2>1 DEF PhaseInv, AvailableInv
<1> QED
  BY <1>1, <1>7, <1>8

(* The thunks that sorting takes out of the list.                          *)
LEMMA SortedGone ==
  ASSUME Inv, NEW f, SortedTo(f), Typed', Kept
  PROVE  /\ MeantOK' /\ \A v \in Created : result'[v] = result[v]
         /\ \A v \in Created : (Gone(v))' <=> IsThunk(v) /\ Resolves(v)
<1>1. MeantOK'
  <2>1. ResultInv'
    BY KeptInv
  <2> QED
    BY <2>1, MeantCorrect, PTL
<1>2. result' = result /\ commands' = f
  BY DEF SortedTo
<1>3. ASSUME NEW v \in Created
      PROVE  (Gone(v))' <=> IsThunk(v) /\ Resolves(v)
  <2>1. (IsThunk(v))' <=> IsThunk(v)
    BY KeptInv
  <2>2. IsThunk(v) => v \notin ToSet(f)
    BY DEF SortedTo
  <2> QED
    BY <1>2, <2>1, <2>2 DEF Gone, Resolves
<1> QED
  BY <1>1, <1>2, <1>3

LEMMA SortedMeant ==
  ASSUME Inv, NEW f, SortedTo(f), Typed', Kept
  PROVE  \A v, w \in Created : w = Meant(v) => Meant(v)' = Meant(w)'
<1> DEFINE T == {v \in Created : \A w \in Created : w = Meant(v) => Meant(v)' = Meant(w)'}
<1>1. MeantOK
  BY MeantCorrect DEF Inv
<1>2. /\ MeantOK' /\ Created' = Created /\ result' = result
      /\ \A v \in Created : (Gone(v))' <=> IsThunk(v) /\ Resolves(v)
  BY SortedGone DEF Kept
<1>3. ASSUME NEW v \in Created, \A w \in Created : Earlier(w, v) => w \in T
      PROVE  v \in T
  <2> SUFFICES ASSUME NEW w \in Created, w = Meant(v)
               PROVE  Meant(v)' = Meant(w)'
    OBVIOUS
  <2>1. CASE ~Gone(v)
    <3>1. w = v
      BY <1>1, <2>1 DEF MeantOK
    <3> QED
      BY <3>1
  <2>2. CASE Gone(v)
    <3>1. result[v] \in Created /\ Earlier(result[v], v) /\ Meant(v) = Meant(result[v])
      BY <1>1, <2>2 DEF MeantOK
    <3>2. PICK q \in Created : q = result[v]
      BY <3>1
    <3>3. Meant(q)' = Meant(w)'
      BY <1>3, <3>1, <3>2
    <3>4. (Gone(v))'
      BY <1>2, <2>2 DEF Gone
    <3>5. q = (result[v])'
      BY <1>2, <3>2
    <3>6. Meant(v)' = Meant(result[v])'
      BY <1>2, <3>4 DEF MeantOK
    <3>7. Meant(result[v])' = Meant(q)'
      BY <3>5
    <3> QED
      BY <3>3, <3>6, <3>7
  <2> QED
    BY <2>1, <2>2
<1> HIDE DEF T
<1>4. Created \subseteq T
  BY <1>3, EarlierInduction DEF Inv
<1> QED
  BY <1>4 DEF T

LEMMA SortedOriginal ==
  ASSUME Inv, NEW f, SortedTo(f), Typed', Kept
  PROVE  \A j \in DOMAIN commands, v \in Created : commands[j] = v /\ Kind(v) # "void" => Original(j) = Meant(v)'
<1> DEFINE T == {v \in Created : \A j \in DOMAIN commands :
                   commands[j] = v /\ Kind(v) # "void" => Original(j) = Meant(v)'}
<1>1. \A j \in DOMAIN commands :
        Original(j) = IF IsThunk(commands[j]) /\ Resolves(commands[j])
                      THEN Original(handle[result[commands[j]]]) ELSE commands[j]
  BY OriginalEquation DEF Inv
<1>2. /\ MeantOK' /\ Created' = Created /\ result' = result
      /\ \A v \in Created : (Gone(v))' <=> IsThunk(v) /\ Resolves(v)
  BY SortedGone DEF Kept
<1>3. ASSUME NEW v \in Created, \A w \in Created : Earlier(w, v) => w \in T
      PROVE  v \in T
  <2> SUFFICES ASSUME NEW j \in DOMAIN commands, commands[j] = v, Kind(v) # "void"
               PROVE  Original(j) = Meant(v)'
    OBVIOUS
  <2>1. Meant(v)' = IF (Gone(v))' THEN Meant(result[v])' ELSE v
    BY <1>2 DEF MeantOK
  <2>2. CASE ~(IsThunk(v) /\ Resolves(v))
    BY <1>1, <1>2, <2>1, <2>2
  <2>3. CASE IsThunk(v) /\ Resolves(v)
    <3>1. v \in Id /\ v \in ToSet(commands)
      BY CommandTyped DEF Inv, ToSet
    <3>2. PICK q \in Created : q = result[v]
      BY <2>3, <3>1 DEF Inv, Typed, Resolves
    <3>3. PICK w \in Created : /\ w = Meant(q) /\ Kind(w) # "void" /\ Earlier(w, v)
                               /\ handle[q] \in DOMAIN commands /\ commands[handle[q]] = w
      BY <2>3, <3>1, <3>2, ReturnedTo
    <3>4. Original(handle[q]) = Meant(w)'
      BY <1>3, <3>3
    <3>5. Meant(q)' = Meant(w)'
      BY <3>2, <3>3, SortedMeant
    <3>6. Original(j) = Original(handle[q])
      BY <1>1, <2>3, <3>2
    <3>7. q = (result[v])'
      BY <1>2, <3>2
    <3>8. Meant(result[v])' = Meant(q)'
      BY <3>7
    <3> QED
      BY <1>2, <2>1, <2>3, <3>4, <3>5, <3>6, <3>8
  <2> QED
    BY <2>2, <2>3
<1> HIDE DEF T
<1>4. Created \subseteq T
  BY <1>3, EarlierInduction DEF Inv
<1> QED
  BY <1>4 DEF T

LEMMA SortArguments ==
  ASSUME Inv, NEW f, SortedTo(f), Typed', Kept
  PROVE  ArgumentsFollow'
<1> SUFFICES ASSUME NEW u \in ToSet(f) \cap Created, command'[u].means # None
             PROVE  LET target == Meant(command[u].means)'
                        arg == command'[u].arg
                    IN  /\ arg.at \in DOMAIN f /\ f[arg.at] = target
                        /\ arg.nested = (command'[target].kind = "split" \/ command'[u].nested)
  BY DEF ArgumentsFollow, Kind, Kept, SortedTo
<1>1. command[u].means # None /\ command'[u].means = command[u].means /\ command'[u].nested = command[u].nested
  BY SortedStays
<1>2. PICK m \in Created : m = command[u].means
  BY <1>1 DEF Inv, MeansInv, MeansFits
<1>3. PICK t \in Created : t = Meant(m)
  BY <1>2, MeantCorrect DEF Inv, MeantOK
<1>4. PICK i : i = command[u].arg.at
  OBVIOUS
<1>5. /\ i \in DOMAIN commands /\ commands[i] = t /\ Kind(t) # "void"
      /\ command[u].arg # NoArg
      /\ command[u].arg.nested = (Kind(t) = "split" \/ command[u].nested)
      /\ Original(i) \in Created
      /\ IndexIn(f, Original(i)) \in DOMAIN f /\ f[IndexIn(f, Original(i))] = Original(i)
  BY <1>1, <1>2, <1>3, <1>4, SortedArgument
<1>6. Original(i) = Meant(t)' /\ Meant(m)' = Meant(t)'
  BY <1>3, <1>5, SortedOriginal, SortedMeant
<1>7. PICK o \in Created : o = Original(i)
  BY <1>5
<1>8. m = (command[u].means)'
  BY <1>1, <1>2
<1>9. Meant(command[u].means)' = o
  <2>1. Meant(m)' = o
    BY <1>6, <1>7
  <2> QED
    BY <1>8, <2>1
<1>10. command'[u].arg.at = IndexIn(f, Original(i)) /\ command'[u].arg.nested = command[u].arg.nested
  <2>1. command'[u] = [command[u] EXCEPT !.arg.at = IndexIn(f, Original(i))]
    BY <1>4, <1>5 DEF SortedTo
  <2>2. command[u] \in Use
    BY CommandTyped DEF Inv
  <2> QED
    BY <2>1, <2>2 DEF Use, Arg
<1>11. command'[o].kind = "split" <=> Kind(t) = "split"
  <2>1. command'[o].kind = Kind(o)
    BY SortedStays DEF Kind
  <2>2. Kind(t) # "split" => Kind(o) # "split"
    BY <1>5, <1>7, OriginalFound DEF SortedTo
  <2>3. Kind(t) = "split" => o = t
    <3>1. Kind(t) = "split" => ~IsThunk(t)
      BY DEF IsThunk
    <3> QED
      BY <1>5, <1>7, <3>1, OriginalFound DEF SortedTo
  <2> QED
    BY <2>1, <2>2, <2>3
<1> QED
  BY <1>1, <1>5, <1>7, <1>9, <1>10, <1>11

(* The results that still refer keep to their commands.                    *)
LEMMA SortHeld ==
  ASSUME Inv, NEW f, SortedTo(f), Typed', Kept
  PROVE  HeldInv'
<1>1. /\ MeantOK' /\ Created' = Created /\ result' = result /\ commands' = f /\ f \in Seq(Int)
      /\ ToSet(f) = {x \in ToSet(commands) : ~IsThunk(x)} /\ held' = StillRefer(f)
      /\ \A v \in Created : (Gone(v))' <=> IsThunk(v) /\ Resolves(v)
  BY SortedGone DEF SortedTo, Kept
<1>2. ASSUME NEW u \in Created, NEW w \in Created, w = Meant(u), ~IsThunk(w), Kind(w) # "split"
      PROVE  Meant(u)' = w /\ Kind(Meant(u))' # "split"
  <2>1. Meant(u)' = Meant(w)'
    BY <1>2, SortedMeant
  <2>2. Meant(w)' = w
    BY <1>1, <1>2 DEF MeantOK
  <2>3. Kind(w)' # "split"
    BY <1>2, SortedStays DEF Kind
  <2>4. w = Meant(u)'
    BY <2>1, <2>2
  <2>5. Kind(Meant(u))' = Kind(w)'
    BY <2>4
  <2> QED
    BY <2>3, <2>4, <2>5
<1>3. ASSUME NEW u \in held'
      PROVE  /\ u \in Created /\ handle'[u] \in DOMAIN f /\ f[handle'[u]] = Meant(u)'
             /\ Kind(Meant(u))' # "split"
  <2>1. u \in held /\ u \in Created
    BY <1>1, <1>3 DEF StillRefer, Inv, Typed
  <2>2. CASE Placeholder(u)
    <3>1. Direct(u)
      BY <1>1, <1>3, <2>2 DEF StillRefer, Direct, Placeholder
    <3>2. u \in ToSet(commands) /\ IsThunk(u) /\ Resolves(u)
      BY <3>1 DEF Direct, Placeholder
    <3>3. PICK q \in Created : q = result[u]
      BY <2>1, <3>2, ReturnedTo
    <3>4. PICK w \in Created : /\ w = Meant(q) /\ Kind(w) # "split" /\ handle[q] \in DOMAIN commands
                               /\ commands[handle[q]] = w
      BY <2>1, <3>2, <3>3, ReturnedTo
    <3>5. ~IsThunk(w) /\ w \in ToSet(f)
      BY <1>1, <3>1, <3>3, <3>4 DEF Direct, ToSet
    <3>6. handle'[u] = IndexIn(f, w)
      BY <2>1, <3>1, <3>3, <3>4 DEF SortedTo
    <3>7. IndexIn(f, w) \in DOMAIN f /\ f[IndexIn(f, w)] = w
      BY <1>1, <3>5, IndexFound
    <3>8. Meant(q)' = w /\ Kind(Meant(q))' # "split"
      BY <1>2, <3>4, <3>5
    <3>9. q = (result[u])'
      BY <1>1, <3>3
    <3>10. Meant(u)' = Meant(result[u])'
      BY <1>1, <2>1, <3>2 DEF MeantOK
    <3>11. Meant(result[u])' = Meant(q)'
      BY <3>9
    <3>12. w = Meant(u)'
      BY <3>8, <3>10, <3>11
    <3>13. Kind(Meant(u))' = Kind(w)'
      BY <3>12
    <3>14. Kind(w)' # "split"
      BY <3>4, SortedStays DEF Kind
    <3> QED
      BY <2>1, <3>6, <3>7, <3>12, <3>13, <3>14
  <2>3. CASE ~Placeholder(u)
    <3>1. handle[u] \in DOMAIN commands \cap DOMAIN f /\ f[handle[u]] = commands[handle[u]]
      BY <1>1, <1>3, <2>3 DEF StillRefer, Placeholder
    <3>2. handle'[u] = handle[u]
      BY <2>1, <2>3 DEF SortedTo
    <3>3. PICK w \in Created : w = Meant(u)
      BY <2>1, MeantCorrect DEF Inv, MeantOK
    <3>4. commands[handle[u]] = w /\ Kind(w) # "split"
      BY <2>1, <3>3 DEF Inv, HeldInv
    <3>5. ~IsThunk(w)
      BY <1>1, <3>1, <3>4 DEF ToSet
    <3>6. Meant(u)' = w /\ Kind(Meant(u))' # "split"
      BY <1>2, <2>1, <3>3, <3>4, <3>5
    <3> QED
      BY <2>1, <3>1, <3>2, <3>4, <3>6
  <2> QED
    BY <2>2, <2>3
<1>4. DOMAIN section' = {Root}
  BY DEF Kept
<1>5. ASSUME NEW u \in Created
      PROVE  Before(End(Spot(u)), End(Base(Root)))'
  <2>1. Spot(u)' = Spot(u) /\ Base(Root)' = <<>>
    BY <1>5, KeptInv DEF Base
  <2>2. Before(End(Spot(u)), End(<<>>))
    BY EndsInRoot DEF Inv
  <2> QED
    BY <2>1, <2>2 DEF Before, End
<1> QED
  BY <1>1, <1>3, <1>4, <1>5 DEF HeldInv

LEMMA SortInv ==
  ASSUME Inv, Careful, Sort
  PROVE  Inv'
<1>1. PICK f : f = Filtered
  OBVIOUS
<1>2. SortedTo(f) /\ command' = [u \in Created |-> command'[u]]
  BY <1>1, SortFacts
<1>3. Typed'
  BY <1>2, SortedTyped
<1>4. Kept /\ Plain' /\ PhaseInv' /\ AvailableInv'
  BY <1>2, <1>3, SortKeeps
<1>5. ForksInv' /\ ListedInv' /\ OrderInv'
  BY <1>4, PlainSection, PTL
<1>6. ArgumentsFollow' /\ HeldInv'
  BY <1>2, <1>3, <1>4, SortArguments, SortHeld
<1> QED
  BY <1>3, <1>4, <1>5, <1>6, KeptInv DEF Inv, Plain
-----------------------------------------------------------------------------
(* Replacing one element of a sequence by several.                         *)
Spliced(s, i, mid, n, r) ==
  /\ s \in Seq(Int) /\ i \in DOMAIN s /\ mid \in Seq(Int) /\ n = Len(mid)
  /\ r = SubSeq(s, 1, i - 1) \o mid \o SubSeq(s, i + 1, Len(s))

LEMMA Splice ==
  ASSUME NEW s, NEW i, NEW mid, NEW n, NEW r, Spliced(s, i, mid, n, r)
  PROVE  /\ r \in Seq(Int) /\ Len(r) = Len(s) + n - 1 /\ DOMAIN r = 1..(Len(s) + n - 1)
         /\ \A j \in 1..(i - 1) : r[j] = s[j]
         /\ \A j \in 1..n : r[i - 1 + j] = mid[j]
         /\ \A j \in (i + 1)..Len(s) : r[j + n - 1] = s[j]
<1> PICK S : S = Int
  OBVIOUS
<1> PICK l : l = Len(s)
  OBVIOUS
<1>1. /\ l \in Nat /\ DOMAIN s = 1..l /\ i \in Int /\ 1 <= i /\ i <= l /\ n \in Nat
      /\ s \in Seq(S) /\ mid \in Seq(S) /\ n = Len(mid)
      /\ \A j \in 1..l : s[j] \in S
  BY DEF Spliced
<1>0. /\ l \in Nat /\ i \in Int /\ 1 <= i /\ i <= l /\ n \in Nat
  BY <1>1
<1>2. PICK a, c : a = SubSeq(s, 1, i - 1) /\ c = SubSeq(s, i + 1, l)
  OBVIOUS
<1>3. a \in Seq(S) /\ Len(a) = i - 1 /\ \A j \in 1..(i - 1) : a[j] = s[j]
  <2>1. 1 \in Int /\ i - 1 \in Int /\ \A j \in 1..(i - 1) : s[j] \in S
    BY <1>1
  <2>2. /\ a \in Seq(S) /\ Len(a) = IF 1 <= i - 1 THEN (i - 1) - 1 + 1 ELSE 0
        /\ \A j \in 1..((i - 1) - 1 + 1) : a[j] = s[1 + j - 1]
    BY <1>2, <2>1, SubSeqProperties
  <2>3. \A j \in 1..(i - 1) : 1 + j - 1 = j
    OBVIOUS
  <2>4. (i - 1) - 1 + 1 = i - 1 /\ (IF 1 <= i - 1 THEN i - 1 ELSE 0) = i - 1
    BY <1>0
  <2>5. \A j \in 1..(i - 1) : a[j] = s[j]
    BY <2>2, <2>3, <2>4
  <2> QED
    BY <2>2, <2>4, <2>5
<1>4. c \in Seq(S) /\ Len(c) = l - i /\ \A j \in 1..(l - i) : c[j] = s[i + j]
  <2>1. i + 1 \in Int /\ l \in Int /\ \A j \in (i + 1)..l : s[j] \in S
    BY <1>1
  <2>2. /\ c \in Seq(S) /\ Len(c) = IF i + 1 <= l THEN l - (i + 1) + 1 ELSE 0
        /\ \A j \in 1..(l - (i + 1) + 1) : c[j] = s[(i + 1) + j - 1]
    BY <1>2, <2>1, SubSeqProperties
  <2>3. \A j \in 1..(l - i) : (i + 1) + j - 1 = i + j
    BY <1>0
  <2>4. /\ l - (i + 1) + 1 = l - i
        /\ (IF i + 1 <= l THEN l - i ELSE 0) = l - i
    BY <1>0
  <2>5. \A j \in 1..(l - i) : c[j] = s[i + j]
    BY <2>2, <2>3, <2>4
  <2> QED
    BY <2>2, <2>4, <2>5
<1>5. PICK b : b = a \o mid
  OBVIOUS
<1>6. /\ b \in Seq(S) /\ Len(b) = i - 1 + n
      /\ \A j \in 1..(i - 1 + n) : b[j] = IF j <= i - 1 THEN a[j] ELSE mid[j - (i - 1)]
  <2>1. /\ b \in Seq(S) /\ Len(b) = Len(a) + Len(mid)
        /\ \A j \in 1..(Len(a) + Len(mid)) : b[j] = IF j <= Len(a) THEN a[j] ELSE mid[j - Len(a)]
    BY <1>1, <1>3, <1>5, ConcatProperties
  <2> QED
    BY <1>1, <1>3, <2>1
<1>7. \A j \in 1..(i - 1) : b[j] = s[j]
  <2>1. \A j \in 1..(i - 1) : j \in 1..(i - 1 + n) /\ j <= i - 1
    BY <1>0
  <2> QED
    BY <1>3, <1>6, <2>1
<1>8. \A j \in 1..n : b[i - 1 + j] = mid[j]
  <2> SUFFICES ASSUME NEW j \in 1..n PROVE b[i - 1 + j] = mid[j]
    OBVIOUS
  <2>1. PICK k : k = i - 1 + j
    OBVIOUS
  <2>2. k \in 1..(i - 1 + n) /\ ~(k <= i - 1) /\ k - (i - 1) = j
    BY <1>0, <2>1
  <2>3. b[k] = mid[k - (i - 1)]
    BY <1>6, <2>2
  <2> QED
    BY <2>1, <2>2, <2>3
<1>9. /\ r \in Seq(S) /\ Len(r) = l + n - 1
      /\ \A j \in 1..(l + n - 1) : r[j] = IF j <= i - 1 + n THEN b[j] ELSE c[j - (i - 1 + n)]
  <2>1. /\ r \in Seq(S) /\ Len(r) = Len(b) + Len(c)
        /\ \A j \in 1..(Len(b) + Len(c)) : r[j] = IF j <= Len(b) THEN b[j] ELSE c[j - Len(b)]
    <3>1. r = b \o c
      BY <1>2, <1>5 DEF Spliced
    <3> QED
      BY <1>4, <1>6, <3>1, ConcatProperties
  <2>2. Len(b) + Len(c) = l + n - 1
    BY <1>0, <1>4, <1>6
  <2> QED
    BY <1>6, <2>1, <2>2
<1>10. \A j \in 1..(i - 1 + n) : r[j] = b[j]
  <2>1. \A j \in 1..(i - 1 + n) : j \in 1..(l + n - 1) /\ j <= i - 1 + n
    BY <1>0
  <2> QED
    BY <1>9, <2>1
<1>11. \A k \in 1..(l - i) : r[i - 1 + n + k] = c[k]
  <2> SUFFICES ASSUME NEW k \in 1..(l - i) PROVE r[i - 1 + n + k] = c[k]
    OBVIOUS
  <2>1. PICK j : j = i - 1 + n + k
    OBVIOUS
  <2>2. j \in 1..(l + n - 1) /\ ~(j <= i - 1 + n) /\ j - (i - 1 + n) = k
    BY <1>0, <2>1
  <2>3. r[j] = c[j - (i - 1 + n)]
    BY <1>9, <2>2
  <2> QED
    BY <2>1, <2>2, <2>3
<1>12. ASSUME NEW j \in 1..(i - 1) PROVE r[j] = s[j]
  <2>1. j \in 1..(i - 1 + n)
    BY <1>0
  <2> QED
    BY <1>7, <1>10, <2>1
<1>13. ASSUME NEW j \in 1..n PROVE r[i - 1 + j] = mid[j]
  <2>1. i - 1 + j \in 1..(i - 1 + n)
    BY <1>0
  <2> QED
    BY <1>8, <1>10, <2>1
<1>14. ASSUME NEW j \in (i + 1)..l PROVE r[j + n - 1] = s[j]
  <2>1. PICK k : k = j - i
    OBVIOUS
  <2>2. k \in 1..(l - i) /\ i - 1 + n + k = j + n - 1 /\ i + k = j
    BY <1>0, <2>1
  <2>3. r[i - 1 + n + k] = c[k] /\ c[k] = s[i + k]
    BY <1>4, <1>11, <2>2
  <2> QED
    BY <2>2, <2>3
<1>15. DOMAIN r = 1..(l + n - 1)
  BY <1>9
<1> QED
  BY <1>9, <1>12, <1>13, <1>14, <1>15

(* What an argument means stands before the command that it is of.         *)
LEMMA MeansEarlier ==
  ASSUME Inv, NEW v \in Created, command[v].means # None, NEW t, t = Meant(command[v].means)
  PROVE  /\ t \in Created /\ Before(Spot(t), Spot(v))
         /\ command[v].nested => Kind(t) = "call"
         /\ v \in ToSet(commands)
         /\ command[v].arg.at \in DOMAIN commands /\ commands[command[v].arg.at] = t
         /\ command[v].arg.nested = (Kind(t) = "split" \/ command[v].nested)
<1>1. PICK m \in Created : m = command[v].means
  BY DEF Inv, MeansInv, MeansFits
<1>2. /\ (command[v].nested => Kind(m) = "call") /\ Before(End(Spot(m)), Spot(v)) /\ ~IsThunk(v)
  BY <1>1 DEF Inv, MeansInv, MeansFits
<1>3. /\ t \in Created /\ (t = m \/ Earlier(t, m)) /\ (~Gone(m) => t = m)
  BY <1>1, MeantCorrect DEF Inv, MeantOK
<1>4. command[v].nested => Kind(t) = "call"
  BY <1>2, <1>3 DEF Gone, IsThunk
<1>5. v \in ToSet(commands)
  BY <1>2 DEF Inv, ListInv
<1>6. PICK p, q, x : p = Spot(t) /\ q = Spot(v) /\ x = Spot(m)
  OBVIOUS
<1>7. p \in Seq(Int) /\ q \in Seq(Int) /\ x \in Seq(Int)
  BY <1>3, <1>6, SpotTyped DEF Inv
<1>8. End(p) \in Seq(Int) /\ End(x) \in Seq(Int)
  BY <1>7, EndOf
<1>9. Before(End(p), q)
  <2>1. CASE t = m
    BY <1>2, <1>6, <2>1
  <2>2. CASE Earlier(t, m)
    <3>1. Before(End(p), End(x)) /\ Before(End(x), q)
      BY <1>2, <1>6, <2>2 DEF Earlier
    <3> QED
      BY <1>7, <1>8, <3>1, BeforeTransitive
  <2> QED
    BY <1>3, <2>1, <2>2
<1>10. Before(p, q)
  <2>1. /\ Len(End(p)) = Len(p) + 1 /\ End(p)[Len(p) + 1] = MaxCommands + 1
        /\ \A k \in 1..Len(p) : End(p)[k] = p[k] /\ MaxCommands \in Nat
    BY <1>7, EndOf
  <2>2. PICK k \in DOMAIN End(p) \cap DOMAIN q :
          End(p)[k] < q[k] /\ \A j \in 1..(k - 1) : End(p)[j] = q[j]
    BY <1>9 DEF Before
  <2>3. /\ DOMAIN End(p) = 1..(Len(p) + 1) /\ DOMAIN q = 1..Len(q) /\ DOMAIN p = 1..Len(p)
        /\ Len(p) \in Nat /\ Len(q) \in Nat /\ MaxCommands \in Nat
    <3>1. MaxCommands \in Nat /\ Len(p) \in Nat /\ Len(q) \in Nat
      BY <1>7, Sizes
    <3>2. DOMAIN q = 1..Len(q) /\ DOMAIN p = 1..Len(p)
      BY <1>7
    <3>3. DOMAIN End(p) = 1..Len(End(p))
      <4>1. PICK e : e = End(p)
        OBVIOUS
      <4>2. e \in Seq(Int)
        BY <1>8, <4>1
      <4>3. DOMAIN e = 1..Len(e)
        BY <4>2
      <4> QED
        BY <4>1, <4>3
    <3> QED
      BY <2>1, <3>1, <3>2, <3>3
  <2>4. \A j \in 1..Len(q) : q[j] <= MaxCommands
    <3>1. q = command[v].place
      BY <1>6, SpotTyped DEF Inv
    <3>2. \A j \in 1..Len(q) : q[j] \in 1..Len(command)
      BY <3>1, CommandTyped DEF Inv, PlacesInv
    <3>3. Len(command) <= MaxCommands /\ Len(command) \in Nat
      BY CommandTyped DEF Inv, Typed
    <3> QED
      BY <2>3, <3>2, <3>3
  <2>5. k \in 1..Len(p)
    <3>1. k # Len(p) + 1
      <4> SUFFICES ASSUME k = Len(p) + 1 PROVE FALSE
        OBVIOUS
      <4>1. MaxCommands + 1 < q[k] /\ q[k] <= MaxCommands /\ q[k] \in Int
        BY <1>7, <2>1, <2>2, <2>3, <2>4
      <4> QED
        BY <2>3, <4>1
    <3> QED
      BY <2>2, <2>3, <3>1
  <2>6. p[k] < q[k] /\ \A j \in 1..(k - 1) : p[j] = q[j]
    <3>1. \A j \in 1..(k - 1) : j \in 1..Len(p)
      BY <2>3, <2>5
    <3> QED
      BY <2>1, <2>2, <2>5, <3>1
  <2> QED
    BY <2>2, <2>3, <2>5, <2>6 DEF Before
<1> QED
  BY <1>1, <1>3, <1>4, <1>5, <1>6, <1>10 DEF Inv, ArgumentsFollow

(* A list without thunks stands in the order of its places.                *)
LEMMA InListOrder ==
  ASSUME Inv, \A x \in ToSet(commands) : ~IsThunk(x)
  PROVE  /\ DOMAIN section = {Root} /\ section[Root] = Items(commands)
         /\ \A i, j \in DOMAIN commands : i < j => Follows(commands[i], commands[j])
<1>1. DOMAIN section = {Root}
  BY DEF Inv, ForksInv
<1>2. section[Root] = Items(commands)
  BY <1>1 DEF Inv, ListedInv
<1>3. /\ DOMAIN section[Root] = DOMAIN commands
      /\ \A i \in DOMAIN commands : /\ section[Root][i].id = commands[i]
                                    /\ commands[i] \in ToSet(commands)
  BY <1>2 DEF Items, Item, ToSet
<1>4. ASSUME NEW i \in DOMAIN commands, NEW j \in DOMAIN commands, i < j
      PROVE  Follows(commands[i], commands[j])
  <2>1. InLine(section[Root][i], section[Root][j])
    BY <1>1, <1>3, <1>4 DEF Inv, OrderInv
  <2>2. Live(section[Root][i]) /\ Live(section[Root][j])
    BY <1>3 DEF Live
  <2> QED
    BY <1>3, <2>1, <2>2 DEF InLine
<1> QED
  BY <1>1, <1>2, <1>4

(* The loop of the resolver over the commands.                             *)
AfterStep(e, become, k) ==
  IF k = 0 THEN [commands |-> commands, arg |-> [v \in Created |-> command[v].arg]]
  ELSE IF commands[k] \notin DOMAIN become THEN e[k - 1]
  ELSE Replace(e[k - 1], commands[k], become[commands[k]])

After(become) == CHOOSE e : e = [k \in 0..Len(commands) |-> AfterStep(e, become, k)]

LEMMA ReplacedIsAfter == \A become : Replaced(become) = After(become)[Len(commands)]
BY DEF Replaced, After, AfterStep

LEMMA AfterExists ==
  ASSUME Typed, NEW become
  PROVE  \A k \in 0..Len(commands) : After(become)[k] = AfterStep(After(become), become, k)
<1> DEFINE Step(e, k) == AfterStep(e, become, k)
<1>1. PICK M : M = Len(commands)
  OBVIOUS
<1>2. M \in Nat
  BY <1>1 DEF Typed
<1> DEFINE Low(k) == {j \in 0..M : j < k}
           Until(k, e) == e = [j \in Low(k) |-> Step(e, j)]
           Stuck == {k \in Nat : ~\E e : Until(k, e)}
<1>3. Stuck = {}
  <2>1. SUFFICES ASSUME Stuck # {} PROVE FALSE
    OBVIOUS
  <2> HIDE DEF Until
  <2>2. PICK k \in Stuck : \A j \in Stuck : k <= j
    BY <2>1, LeastElement
  <2>3. k \in Nat /\ ~\E e : Until(k, e)
    BY <2>2
  <2>4. k # 0
    <3>1. Low(0) = {}
      OBVIOUS
    <3>2. Until(0, [j \in {} |-> 0])
      BY <3>1 DEF Until
    <3> QED
      BY <2>3, <3>2
  <2>5. k - 1 \in Nat /\ k - 1 \notin Stuck
    BY <2>2, <2>3, <2>4
  <2>6. PICK e : Until(k - 1, e)
    BY <2>5
  <2> DEFINE L == Low(k - 1)
             H == Low(k)
             g == [j \in H |-> Step(e, j)]
  <2>7. e = [j \in L |-> Step(e, j)]
    BY <2>6 DEF Until
  <2>8. L \subseteq H /\ \A j \in H : j # 0 => j - 1 \in L
    BY <1>2, <2>3
  <2> HIDE DEF L, H
  <2>9. \A j \in L : g[j] = e[j]
    BY <2>7, <2>8
  <2> HIDE DEF g
  <2>10. ASSUME NEW j \in H PROVE Step(g, j) = Step(e, j)
    BY <2>8, <2>9 DEF AfterStep
  <2>11. g = [j \in H |-> Step(g, j)]
    BY <2>10 DEF g
  <2>12. Until(k, g)
    BY <2>11 DEF Until, H
  <2> QED
    BY <2>3, <2>12
<1>4. Low(M + 1) = 0..M /\ M + 1 \in Nat
  BY <1>2
<1>5. \E e : Until(M + 1, e)
  <2> HIDE DEF Until
  <2> QED
    BY <1>3, <1>4
<1>6. PICK e : e = [k \in 0..M |-> Step(e, k)]
  BY <1>4, <1>5
<1>7. After(become) = [k \in 0..M |-> Step(After(become), k)]
  BY <1>1, <1>6 DEF After
<1> QED
  BY <1>1, <1>7

(* What the loop keeps, when it has replaced the intents done.             *)
Split(t, done, become) == Kind(t) = "split" \/ (t \in done /\ become[t] # "zero")

Aims(state, done, become, v) ==
  LET t == Meant(command[v].means)
      arg == state.arg[v]
  IN  /\ arg \in Arg
      /\ command[v].means = None => arg = NoArg
      /\ command[v].means # None =>
           /\ arg.at \in DOMAIN state.commands /\ state.commands[arg.at] = t
           /\ arg.nested = (Split(t, done, become) \/ command[v].nested)

Fits(state, done, become) ==
  /\ state.commands \in Seq(Int) /\ Len(commands) <= Len(state.commands)
  /\ \A i, j \in DOMAIN state.commands : i < j => Follows(state.commands[i], state.commands[j])
  /\ ToSet(state.commands) = ToSet(commands) \cup {-w : w \in {u \in done : become[u] = "merged"}}
  /\ DOMAIN state.arg = Created /\ \A v \in Created : Aims(state, done, become, v)

Becomes(become) == become \in [Intents -> {"zero", "split", "merged"}]

LEMMA IntentFacts ==
  ASSUME Inv, NEW u \in Intents
  PROVE  /\ u \in ToSet(commands) /\ u \in Int /\ u > 0 /\ u \in Created /\ Kind(u) = "intent"
         /\ -u \notin ToSet(commands) /\ Spot(-u) = Spot(u) /\ Spot(u) \in Seq(Int)
<1>1. u \in ToSet(commands) /\ u > 0 /\ Kind(u) = "intent"
  BY DEF Intents
<1>2. u \in Int /\ u \in Created /\ Spot(u) \in Seq(Int)
  BY <1>1, SpotTyped DEF Inv
<1>3. PICK y : y = -u /\ ~(y > 0) /\ -y = u
  BY <1>1, <1>2
<1>4. y \notin ToSet(commands)
  BY <1>1, <1>3, SpotTyped DEF Inv
<1>5. Spot(y) = Spot(u)
  BY <1>1, <1>3 DEF Spot
<1> QED
  BY <1>1, <1>2, <1>3, <1>4, <1>5

(* The list at any time: what is in it, and where.                         *)
LEMMA FitsList ==
  ASSUME Inv, NEW become, Becomes(become), NEW done \in SUBSET Intents, NEW st, Fits(st, done, become)
  PROVE  /\ \A x \in ToSet(st.commands) : x \in Int /\ x # 0 /\ Spot(x) \in Seq(Int)
         /\ \A i, j \in DOMAIN st.commands : st.commands[i] = st.commands[j] => i = j
         /\ \A u \in Intents \ done : u \in ToSet(st.commands) /\ -u \notin ToSet(st.commands)
<1>1. PICK c : c = st.commands
  OBVIOUS
<1>2. /\ c \in Seq(Int) /\ \A i, j \in DOMAIN c : i < j => Follows(c[i], c[j])
      /\ \A x : x \in ToSet(c) <=> x \in ToSet(commands) \/ \E w \in done : become[w] = "merged" /\ x = -w
  BY <1>1 DEF Fits
<1>3. ASSUME NEW x \in ToSet(c)
      PROVE  x \in Int /\ x # 0 /\ Spot(x) \in Seq(Int)
  <2>1. CASE x \in ToSet(commands)
    BY <2>1, SpotTyped DEF Inv
  <2>2. ASSUME NEW w \in done, x = -w
        PROVE  x \in Int /\ x # 0 /\ Spot(x) \in Seq(Int)
    BY <2>2, IntentFacts
  <2> QED
    BY <1>2, <2>1, <2>2
<1>4. \A i, j \in DOMAIN c : c[i] = c[j] => i = j
  <2>1. Sorted(c, InOrder)
    <3>1. \A i \in DOMAIN c : c[i] \in Int
      BY <1>2
    <3> QED
      BY <1>2, <3>1 DEF Sorted, InOrder
  <2>2. 0 \notin ToSet(c) /\ \A x \in ToSet(c) : Spot(x) \in Seq(Int)
    BY <1>3
  <2> QED
    BY <1>2, <2>1, <2>2, SortedOnce
<1>5. ASSUME NEW u \in Intents \ done
      PROVE  u \in ToSet(c) /\ -u \notin ToSet(c)
  <2>1. /\ u \in Int /\ -u \notin ToSet(commands) /\ u \in ToSet(commands)
    BY IntentFacts
  <2>2. \A w \in done : w \in Int /\ w # u
    BY IntentFacts
  <2>3. \A w \in done : -w # -u
    BY <2>1, <2>2
  <2> QED
    BY <1>2, <2>1, <2>3
<1> QED
  BY <1>1, <1>3, <1>4, <1>5

(* One intent, u at i, becomes n commands: r is the list then.             *)
Placed(c, r, u, i, n) ==
  /\ c \in Seq(Int) /\ Len(c) \in Nat /\ i \in 1..Len(c) /\ c[i] = u
  /\ n \in {1, 2} /\ r \in Seq(Int) /\ Len(r) = Len(c) + n - 1
  /\ \A j \in 1..(i - 1) : r[j] = c[j]
  /\ \A j \in (i + 1)..Len(c) : r[j + n - 1] = c[j]
  /\ r[i + n - 1] = u /\ (n = 2 => r[i] = -u)

LEMMA ReplacePlaces ==
  ASSUME Inv, NEW become, Becomes(become), NEW done \in SUBSET Intents, NEW st, Fits(st, done, become),
         NEW u \in Intents \ done, become[u] # "zero", NEW i, i = IndexIn(st.commands, u),
         NEW n, n = IF become[u] = "merged" THEN 2 ELSE 1
  PROVE  Placed(st.commands, Replace(st, u, become[u]).commands, u, i, n)
<1>1. PICK c : c = st.commands
  OBVIOUS
<1>2. PICK mid : mid = IF n = 2 THEN <<-u, u>> ELSE <<u>>
  OBVIOUS
<1>3. PICK r : r = Replace(st, u, become[u]).commands
  OBVIOUS
<1>4. c \in Seq(Int) /\ u \in Int /\ u \in ToSet(c) /\ n \in {1, 2}
  BY <1>1, FitsList, IntentFacts DEF Fits
<1>5. i \in DOMAIN c /\ c[i] = u
  BY <1>1, <1>4, IndexFound
<1>6. mid \in Seq(Int) /\ Len(mid) = n /\ mid[n] = u /\ (n = 2 => mid[1] = -u)
  <2>1. -u \in Int
    BY <1>4
  <2>2. PICK w : w = -u
    OBVIOUS
  <2>3. CASE n = 2
    <3>1. mid = <<w, u>> /\ w \in Int
      BY <1>2, <2>1, <2>2, <2>3
    <3> QED
      BY <1>4, <2>2, <2>3, <3>1
  <2>4. CASE n = 1
    <3>1. mid = <<u>>
      BY <1>2, <2>4
    <3> QED
      BY <1>4, <2>4, <3>1
  <2> QED
    BY <1>4, <2>3, <2>4
<1>7. r = SubSeq(c, 1, i - 1) \o mid \o SubSeq(c, i + 1, Len(c))
  BY <1>1, <1>2, <1>3 DEF Replace
<1>8. Spliced(c, i, mid, n, r)
  BY <1>4, <1>5, <1>6, <1>7 DEF Spliced
<1>9. /\ r \in Seq(Int) /\ Len(r) = Len(c) + n - 1
      /\ \A j \in 1..(i - 1) : r[j] = c[j]
      /\ \A j \in 1..n : r[i - 1 + j] = mid[j]
      /\ \A j \in (i + 1)..Len(c) : r[j + n - 1] = c[j]
  BY <1>8, Splice
<1>10. Len(c) \in Nat /\ i \in 1..Len(c) /\ i \in Int
  BY <1>4, <1>5
<1>11. r[i + n - 1] = u
  <2>1. n \in 1..n /\ i - 1 + n = i + n - 1
    BY <1>4, <1>10
  <2> QED
    BY <1>6, <1>9, <2>1
<1>12. n = 2 => r[i] = -u
  <2>1. 1 \in 1..n /\ i - 1 + 1 = i
    BY <1>4, <1>10
  <2> QED
    BY <1>6, <1>9, <2>1
<1>13. Placed(c, r, u, i, n)
  BY <1>4, <1>5, <1>9, <1>10, <1>11, <1>12 DEF Placed
<1> QED
  BY <1>1, <1>3, <1>13

(* Where an element of the new list comes from.                            *)
LEMMA PlacedOrigin ==
  ASSUME NEW c, NEW r, NEW u, NEW i, NEW n, Placed(c, r, u, i, n), NEW x \in DOMAIN r
  PROVE  \E o \in DOMAIN c :
           /\ x = IF o < i THEN o ELSE IF o > i THEN o + n - 1 ELSE x
           /\ o # i => r[x] = c[o]
           /\ o = i => x \in i..(i + n - 1) /\ (r[x] = u \/ (n = 2 /\ x = i /\ r[x] = -u))
<1>1. PICK l \in Nat : l = Len(c) /\ DOMAIN c = 1..l
  BY DEF Placed
<1>2. /\ i \in 1..l /\ n \in {1, 2} /\ c[i] = u
      /\ \A j \in 1..(i - 1) : r[j] = c[j]
      /\ \A j \in (i + 1)..l : r[j + n - 1] = c[j]
      /\ r[i + n - 1] = u /\ (n = 2 => r[i] = -u)
  BY <1>1 DEF Placed
<1>3. x \in 1..(l + n - 1)
  BY <1>1, SMTT(30) DEF Placed
<1>4. CASE x < i
  <2>1. x \in 1..(i - 1) /\ x \in 1..l /\ x # i
    BY <1>2, <1>3, <1>4
  <2> QED
    BY <1>1, <1>2, <1>4, <2>1
<1>5. CASE x > i + n - 1
  <2>1. PICK o : o = x - n + 1
    OBVIOUS
  <2>2. o \in (i + 1)..l /\ o + n - 1 = x /\ o \in 1..l /\ o > i /\ o # i /\ ~(o < i)
    BY <1>2, <1>3, <1>5, <2>1
  <2>3. r[x] = c[o]
    BY <1>2, <2>2
  <2> QED
    BY <1>1, <2>2, <2>3
<1>6. CASE x \in i..(i + n - 1)
  <2>1. x = i + n - 1 \/ (n = 2 /\ x = i)
    BY <1>2, <1>6
  <2>2. i \in 1..l /\ ~(i < i) /\ ~(i > i)
    BY <1>2
  <2> QED
    BY <1>1, <1>2, <1>6, <2>1, <2>2
<1>7. x < i \/ x > i + n - 1 \/ x \in i..(i + n - 1)
  BY <1>2, <1>3
<1> QED
  BY <1>4, <1>5, <1>6, <1>7

Inserted(c, r, u, n) ==
  /\ \A x, y \in DOMAIN r : x < y => Follows(r[x], r[y])
  /\ ToSet(r) = ToSet(c) \cup (IF n = 2 THEN {-u} ELSE {})

LEMMA ReplaceOrder ==
  ASSUME Inv, NEW become, Becomes(become), NEW done \in SUBSET Intents, NEW st, Fits(st, done, become),
         NEW u \in Intents \ done, NEW i, NEW n, NEW r, NEW c, c = st.commands,
         Placed(c, r, u, i, n)
  PROVE  Inserted(c, r, u, n)
<1>1. c = st.commands
  OBVIOUS
<1>2. /\ c \in Seq(Int) /\ \A a, b \in DOMAIN c : a < b => Follows(c[a], c[b])
      /\ -u \notin ToSet(c) /\ u \in Int /\ u > 0 /\ Spot(-u) = Spot(u)
  BY <1>1, FitsList, IntentFacts DEF Fits
<1>3. PICK l \in Nat : l = Len(c) /\ DOMAIN c = 1..l
  BY <1>2
<1>4. /\ i \in 1..l /\ n \in {1, 2} /\ c[i] = u /\ DOMAIN r = 1..(l + n - 1)
      /\ \A j \in 1..(i - 1) : r[j] = c[j]
      /\ \A j \in (i + 1)..l : r[j + n - 1] = c[j]
      /\ r[i + n - 1] = u /\ (n = 2 => r[i] = -u)
  <2>1. /\ i \in 1..l /\ n \in {1, 2} /\ c[i] = u /\ r \in Seq(Int) /\ Len(r) = l + n - 1
        /\ \A j \in 1..(i - 1) : r[j] = c[j]
        /\ \A j \in (i + 1)..l : r[j + n - 1] = c[j]
        /\ r[i + n - 1] = u /\ (n = 2 => r[i] = -u)
    BY <1>1, <1>3 DEF Placed
  <2>2. DOMAIN r = 1..Len(r)
    BY <2>1
  <2> QED
    BY <2>1, <2>2
<1>5. ASSUME NEW x \in DOMAIN r, NEW y \in DOMAIN r, x < y
      PROVE  Follows(r[x], r[y])
  <2>1. PICK a \in DOMAIN c :
           /\ x = IF a < i THEN a ELSE IF a > i THEN a + n - 1 ELSE x
           /\ a # i => r[x] = c[a]
           /\ a = i => x \in i..(i + n - 1) /\ (r[x] = u \/ (n = 2 /\ x = i /\ r[x] = -u))
    BY <1>1, PlacedOrigin
  <2>2. PICK b \in DOMAIN c :
           /\ y = IF b < i THEN b ELSE IF b > i THEN b + n - 1 ELSE y
           /\ b # i => r[y] = c[b]
           /\ b = i => y \in i..(i + n - 1) /\ (r[y] = u \/ (n = 2 /\ y = i /\ r[y] = -u))
    BY <1>1, PlacedOrigin
  <2>3. a \in Int /\ b \in Int /\ i \in Int /\ x \in Int /\ y \in Int
    BY <1>3, <1>4
  <2>4. a < b \/ (a = i /\ b = i)
    BY <1>4, <1>5, <2>1, <2>2, <2>3
  <2>5. Spot(r[x]) = Spot(c[a]) /\ Spot(r[y]) = Spot(c[b])
    BY <1>2, <1>4, <2>1, <2>2
  <2>6. CASE a < b
    <3>1. Follows(c[a], c[b])
      BY <1>2, <2>6
    <3>2. CASE Before(Spot(c[a]), Spot(c[b]))
      BY <2>5, <3>2 DEF Follows
    <3>3. CASE c[b] > 0 /\ c[a] = -c[b]
      <4>1. c[a] \in ToSet(c) /\ c[b] \in Int /\ c[a] \in Int
        BY <1>2 DEF ToSet
      <4>2. b # i
        BY <1>2, <1>4, <3>3, <4>1
      <4>3. a # i
        BY <1>2, <1>4, <3>3, <4>1
      <4>4. r[x] = c[a] /\ r[y] = c[b]
        BY <2>1, <2>2, <4>2, <4>3
      <4> QED
        BY <3>3, <4>4 DEF Follows
    <3> QED
      BY <3>1, <3>2, <3>3 DEF Follows
  <2>7. CASE a = i /\ b = i
    <3>1. x = i /\ y = i + 1 /\ n = 2
      BY <1>4, <1>5, <2>1, <2>2, <2>3, <2>7
    <3>2. r[x] = -u /\ r[y] = u
      <4>1. y = i + n - 1
        BY <2>3, <3>1
      <4> QED
        BY <1>4, <3>1, <4>1
    <3> QED
      BY <1>2, <3>2 DEF Follows
  <2> QED
    BY <2>4, <2>6, <2>7
<1>6. ToSet(r) = ToSet(c) \cup (IF n = 2 THEN {-u} ELSE {})
  <2>1. ASSUME NEW x \in DOMAIN r
        PROVE  r[x] \in ToSet(c) \cup (IF n = 2 THEN {-u} ELSE {})
    <3>1. PICK a \in DOMAIN c :
            /\ a # i => r[x] = c[a]
            /\ a = i => (r[x] = u \/ (n = 2 /\ x = i /\ r[x] = -u))
      BY <1>1, PlacedOrigin
    <3>2. c[a] \in ToSet(c) /\ u \in ToSet(c)
      BY <1>3, <1>4 DEF ToSet
    <3> QED
      BY <3>1, <3>2
  <2>2. ASSUME NEW a \in DOMAIN c
        PROVE  c[a] \in ToSet(r)
    <3>1. a \in 1..l /\ a \in Int /\ i \in Int
      BY <1>3, <1>4
    <3>2. CASE a < i
      <4>1. a \in 1..(i - 1) /\ a \in 1..(l + n - 1)
        BY <1>4, <3>1, <3>2
      <4> QED
        BY <1>4, <4>1 DEF ToSet
    <3>3. CASE a > i
      <4>1. a \in (i + 1)..l /\ a + n - 1 \in 1..(l + n - 1)
        BY <1>4, <3>1, <3>3
      <4> QED
        BY <1>4, <4>1 DEF ToSet
    <3>4. CASE a = i
      <4>1. i + n - 1 \in 1..(l + n - 1)
        BY <1>4
      <4> QED
        BY <1>4, <3>4, <4>1 DEF ToSet
    <3> QED
      BY <3>1, <3>2, <3>3, <3>4
  <2>3. n = 2 => -u \in ToSet(r)
    <3>1. i \in 1..(l + n - 1)
      BY <1>4
    <3> QED
      BY <1>4, <3>1 DEF ToSet
  <2>4. \A z \in ToSet(r) : z \in ToSet(c) \cup (IF n = 2 THEN {-u} ELSE {})
    BY <2>1 DEF ToSet
  <2>5. \A z \in ToSet(c) : z \in ToSet(r)
    BY <2>2 DEF ToSet
  <2> QED
    BY <2>3, <2>4, <2>5
<1> QED
  BY <1>5, <1>6 DEF Inserted

(* What an argument means stands before the command, at any time.          *)
LEMMA AimedBefore ==
  ASSUME Inv, NEW become, Becomes(become), NEW done \in SUBSET Intents, NEW st, Fits(st, done, become),
         NEW v \in Created, command[v].means # None
  PROVE  LET a == st.arg[v].at
             j == IndexIn(st.commands, v)
         IN  a \in DOMAIN st.commands /\ j \in DOMAIN st.commands /\ st.commands[j] = v /\ a < j
<1>1. PICK c, a, j : c = st.commands /\ a = st.arg[v].at /\ j = IndexIn(c, v)
  OBVIOUS
<1>2. PICK t : t = Meant(command[v].means)
  OBVIOUS
<1>3. t \in Created /\ Before(Spot(t), Spot(v)) /\ v \in ToSet(commands)
  BY <1>2, MeansEarlier
<1>4. /\ c \in Seq(Int) /\ ToSet(commands) \subseteq ToSet(c) /\ a \in DOMAIN c /\ c[a] = t
      /\ \A x, y \in DOMAIN c : x < y => Follows(c[x], c[y])
  BY <1>1, <1>2 DEF Fits, Aims
<1>5. j \in DOMAIN c /\ c[j] = v
  BY <1>1, <1>3, <1>4, IndexFound
<1>6. v > 0 /\ t > 0 /\ v \in Int /\ t \in Int /\ Spot(v) \in Seq(Int) /\ Spot(t) \in Seq(Int)
  BY <1>3, SpotTyped, CommandTyped DEF Inv
<1>7. ~Before(Spot(v), Spot(v)) /\ ~Before(Spot(v), Spot(t))
  BY <1>3, <1>6, BeforeIrreflexive, BeforeTransitive
<1>8. a # j
  <2> SUFFICES ASSUME a = j PROVE FALSE
    OBVIOUS
  <2>1. t = v
    BY <1>4, <1>5
  <2> QED
    BY <1>3, <1>7, <2>1
<1>9. ~(j < a)
  <2> SUFFICES ASSUME j < a PROVE FALSE
    OBVIOUS
  <2>1. Follows(v, t)
    BY <1>4, <1>5
  <2> QED
    BY <1>6, <1>7, <2>1 DEF Follows
<1>10. a \in Int /\ j \in Int
  BY <1>4, <1>5
<1> QED
  BY <1>1, <1>4, <1>5, <1>8, <1>9, <1>10

(* An argument when one more intent has been replaced.                     *)
Moved(arg, i, n, later) ==
  ToSplit(IF later THEN Shift(arg, i, n) ELSE arg, i, n)

LEMMA MovedIs ==
  ASSUME NEW arg \in Arg, NEW i \in Nat, NEW n \in {1, 2}, NEW later \in BOOLEAN, arg.at > i => later
  PROVE  /\ Moved(arg, i, n, later) \in Arg
         /\ arg.at < i => Moved(arg, i, n, later) = arg
         /\ arg.at > i => /\ Moved(arg, i, n, later).at = arg.at + n - 1
                          /\ Moved(arg, i, n, later).nested = arg.nested
         /\ arg.at = i /\ ~arg.nested =>
              Moved(arg, i, n, later).at = i + n - 1 /\ Moved(arg, i, n, later).nested
<1>1. arg.at \in Nat /\ arg.nested \in BOOLEAN /\ arg = [at |-> arg.at, nested |-> arg.nested]
  BY DEF Arg
<1>2. PICK at, m : at = arg.at /\ m = Moved(arg, i, n, later)
  OBVIOUS
<1>3. at + n - 1 \in Nat /\ i + n - 1 \in Nat
  BY <1>1, <1>2
<1>4. CASE at < i
  <2>1. ~(at > i) /\ ~(at = i)
    BY <1>1, <1>2, <1>4
  <2>2. m = arg
    BY <1>2, <2>1 DEF Moved, Shift, ToSplit
  <2> QED
    BY <1>2, <1>4, <2>1, <2>2
<1>5. CASE at > i
  <2>1. PICK e : e = Shift(arg, i, n)
    OBVIOUS
  <2>2. e = [arg EXCEPT !.at = at + n - 1]
    BY <1>2, <1>5, <2>1 DEF Shift
  <2>3. e = [at |-> at + n - 1, nested |-> arg.nested]
    BY <1>1, <2>2
  <2>4. e.at # i /\ ~(at < i) /\ at # i
    BY <1>1, <1>2, <1>5, <2>3
  <2>5. m = e
    BY <1>2, <1>5, <2>1, <2>4 DEF Moved, ToSplit
  <2> QED
    BY <1>1, <1>2, <1>3, <2>3, <2>4, <2>5 DEF Arg
<1>6. CASE at = i
  <2>1. ~(at > i) /\ ~(at < i)
    BY <1>1, <1>2, <1>6
  <2>2. m = ToSplit(arg, i, n)
    BY <1>2, <2>1 DEF Moved, Shift
  <2>3. m = IF ~arg.nested THEN [at |-> i + n - 1, nested |-> TRUE] ELSE arg
    BY <1>2, <1>6, <2>2 DEF ToSplit
  <2>4. CASE arg.nested
    <3>1. m = arg
      BY <2>3, <2>4
    <3> QED
      BY <1>2, <2>1, <2>4, <3>1
  <2>5. CASE ~arg.nested
    <3>1. m = [at |-> i + n - 1, nested |-> TRUE]
      BY <2>3, <2>5
    <3>2. m \in Arg /\ m.at = i + n - 1 /\ m.nested
      BY <1>3, <3>1 DEF Arg
    <3> QED
      BY <1>2, <2>1, <3>2
  <2> QED
    BY <2>4, <2>5
<1> QED
  BY <1>1, <1>2, <1>4, <1>5, <1>6

LEMMA ReplaceAims ==
  ASSUME Inv, NEW become, Becomes(become), NEW done \in SUBSET Intents, NEW st, Fits(st, done, become),
         NEW u \in Intents \ done, become[u] # "zero", NEW v \in Created
  PROVE  Aims(Replace(st, u, become[u]), done \cup {u}, become, v)
<1>1. PICK c, i, n, j, arg : /\ c = st.commands /\ i = IndexIn(c, u) /\ j = IndexIn(c, v)
                             /\ n = (IF become[u] = "merged" THEN 2 ELSE 1) /\ arg = st.arg[v]
  OBVIOUS
<1>2. PICK next : next = Replace(st, u, become[u])
  OBVIOUS
<1>3. PICK r : r = next.commands
  OBVIOUS
<1>4. Placed(c, r, u, i, n)
  BY <1>1, <1>2, <1>3, ReplacePlaces
<1>5. PICK later \in BOOLEAN : later = (v # u /\ v \in ToSet(c) /\ j > i)
  OBVIOUS
<1>6. next.arg[v] = Moved(arg, i, n, later)
  <2>1. v \in DOMAIN st.arg
    BY DEF Fits
  <2> QED
    BY <1>1, <1>2, <1>5, <2>1 DEF Replace, Moved
<1>7. /\ i \in Nat /\ i > 0 /\ n \in {1, 2} /\ c[i] = u /\ r[i + n - 1] = u /\ Len(c) \in Nat /\ i <= Len(c)
      /\ DOMAIN c = 1..Len(c) /\ r \in Seq(Int) /\ Len(r) = Len(c) + n - 1
  BY <1>4 DEF Placed
<1>8. DOMAIN r = 1..(Len(c) + n - 1)
  <2>1. DOMAIN r = 1..Len(r)
    BY <1>7
  <2> QED
    BY <1>7, <2>1
<1>9. arg \in Arg /\ Aims(st, done, become, v)
  BY <1>1 DEF Fits, Aims
<1>10. CASE command[v].means = None
  <2>1. arg = NoArg /\ NoArg.at < i
    BY <1>7, <1>9, <1>10, <1>1 DEF Aims, NoArg, None
  <2>2. Moved(arg, i, n, later) = NoArg
    <3>1. arg.at < i /\ ~(arg.at > i)
      BY <1>7, <2>1 DEF NoArg, None
    <3> QED
      BY <1>7, <1>9, <2>1, <3>1, MovedIs
  <2> QED
    BY <1>2, <1>6, <1>9, <1>10, <2>1, <2>2 DEF Aims
<1>11. CASE command[v].means # None
  <2>1. PICK t, a : t = Meant(command[v].means) /\ a = arg.at
    OBVIOUS
  <2>2. a \in DOMAIN c /\ c[a] = t /\ arg.nested = (Split(t, done, become) \/ command[v].nested)
    BY <1>1, <1>9, <1>11, <2>1 DEF Aims
  <2>3. j \in DOMAIN c /\ c[j] = v /\ a < j
    BY <1>1, <1>11, <2>1, AimedBefore
  <2>4. a \in Nat /\ j \in Nat /\ a > 0 /\ a <= Len(c)
    BY <1>7, <2>2, <2>3
  <2>5. a > i => later
    <3> SUFFICES ASSUME a > i PROVE later
      OBVIOUS
    <3>1. j > i /\ j # i
      BY <1>7, <2>3, <2>4
    <3>2. v # u
      BY <1>1, <3>1
    <3>3. v \in ToSet(c)
      BY <2>3 DEF ToSet
    <3> QED
      BY <1>5, <3>1, <3>2, <3>3
  <2>6. a # i => t # u
    <3>1. i \in DOMAIN c
      BY <1>7
    <3>2. \A x, y \in DOMAIN c : c[x] = c[y] => x = y
      BY <1>1, FitsList
    <3> QED
      BY <1>7, <2>2, <3>1, <3>2
  <2>7. PICK m : m = Moved(arg, i, n, later)
    OBVIOUS
  <2>8. /\ m \in Arg /\ (a < i => m = arg)
        /\ (a > i => m.at = a + n - 1 /\ m.nested = arg.nested)
        /\ (a = i /\ ~arg.nested => m.at = i + n - 1 /\ m.nested)
    BY <1>7, <1>9, <2>1, <2>5, <2>7, MovedIs, SMTT(30)
  <2>9. /\ m.at \in DOMAIN r /\ r[m.at] = t
        /\ m.nested = (Split(t, done \cup {u}, become) \/ command[v].nested)
    <3>1. CASE a < i
      <4>1. a \in 1..(i - 1) /\ a \in 1..(Len(c) + n - 1) /\ a # i
        BY <1>7, <2>4, <3>1
      <4>2. r[a] = t /\ m = arg
        BY <1>4, <2>2, <2>8, <3>1, <4>1 DEF Placed
      <4> QED
        BY <1>8, <2>1, <2>2, <2>6, <4>1, <4>2 DEF Split
    <3>2. CASE a > i
      <4>1. a \in (i + 1)..Len(c) /\ a + n - 1 \in 1..(Len(c) + n - 1) /\ a # i
        BY <1>7, <2>4, <3>2, SMTT(30)
      <4>2. r[a + n - 1] = t
        BY <1>4, <2>2, <4>1 DEF Placed
      <4> QED
        BY <1>8, <2>2, <2>6, <2>8, <3>2, <4>1, <4>2 DEF Split
    <3>3. CASE a = i
      <4>1. t = u
        BY <1>7, <2>2, <3>3
      <4>2. Kind(u) = "intent"
        BY IntentFacts
      <4>3. ~Split(t, done, become) /\ ~command[v].nested
        <5>1. command[v].nested => Kind(t) = "call"
          BY <1>11, <2>1, MeansEarlier
        <5>2. u \notin done
          OBVIOUS
        <5> QED
          BY <4>1, <4>2, <5>1, <5>2 DEF Split
      <4>4. m.at = i + n - 1 /\ m.nested
        BY <2>2, <2>8, <3>3, <4>3
      <4>5. i + n - 1 \in 1..(Len(c) + n - 1)
        BY <1>7
      <4>6. Split(t, done \cup {u}, become) = TRUE
        BY <4>1 DEF Split
      <4>7. m.nested = TRUE
        BY <2>8, <4>4 DEF Arg
      <4> QED
        BY <1>7, <1>8, <4>1, <4>4, <4>5, <4>6, <4>7
    <3> QED
      BY <1>7, <2>4, <3>1, <3>2, <3>3
  <2> QED
    BY <1>2, <1>3, <1>6, <1>11, <2>1, <2>7, <2>8, <2>9 DEF Aims
<1> QED
  BY <1>10, <1>11

LEMMA ReplaceFits ==
  ASSUME Inv, NEW become, Becomes(become), NEW done \in SUBSET Intents, NEW st, Fits(st, done, become),
         NEW u \in Intents \ done
  PROVE  Fits(Replace(st, u, become[u]), done \cup {u}, become)
<1>1. PICK next : next = Replace(st, u, become[u])
  OBVIOUS
<1>2. CASE become[u] = "zero"
  <2>1. next = st
    BY <1>1, <1>2 DEF Replace
  <2>2. {w \in done \cup {u} : become[w] = "merged"} = {w \in done : become[w] = "merged"}
    BY <1>2
  <2>3. \A t : Split(t, done \cup {u}, become) <=> Split(t, done, become)
    BY <1>2 DEF Split
  <2>4. ASSUME NEW v \in Created PROVE Aims(st, done \cup {u}, become, v)
    <3>1. Aims(st, done, become, v)
      BY DEF Fits
    <3>2. PICK t : t = Meant(command[v].means)
      OBVIOUS
    <3>3. /\ st.arg[v] \in Arg
          /\ command[v].means = None => st.arg[v] = NoArg
          /\ command[v].means # None =>
              /\ st.arg[v].at \in DOMAIN st.commands /\ st.commands[st.arg[v].at] = t
              /\ st.arg[v].nested = (Split(t, done, become) \/ command[v].nested)
      BY <3>1, <3>2 DEF Aims
    <3>4. (Split(t, done \cup {u}, become) \/ command[v].nested) = (Split(t, done, become) \/ command[v].nested)
      BY <2>3
    <3> QED
      BY <3>2, <3>3, <3>4 DEF Aims
  <2> QED
    BY <1>1, <2>1, <2>2, <2>4 DEF Fits
<1>3. CASE become[u] # "zero"
  <2>1. PICK c, i, n, r : /\ c = st.commands /\ i = IndexIn(c, u) /\ r = next.commands
                          /\ n = (IF become[u] = "merged" THEN 2 ELSE 1)
    OBVIOUS
  <2>2. Placed(c, r, u, i, n)
    BY <1>1, <1>3, <2>1, ReplacePlaces
  <2>3. /\ \A x, y \in DOMAIN r : x < y => Follows(r[x], r[y])
        /\ ToSet(r) = ToSet(c) \cup (IF n = 2 THEN {-u} ELSE {})
    <3>1. Inserted(c, r, u, n)
      BY <2>1, <2>2, ReplaceOrder
    <3> QED
      BY <3>1 DEF Inserted
  <2>4. {-w : w \in {x \in done \cup {u} : become[x] = "merged"}}
          = {-w : w \in {x \in done : become[x] = "merged"}} \cup (IF n = 2 THEN {-u} ELSE {})
    <3>1. CASE become[u] = "merged"
      <4>1. {x \in done \cup {u} : become[x] = "merged"} = {x \in done : become[x] = "merged"} \cup {u}
        BY <3>1
      <4>2. n = 2
        BY <2>1, <3>1
      <4> QED
        BY <4>1, <4>2
    <3>2. CASE become[u] # "merged"
      <4>1. {x \in done \cup {u} : become[x] = "merged"} = {x \in done : become[x] = "merged"}
        BY <3>2
      <4>2. n = 1
        BY <2>1, <3>2
      <4> QED
        BY <4>1, <4>2
    <3> QED
      BY <3>1, <3>2
  <2>5. ToSet(c) = ToSet(commands) \cup {-w : w \in {x \in done : become[x] = "merged"}}
    BY <2>1 DEF Fits
  <2>6. ToSet(r) = ToSet(commands) \cup {-w : w \in {x \in done \cup {u} : become[x] = "merged"}}
    BY <2>3, <2>4, <2>5
  <2>7. r \in Seq(Int) /\ Len(commands) <= Len(r)
    <3>1. r \in Seq(Int) /\ n \in {1, 2} /\ Len(r) = Len(c) + n - 1 /\ Len(c) \in Nat
      BY <2>2 DEF Placed
    <3>2. Len(commands) <= Len(c)
      BY <2>1 DEF Fits
    <3>3. Len(commands) \in Nat
      BY DEF Inv, Typed
    <3> QED
      BY <3>1, <3>2, <3>3
  <2>8. DOMAIN next.arg = Created
    <3>1. DOMAIN st.arg = Created
      BY DEF Fits
    <3> QED
      BY <1>1, <1>3, <3>1 DEF Replace
  <2>9. \A v \in Created : Aims(next, done \cup {u}, become, v)
    BY <1>1, <1>3, ReplaceAims
  <2> QED
    BY <1>1, <2>1, <2>3, <2>6, <2>7, <2>8, <2>9 DEF Fits
<1> QED
  BY <1>2, <1>3

(* The loop, from its start to its end.                                    *)
Done(k) == {u \in Intents : \E j \in 1..k : commands[j] = u}

LEMMA LoopFits ==
  ASSUME Inv, NEW become, Becomes(become), \A x \in ToSet(commands) : ~IsThunk(x)
  PROVE  Fits(Replaced(become), Intents, become)
<1> DEFINE e == After(become)
           Good(k) == Fits(e[k], Done(k), become)
           Bad == {k \in 0..Len(commands) : ~Good(k)}
<1>1. Len(commands) \in Nat /\ DOMAIN commands = 1..Len(commands)
  BY DEF Inv, Typed
<1>2. \A k \in 0..Len(commands) : e[k] = AfterStep(e, become, k)
  BY AfterExists DEF Inv
<1>3. DOMAIN become = Intents
  BY DEF Becomes
<1> HIDE DEF e
<1>4. Good(0)
  <2>1. PICK st : st = e[0]
    OBVIOUS
  <2>2. st = [commands |-> commands, arg |-> [v \in Created |-> command[v].arg]]
    BY <1>1, <1>2, <2>1 DEF AfterStep
  <2>3. Done(0) = {}
    BY DEF Done
  <2>4. \A i, j \in DOMAIN commands : i < j => Follows(commands[i], commands[j])
    BY InListOrder
  <2>5. ASSUME NEW v \in Created PROVE Aims(st, {}, become, v)
    <3>1. st.arg[v] = command[v].arg /\ st.commands = commands
      BY <2>2
    <3>2. command[v].arg \in Arg
      BY CommandTyped DEF Inv, Use
    <3>3. command[v].means = None => command[v].arg = NoArg
      BY DEF Inv, MeansInv, MeansFits
    <3>4. PICK t : t = Meant(command[v].means)
      OBVIOUS
    <3>5. Split(t, {}, become) <=> Kind(t) = "split"
      BY DEF Split
    <3>6. command[v].means # None =>
            /\ command[v].arg.at \in DOMAIN commands /\ commands[command[v].arg.at] = t
            /\ command[v].arg.nested = (Kind(t) = "split" \/ command[v].nested)
      BY <3>4, MeansEarlier
    <3>7. (Split(t, {}, become) \/ command[v].nested) = (Kind(t) = "split" \/ command[v].nested)
      BY <3>5
    <3> QED
      BY <3>1, <3>2, <3>3, <3>4, <3>6, <3>7 DEF Aims
  <2>6. DOMAIN st.arg = Created /\ st.commands = commands
    BY <2>2
  <2>7. ToSet(commands) = ToSet(commands) \cup {-w : w \in {u \in {} : become[u] = "merged"}}
    OBVIOUS
  <2>8. commands \in Seq(Int)
    BY DEF Inv, Typed
  <2>9. Len(commands) <= Len(commands)
    BY <1>1
  <2>10. Fits(st, {}, become)
    BY <2>4, <2>5, <2>6, <2>7, <2>8, <2>9 DEF Fits
  <2> QED
    BY <2>1, <2>3, <2>10
<1>5. ASSUME NEW k \in 1..Len(commands), Good(k - 1)
      PROVE  Good(k)
  <2>1. k # 0 /\ k \in 0..Len(commands) /\ k \in DOMAIN commands
    BY <1>1
  <2>2. PICK u : u = commands[k]
    OBVIOUS
  <2>3. \A w : w \in Done(k) <=> w \in Done(k - 1) \/ (w \in Intents /\ w = u)
    <3>1. 1..k = 1..(k - 1) \cup {k}
      BY <1>1
    <3> QED
      BY <2>2, <3>1 DEF Done
  <2>4. CASE u \notin Intents
    <3>1. e[k] = e[k - 1]
      BY <1>2, <1>3, <2>1, <2>2, <2>4 DEF AfterStep
    <3>2. Done(k) = Done(k - 1)
      BY <2>3, <2>4
    <3> QED
      BY <1>5, <3>1, <3>2
  <2>5. CASE u \in Intents
    <3>1. e[k] = Replace(e[k - 1], u, become[u])
      BY <1>2, <1>3, <2>1, <2>2, <2>5 DEF AfterStep
    <3>2. Done(k) = Done(k - 1) \cup {u}
      BY <2>3, <2>5
    <3>3. u \notin Done(k - 1)
      <4>1. \A j \in 1..(k - 1) : j \in DOMAIN commands /\ j # k
        BY <1>1
      <4> QED
        BY <2>1, <2>2, <4>1 DEF Done, Inv, ListInv
    <3>4. Done(k - 1) \in SUBSET Intents
      BY DEF Done
    <3>5. Fits(Replace(e[k - 1], u, become[u]), Done(k - 1) \cup {u}, become)
      BY <1>5, <2>5, <3>3, <3>4, ReplaceFits
    <3> QED
      BY <3>1, <3>2, <3>5
  <2> QED
    BY <2>4, <2>5
<1> HIDE DEF Good
<1>6. Bad = {}
  <2>1. SUFFICES ASSUME Bad # {} PROVE FALSE
    OBVIOUS
  <2>2. Bad \subseteq Nat
    BY <1>1
  <2>3. PICK k \in Bad : \A j \in Bad : k <= j
    BY <2>1, <2>2, LeastElement
  <2>4. k \in 0..Len(commands) /\ ~Good(k) /\ k # 0
    BY <1>4, <2>3
  <2>5. k \in 1..Len(commands) /\ k - 1 \in 0..Len(commands) /\ ~(k <= k - 1)
    BY <1>1, <2>4
  <2>6. k - 1 \notin Bad
    BY <2>3, <2>5
  <2>7. Good(k - 1)
    BY <2>5, <2>6
  <2> QED
    BY <1>5, <2>4, <2>5, <2>7
<1>7. Good(Len(commands))
  <2>1. Len(commands) \in 0..Len(commands)
    BY <1>1
  <2> QED
    BY <1>6, <2>1
<1>8. Done(Len(commands)) = Intents
  BY <1>1 DEF Done, Intents, ToSet
<1>9. Replaced(become) = e[Len(commands)]
  BY ReplacedIsAfter DEF e
<1> QED
  BY <1>7, <1>8, <1>9 DEF Good

(* The results that are still those of the same commands, and are no coins *)
(* of a SplitCoins.                                                        *)
StillUsed(end, become) ==
  {u \in StillRefer(end.commands) : commands[handle[u]] \in Intents => become[commands[handle[u]]] = "zero"}

(* What ResolveIntents does, with the end of the loop as a constant.       *)
ResolvedTo(end, become) ==
  /\ Becomes(become) /\ Fits(end, Intents, become)
  /\ aliased /\ ~rejected /\ pending = {} /\ DOMAIN section = {Root}
  /\ \A x \in ToSet(commands) : ~IsThunk(x)
  /\ commands' = end.commands /\ section' = [s \in {Root} |-> Items(end.commands)]
  /\ DOMAIN command' = Created
  /\ \A v \in Created :
       command'[v] = [command[v] EXCEPT !.arg = end.arg[v],
                                        !.kind = IF v \notin Intents THEN command[v].kind
                                                 ELSE IF become[v] = "zero" THEN "call" ELSE "split"]
  /\ aliased' = FALSE /\ phase' = "open" /\ held' = StillUsed(end, become)
  /\ UNCHANGED <<available, handle, pending, result, rejected>>

LEMMA ResolveFacts ==
  ASSUME Inv, Careful, ResolveIntents
  PROVE  \E end, become : ResolvedTo(end, become) /\ command' = [u \in Created |-> command'[u]]
<1>1. aliased /\ ~rejected /\ DOMAIN section = {Root}
  BY DEF ResolveIntents, Inv, PhaseInv
<1>2. pending = {}
  BY <1>1 DEF Inv, Typed
<1>3. \A x \in ToSet(commands) : ~IsThunk(x)
  <2>1. \A x \in ToSet(commands) : x # Root
    BY SpotTyped DEF Inv, Root
  <2> QED
    BY <1>1, <2>1 DEF Inv, ForksInv
<1>4. PICK become \in [Intents -> {"zero", "split", "merged"}] :
        /\ commands' = Replaced(become).commands
        /\ section' = [s \in {Root} |-> Items(Replaced(become).commands)]
        /\ command' = [v \in Created |->
              [command[v] EXCEPT
                !.arg = Replaced(become).arg[v],
                !.kind = IF v \notin Intents THEN @
                         ELSE IF become[v] = "zero" THEN "call" ELSE "split"]]
        /\ held' = StillUsed(Replaced(become), become)
  BY DEF ResolveIntents, StillUsed
<1>5. Becomes(become)
  BY DEF Becomes
<1>6. PICK end : end = Replaced(become)
  OBVIOUS
<1>7. Fits(end, Intents, become)
  BY <1>3, <1>5, <1>6, LoopFits
<1>8. /\ commands' = end.commands /\ section' = [s \in {Root} |-> Items(end.commands)]
      /\ command' = [v \in Created |->
              [command[v] EXCEPT
                !.arg = end.arg[v],
                !.kind = IF v \notin Intents THEN @
                         ELSE IF become[v] = "zero" THEN "call" ELSE "split"]]
      /\ held' = StillUsed(end, become)
  BY <1>4, <1>6
<1>9. DOMAIN command' = Created /\ command' = [u \in Created |-> command'[u]]
  BY <1>8
<1>10. \A v \in Created :
       command'[v] = [command[v] EXCEPT !.arg = end.arg[v],
                                        !.kind = IF v \notin Intents THEN command[v].kind
                                                 ELSE IF become[v] = "zero" THEN "call" ELSE "split"]
  <2>1. \A v \in Created : command[v] \in Use
    BY CommandTyped DEF Inv
  <2> QED
    BY <1>8, <2>1 DEF Use
<1>11. /\ aliased' = FALSE /\ phase' = "open"
       /\ UNCHANGED <<available, handle, pending, result, rejected>>
  BY DEF ResolveIntents, thunkVars
<1>12. ResolvedTo(end, become)
  BY <1>1, <1>2, <1>3, <1>5, <1>7, <1>8, <1>9, <1>10, <1>11 DEF ResolvedTo
<1> QED
  BY <1>9, <1>12

LEMMA ResolvedStays ==
  ASSUME Inv, NEW end, NEW become, ResolvedTo(end, become)
  PROVE  /\ Created' = Created
         /\ \A u \in Created :
              /\ command'[u] \in Use
              /\ command'[u].place = command[u].place
              /\ command'[u].means = command[u].means
              /\ command'[u].nested = command[u].nested
              /\ command'[u].arg = end.arg[u]
              /\ command[u].means = None => command'[u].arg = command[u].arg
              /\ command'[u].kind = IF u \notin Intents THEN command[u].kind
                                    ELSE IF become[u] = "zero" THEN "call" ELSE "split"
              /\ u \in Intents => command[u].kind = "intent"
              /\ command'[u].kind = "split" <=> Split(u, Intents, become)
<1>1. Created' = Created
  BY DEF ResolvedTo, Created
<1>2. ASSUME NEW u \in Created
      PROVE  /\ command'[u] \in Use
             /\ command'[u].place = command[u].place
             /\ command'[u].means = command[u].means
             /\ command'[u].nested = command[u].nested
             /\ command'[u].arg = end.arg[u]
             /\ command[u].means = None => command'[u].arg = command[u].arg
             /\ command'[u].kind = IF u \notin Intents THEN command[u].kind
                                   ELSE IF become[u] = "zero" THEN "call" ELSE "split"
             /\ u \in Intents => command[u].kind = "intent"
             /\ command'[u].kind = "split" <=> Split(u, Intents, become)
  <2>1. command[u] \in Use
    BY CommandTyped DEF Inv
  <2>2. PICK a, k : /\ a = end.arg[u]
                    /\ k = IF u \notin Intents THEN command[u].kind
                           ELSE IF become[u] = "zero" THEN "call" ELSE "split"
    OBVIOUS
  <2>3. command'[u] = [command[u] EXCEPT !.arg = a, !.kind = k]
    BY <2>2 DEF ResolvedTo
  <2>4. a \in Arg /\ (command[u].means = None => a = NoArg)
    BY <2>2 DEF ResolvedTo, Fits, Aims
  <2>5. k \in {"call", "intent", "split", "thunk", "void"}
    BY <2>1, <2>2 DEF Use
  <2>6. command'[u] \in Use /\ command'[u].place = command[u].place
        /\ command'[u].means = command[u].means /\ command'[u].nested = command[u].nested
        /\ command'[u].arg = a /\ command'[u].kind = k
    BY <2>1, <2>3, <2>4, <2>5 DEF Use
  <2>7. command[u].means = None => command[u].arg = NoArg
    BY DEF Inv, MeansInv, MeansFits
  <2>8. u \in Intents => command[u].kind = "intent"
    BY DEF Intents, Kind
  <2>9. k = "split" <=> Split(u, Intents, become)
    BY <2>2, <2>8 DEF Split, Kind
  <2> QED
    BY <2>2, <2>4, <2>6, <2>7, <2>8, <2>9
<1> QED
  BY <1>1, <1>2

LEMMA ResolvedTyped ==
  ASSUME Inv, NEW end, NEW become, ResolvedTo(end, become), command' = [u \in Created |-> command'[u]]
  PROVE  Typed' /\ Len(command') = Len(command)
<1>1. /\ Created' = Created /\ Created = 1..Len(command) /\ Len(command) \in Nat
      /\ \A u \in Created : command'[u] \in Use
  BY ResolvedStays, CommandTyped DEF Inv
<1>2. command' \in Seq(Use) /\ Len(command') = Len(command)
  <2>1. PICK n \in Nat : n = Len(command)
    BY <1>1
  <2>2. command' \in [1..n -> Use]
    BY <1>1, <2>1
  <2> QED
    BY <2>1, <2>2
<1>3. PICK f : f = end.commands
  OBVIOUS
<1>4. f \in Seq(Int) /\ commands' = f /\ section' = [s \in {Root} |-> Items(f)]
  BY <1>3 DEF ResolvedTo, Fits
<1>5. Items(f) \in Seq(Entry)
  <2>1. PICK n \in Nat : n = Len(f) /\ DOMAIN f = 1..n
    BY <1>4
  <2>2. \A i \in 1..n : Item("command", f[i]) \in Entry
    BY <1>4, <2>1 DEF Item, Entry
  <2>3. Items(f) \in [1..n -> Entry]
    BY <2>1, <2>2 DEF Items
  <2> QED
    BY <2>3
<1>6. DOMAIN section' = {Root} /\ section' \in [DOMAIN section' -> Seq(Entry)] /\ Root \in Nat
  BY <1>4, <1>5 DEF Root
<1>7. available' \in [DOMAIN section' -> SUBSET Nat]
  BY <1>6 DEF Inv, Typed, ResolvedTo
<1>8. /\ handle' \in Seq(Nat) /\ Len(handle') = Len(command) /\ Len(command) <= MaxCommands
      /\ result' \in [Id -> {None} \cup Created] /\ held' \subseteq Created /\ pending' = {}
      /\ aliased' = FALSE /\ rejected' = FALSE /\ phase' = "open"
  BY DEF Inv, Typed, ResolvedTo, StillUsed, StillRefer
<1> QED
  BY <1>1, <1>2, <1>4, <1>6, <1>7, <1>8 DEF Typed

LEMMA ResolvedKept ==
  ASSUME Inv, NEW end, NEW become, ResolvedTo(end, become)
  PROVE  Kept /\ ToSet(commands') \cap Created = ToSet(commands) \cap Created
<1>1. ToSet(end.commands) = ToSet(commands) \cup {-w : w \in {u \in Intents : become[u] = "merged"}}
  BY DEF ResolvedTo, Fits
<1>2. \A w \in Intents : -w \notin Created
  <2>1. \A u \in Created : u \in Int /\ u > 0
    BY CommandTyped DEF Inv
  <2>2. \A w \in Intents : w \in Int /\ w > 0
    BY IntentFacts
  <2>3. \A w \in Int : w > 0 => ~(-w > 0)
    OBVIOUS
  <2> QED
    BY <2>1, <2>2, <2>3
<1>3. ToSet(commands') \cap Created = ToSet(commands) \cap Created
  <2>1. ToSet(commands') = ToSet(end.commands)
    BY DEF ResolvedTo
  <2>2. ASSUME NEW x \in Created
        PROVE  x \in ToSet(end.commands) <=> x \in ToSet(commands)
    <3>1. \A w \in Intents : x # -w
      BY <1>2
    <3> QED
      BY <1>1, <3>1
  <2> QED
    BY <2>1, <2>2
<1>4. \A x \in ToSet(commands') \cap Created : command[x].kind \notin {"thunk", "void"}
  BY <1>3 DEF ResolvedTo, IsThunk, Kind
<1>5. \A u \in Created : command'[u].kind = command[u].kind
                         \/ (command[u].kind = "intent" /\ command'[u].kind \in {"call", "split"})
  BY ResolvedStays
<1>6. DOMAIN section' = {Root} /\ pending' = {} /\ result' = result
  BY DEF ResolvedTo
<1> QED
  BY <1>3, <1>4, <1>5, <1>6, ResolvedStays DEF Kept

(* What the list has then, and where.                                      *)
LEMMA ResolvedList ==
  ASSUME Inv, NEW end, NEW become, ResolvedTo(end, become), Kept
  PROVE  /\ \A x \in ToSet(end.commands) :
              /\ x \in Created \/ (-x \in Created /\ Kind(-x)' = "split")
              /\ Spot(x)' = Spot(x)
         /\ \A u \in Created : ~IsThunk(u) => u \in ToSet(end.commands)
<1>1. \A x : x \in ToSet(end.commands) <=>
               x \in ToSet(commands) \/ \E w \in Intents : become[w] = "merged" /\ x = -w
  BY DEF ResolvedTo, Fits
<1>2. ASSUME NEW x \in ToSet(end.commands)
      PROVE  x \in Created \/ (x \in Int /\ ~(x > 0) /\ -x \in Created /\ Kind(-x)' = "split")
  <2>1. CASE x \in ToSet(commands)
    <3>1. /\ x \in Int /\ (x > 0 => x \in Created)
          /\ (~(x > 0) => -x \in Created /\ Kind(-x) = "split")
      BY <2>1, SpotTyped DEF Inv
    <3>2. PICK y : y = -x
      OBVIOUS
    <3>3. y \in Created /\ Kind(y) = "split" => Kind(y)' = "split"
      BY DEF Kept, Kind
    <3>4. Kind(-x)' = Kind(y)'
      BY <3>2
    <3> QED
      BY <3>1, <3>2, <3>3, <3>4
  <2>2. ASSUME NEW w \in Intents, become[w] = "merged", x = -w
        PROVE  x \in Int /\ ~(x > 0) /\ -x \in Created /\ Kind(-x)' = "split"
    <3>1. w \in Int /\ w > 0 /\ w \in Created
      BY IntentFacts
    <3>2. x \in Int /\ ~(x > 0) /\ -x = w
      BY <2>2, <3>1
    <3>3. Kind(w)' = "split"
      BY <2>2, <3>1, ResolvedStays DEF Kind
    <3>4. Kind(-x)' = Kind(w)'
      BY <3>2
    <3> QED
      BY <3>1, <3>2, <3>3, <3>4
  <2> QED
    BY <1>1, <2>1, <2>2
<1>3. ASSUME NEW x \in ToSet(end.commands)
      PROVE  Spot(x)' = Spot(x)
  <2>1. CASE x \in Created
    BY <2>1, KeptInv
  <2>2. CASE x \in Int /\ ~(x > 0) /\ -x \in Created
    BY <2>2 DEF Spot, Kept
  <2> QED
    BY <1>2, <2>1, <2>2
<1>4. \A u \in Created : ~IsThunk(u) => u \in ToSet(end.commands)
  BY <1>1 DEF Inv, ListInv
<1> QED
  BY <1>2, <1>3, <1>4

LEMMA ResolvedPlain ==
  ASSUME Inv, NEW end, NEW become, ResolvedTo(end, become), Typed', Kept
  PROVE  Plain' /\ PhaseInv' /\ AvailableInv'
<1>1. PICK c : c = end.commands
  OBVIOUS
<1>2. /\ commands' = c /\ Len(commands) <= Len(c) /\ c \in Seq(Int)
      /\ \A i, j \in DOMAIN c : i < j => Follows(c[i], c[j])
  BY <1>1 DEF ResolvedTo, Fits
<1>3. \A i, j \in DOMAIN c : c[i] = c[j] => i = j
  <2>1. Becomes(become) /\ Fits(end, Intents, become) /\ Intents \in SUBSET Intents
    BY DEF ResolvedTo
  <2> QED
    BY <1>1, <2>1, FitsList
<1>4. ASSUME NEW i \in DOMAIN c, NEW j \in DOMAIN c, i < j
      PROVE  Follows(commands[i], commands[j])'
  <2>1. PICK x, y : x = c[i] /\ y = c[j]
    OBVIOUS
  <2>2. Follows(x, y) /\ x \in ToSet(c) /\ y \in ToSet(c)
    BY <1>2, <1>4, <2>1 DEF ToSet
  <2>3. Spot(x)' = Spot(x) /\ Spot(y)' = Spot(y)
    BY <1>1, <2>2, ResolvedList
  <2>4. Follows(x, y)'
    BY <2>2, <2>3 DEF Follows, Before
  <2>5. x = (commands[i])' /\ y = (commands[j])'
    BY <1>2, <2>1
  <2> QED
    BY <2>4, <2>5
<1>5. ListInv'
  <2>1. \A x \in ToSet(c) : x \in Created' \/ (-x \in Created' /\ Kind(-x)' = "split")
    BY <1>1, ResolvedList DEF Kept
  <2>2. ASSUME NEW u \in Created, ~(IsThunk(u))'
        PROVE  u \in ToSet(c)
    <3>1. ~IsThunk(u)
      BY <2>2, KeptInv
    <3> QED
      BY <1>1, <3>1, ResolvedList
  <2>3. ToSet(commands') = ToSet(c) /\ Created' = Created
    BY <1>2 DEF Kept
  <2> QED
    BY <1>2, <1>3, <2>1, <2>2, <2>3 DEF ListInv
<1>6. Plain'
  <2>1. section' = [s \in {Root} |-> Items(commands')]
    BY <1>1, <1>2 DEF ResolvedTo
  <2>2. PlacesInv' /\ \A x \in ToSet(commands') : ~(IsThunk(x))'
    BY KeptInv
  <2> QED
    BY <1>2, <1>4, <1>5, <2>1, <2>2 DEF Plain, Items, Item
<1>7. PhaseInv'
  BY DEF PhaseInv, ResolvedTo
<1>8. AvailableInv'
  <2>1. available'[Root] \subseteq DOMAIN commands /\ DOMAIN section' = {Root}
    BY DEF Inv, AvailableInv, ResolvedTo
  <2>2. DOMAIN commands \subseteq DOMAIN commands'
    <3>1. commands \in Seq(Int)
      BY DEF Inv, Typed
    <3>2. DOMAIN commands = 1..Len(commands) /\ DOMAIN c = 1..Len(c) /\ Len(commands) \in Nat /\ Len(c) \in Nat
      BY <1>2, <3>1
    <3> QED
      BY <1>2, <3>2
  <2> QED
    BY <2>1, <2>2 DEF AvailableInv
<1> QED
  BY <1>6, <1>7, <1>8

LEMMA ResolvedMeant ==
  ASSUME Inv, NEW end, NEW become, ResolvedTo(end, become), Typed', Kept,
         ToSet(commands') \cap Created = ToSet(commands) \cap Created
  PROVE  \A v \in Created : Meant(v)' = Meant(v)
<1>1. ResultInv' /\ result' = result
  BY KeptInv DEF ResolvedTo
<1>2. \A v \in Created : ((Gone(v))' <=> Gone(v)) /\ (Gone(v) => result'[v] = result[v])
  <2>1. ASSUME NEW v \in Created PROVE (Gone(v))' <=> Gone(v)
    <3>1. (IsThunk(v))' <=> IsThunk(v)
      BY KeptInv
    <3>2. v \in ToSet(commands') <=> v \in ToSet(commands)
      OBVIOUS
    <3> QED
      BY <1>1, <3>1, <3>2 DEF Gone, Resolves
  <2> QED
    BY <1>1, <2>1
<1>3. Created \subseteq Created'
  BY DEF Kept
<1> QED
  BY <1>1, <1>2, <1>3, MeantStays DEF Inv

LEMMA ResolvedHeld ==
  ASSUME Inv, NEW end, NEW become, ResolvedTo(end, become), Typed', Kept,
         ToSet(commands') \cap Created = ToSet(commands) \cap Created
  PROVE  HeldInv'
<1>1. held' = StillUsed(end, become) /\ commands' = end.commands /\ handle' = handle
  BY DEF ResolvedTo
<1>2. ASSUME NEW u \in held'
      PROVE  /\ u \in Created /\ handle'[u] \in DOMAIN commands' /\ commands'[handle'[u]] = Meant(u)'
             /\ Kind(Meant(u))' # "split"
  <2>1. u \in held /\ u \in Created
    BY <1>1, <1>2 DEF StillUsed, StillRefer, Inv, Typed
  <2>2. PICK w \in Created : w = Meant(u)
    BY <2>1, MeantCorrect DEF Inv, MeantOK
  <2>3. handle[u] \in DOMAIN commands /\ commands[handle[u]] = w /\ Kind(w) # "split"
    BY <2>1, <2>2 DEF Inv, HeldInv
  <2>4. w \in ToSet(commands)
    BY <2>3 DEF ToSet
  <2>5. ~Placeholder(u)
    <3>1. Placeholder(u) => u \in ToSet(commands) /\ IsThunk(u)
      BY DEF Placeholder
    <3> QED
      BY <3>1 DEF ResolvedTo
  <2>6. handle[u] \in DOMAIN end.commands /\ end.commands[handle[u]] = w
    BY <1>1, <1>2, <2>3, <2>5 DEF StillUsed, StillRefer, Placeholder
  <2>7. w \in Intents => become[w] = "zero"
    BY <1>1, <1>2, <2>3 DEF StillUsed
  <2>8. Kind(w)' # "split"
    <3>1. command'[w].kind = IF w \notin Intents THEN command[w].kind
                             ELSE IF become[w] = "zero" THEN "call" ELSE "split"
      BY ResolvedStays
    <3> QED
      BY <2>3, <2>7, <3>1 DEF Kind
  <2>9. w = Meant(u)'
    BY <2>1, <2>2, ResolvedMeant
  <2>10. Kind(Meant(u))' = Kind(w)'
    BY <2>9
  <2> QED
    BY <1>1, <2>1, <2>6, <2>8, <2>9, <2>10
<1>3. ASSUME NEW u \in Created
      PROVE  Before(End(Spot(u)), End(Base(Root)))'
  <2>1. Spot(u)' = Spot(u) /\ Base(Root)' = <<>>
    BY <1>3, KeptInv DEF Base
  <2>2. Before(End(Spot(u)), End(<<>>))
    BY EndsInRoot DEF Inv
  <2> QED
    BY <2>1, <2>2 DEF Before, End
<1>4. DOMAIN section' = {Root}
  BY DEF Kept
<1> QED
  BY <1>2, <1>3, <1>4 DEF HeldInv

LEMMA ResolvedArguments ==
  ASSUME Inv, NEW end, NEW become, ResolvedTo(end, become), Typed', Kept,
         ToSet(commands') \cap Created = ToSet(commands) \cap Created
  PROVE  ArgumentsFollow'
<1>1. \A v \in Created : Meant(v)' = Meant(v)
  BY ResolvedMeant
<1> SUFFICES ASSUME NEW u \in ToSet(commands') \cap Created, command'[u].means # None
             PROVE  LET target == Meant(command[u].means)'
                        arg == command'[u].arg
                    IN  /\ arg.at \in DOMAIN commands' /\ commands'[arg.at] = target
                        /\ arg.nested = (command'[target].kind = "split" \/ command'[u].nested)
  BY DEF ArgumentsFollow, Kind, Kept
<1>2. /\ command[u].means # None /\ command'[u].means = command[u].means
      /\ command'[u].nested = command[u].nested /\ command'[u].arg = end.arg[u]
  BY ResolvedStays
<1>3. PICK m \in Created : m = command[u].means
  BY <1>2 DEF Inv, MeansInv, MeansFits
<1>4. PICK t \in Created : t = Meant(m)
  BY <1>3, MeantCorrect DEF Inv, MeantOK
<1>5. Meant(command[u].means)' = t
  <2>1. m = (command[u].means)'
    BY <1>2, <1>3
  <2>2. Meant(command[u].means)' = Meant(m)'
    BY <2>1
  <2> QED
    BY <1>1, <1>4, <2>2
<1>6. /\ end.arg[u].at \in DOMAIN end.commands /\ end.commands[end.arg[u].at] = t
      /\ end.arg[u].nested = (Split(t, Intents, become) \/ command[u].nested)
  <2>1. Aims(end, Intents, become, u)
    BY DEF ResolvedTo, Fits
  <2> QED
    BY <1>2, <1>3, <1>4, <2>1 DEF Aims
<1>7. command'[t].kind = "split" <=> Split(t, Intents, become)
  BY ResolvedStays
<1>8. commands' = end.commands
  BY DEF ResolvedTo
<1> QED
  BY <1>2, <1>5, <1>6, <1>7, <1>8

LEMMA ResolveIntentsInv ==
  ASSUME Inv, Careful, ResolveIntents
  PROVE  Inv'
<1>1. PICK end, become : ResolvedTo(end, become) /\ command' = [u \in Created |-> command'[u]]
  BY ResolveFacts
<1>2. Typed'
  BY <1>1, ResolvedTyped
<1>3. Kept /\ ToSet(commands') \cap Created = ToSet(commands) \cap Created
  BY <1>1, ResolvedKept
<1>4. Plain' /\ PhaseInv' /\ AvailableInv'
  BY <1>1, <1>2, <1>3, ResolvedPlain
<1>5. ForksInv' /\ ListedInv' /\ OrderInv'
  BY <1>4, PlainSection, PTL
<1>6. ArgumentsFollow' /\ HeldInv'
  BY <1>1, <1>2, <1>3, ResolvedArguments, ResolvedHeld
<1> QED
  BY <1>2, <1>3, <1>4, <1>5, <1>6, KeptInv DEF Inv, Plain
(* Steps that add commands, and at most forks for them.                    *)
NewCommandFits(u) ==
  /\ command'[u].kind \in {"call", "intent", "thunk"}
  /\ Len(command'[u].place) > 0
  /\ \A k \in 1..Len(command'[u].place) : command'[u].place[k] \in Created'
  /\ command'[u].means = None => command'[u].arg = NoArg /\ ~command'[u].nested
  /\ command'[u].means # None =>
       LET m == command'[u].means
       IN  /\ m \in held /\ Kind(m) # "void" /\ command'[u].kind # "thunk"
           /\ command'[u].arg = [at |-> handle[m], nested |-> command'[u].nested]
           /\ command'[u].nested => Kind(m) = "call"
           /\ Before(End(Spot(m)), command'[u].place)

Extended ==
  /\ ~aliased /\ UNCHANGED <<aliased, result, rejected, phase>>
  /\ Created \subseteq Created'
  /\ \A u \in Created : command'[u] = command[u] /\ handle'[u] = handle[u]
  /\ \A u \in Created' \ Created : NewCommandFits(u)
  /\ DOMAIN commands \subseteq DOMAIN commands'
  /\ \A i \in DOMAIN commands : commands'[i] = commands[i]
  /\ \A i \in DOMAIN commands' \ DOMAIN commands :
       commands'[i] \in Created' \ Created /\ handle'[commands'[i]] = i
  /\ \A u \in Created' \ Created :
       handle'[u] \in DOMAIN commands' \ DOMAIN commands /\ commands'[handle'[u]] = u
  /\ held' = held \cup (Created' \ Created)
  /\ DOMAIN section \subseteq DOMAIN section'
  /\ pending' = pending \cup (DOMAIN section' \ DOMAIN section)
  /\ \A f \in DOMAIN section' \ DOMAIN section : f \in Created' \ Created /\ command'[f].kind = "thunk"

LEMMA ExtendedStays ==
  ASSUME Inv, Typed', Extended
  PROVE  /\ ToSet(commands') = ToSet(commands) \cup (Created' \ Created)
         /\ \A u \in Created : /\ ((IsThunk(u))' <=> IsThunk(u)) /\ Kind(u)' = Kind(u)
                               /\ Spot(u)' = Spot(u)
         /\ \A x \in ToSet(commands) : ((IsThunk(x))' <=> IsThunk(x)) /\ Spot(x)' = Spot(x)
<1>1. ToSet(commands') = ToSet(commands) \cup (Created' \ Created)
  <2>1. ASSUME NEW x \in ToSet(commands') PROVE x \in ToSet(commands) \cup (Created' \ Created)
    <3>1. PICK i \in DOMAIN commands' : commands'[i] = x
      BY DEF ToSet
    <3> QED
      BY <3>1 DEF Extended, ToSet
  <2>2. ASSUME NEW x \in ToSet(commands) PROVE x \in ToSet(commands')
    <3>1. PICK i \in DOMAIN commands : commands[i] = x
      BY DEF ToSet
    <3> QED
      BY <3>1 DEF Extended, ToSet
  <2>3. ASSUME NEW x \in Created' \ Created PROVE x \in ToSet(commands')
    <3>1. PICK i \in DOMAIN commands' : commands'[i] = x
      BY DEF Extended
    <3> QED
      BY <3>1 DEF ToSet
  <2> QED
    BY <2>1, <2>2, <2>3
<1>2. ASSUME NEW u \in Created
      PROVE  ((IsThunk(u))' <=> IsThunk(u)) /\ Kind(u)' = Kind(u) /\ Spot(u)' = Spot(u)
  <2>1. u > 0 /\ command'[u] = command[u] /\ u \in Created'
    BY SpotTyped DEF Inv, Extended
  <2> QED
    BY <2>1 DEF IsThunk, Kind, Spot
<1>3. ASSUME NEW x \in ToSet(commands) PROVE ((IsThunk(x))' <=> IsThunk(x)) /\ Spot(x)' = Spot(x)
  <2>1. CASE x > 0
    <3>1. x \in Created
      BY <2>1, SpotTyped DEF Inv
    <3> QED
      BY <1>2, <3>1
  <2>2. CASE ~(x > 0)
    <3>1. x \in Int /\ -x \in Created /\ ~IsThunk(x)
      BY <2>2, SpotTyped DEF Inv
    <3>2. command'[-x] = command[-x]
      BY <3>1 DEF Extended
    <3>3. x \notin Created'
      <4>1. Created' = 1..Len(command')
        BY DEF Typed, Created
      <4> QED
        BY <2>2, <3>1, <4>1
    <3> QED
      BY <2>2, <3>1, <3>2, <3>3 DEF Spot, IsThunk
  <2> QED
    BY <2>1, <2>2
<1> QED
  BY <1>1, <1>2, <1>3

LEMMA ExtendedList ==
  ASSUME Inv, Typed', Extended
  PROVE  PlacesInv' /\ ListInv' /\ PhaseInv'
<1>1. PlacesInv'
  <2> SUFFICES ASSUME NEW u \in Created'
               PROVE  /\ Len(command'[u].place) > 0
                      /\ \A k \in 1..Len(command'[u].place) : command'[u].place[k] \in Created'
    BY DEF PlacesInv
  <2>1. CASE u \in Created
    BY <2>1 DEF Inv, PlacesInv, Extended
  <2>2. CASE u \notin Created
    BY <2>2 DEF Extended, NewCommandFits
  <2> QED
    BY <2>1, <2>2
<1>2. ListInv'
  <2>1. ASSUME NEW i \in DOMAIN commands', NEW j \in DOMAIN commands', commands'[i] = commands'[j]
        PROVE  i = j
    <3>1. CASE i \in DOMAIN commands /\ j \in DOMAIN commands
      BY <2>1, <3>1 DEF Inv, ListInv, Extended
    <3>2. CASE i \notin DOMAIN commands /\ j \notin DOMAIN commands
      <4>1. handle'[commands'[i]] = i /\ handle'[commands'[j]] = j
        BY <3>2 DEF Extended
      <4> QED
        BY <2>1, <4>1
    <3>3. ASSUME NEW a \in DOMAIN commands, NEW b \in DOMAIN commands' \ DOMAIN commands
          PROVE  commands'[a] # commands'[b]
      <4>1. commands'[a] = commands[a] /\ commands[a] \in ToSet(commands)
        BY DEF Extended, ToSet
      <4>2. commands'[b] \in Created' \ Created
        BY DEF Extended
      <4>3. PICK x : x = commands[a]
        OBVIOUS
      <4>4. x \in Int /\ (x > 0 => x \in Created)
        BY <4>1, <4>3, SpotTyped DEF Inv
      <4>5. \A y \in Created' : y > 0
        BY DEF Typed, Created
      <4> QED
        BY <4>1, <4>2, <4>3, <4>4, <4>5
    <3> QED
      BY <2>1, <3>1, <3>2, <3>3
  <2>2. ASSUME NEW x \in ToSet(commands')
        PROVE  x \in Created' \/ (-x \in Created' /\ Kind(-x)' = "split")
    <3>1. CASE x \in Created'
      BY <3>1
    <3>2. CASE x \notin Created'
      <4>1. x \in ToSet(commands) /\ x \notin Created
        BY <3>2, ExtendedStays DEF Extended
      <4>2. -x \in Created /\ Kind(-x) = "split"
        BY <4>1 DEF Inv, ListInv
      <4>3. PICK y \in Created : y = -x
        BY <4>2
      <4>4. Kind(y)' = "split" /\ y \in Created'
        BY <4>2, <4>3, ExtendedStays DEF Extended
      <4> QED
        BY <4>3, <4>4 DEF Kind
    <3> QED
      BY <3>1, <3>2
  <2>3. ASSUME NEW u \in Created', ~(IsThunk(u))' PROVE u \in ToSet(commands')
    <3>1. CASE u \in Created
      BY <2>3, <3>1, ExtendedStays DEF Inv, ListInv
    <3>2. CASE u \notin Created
      BY <3>2, ExtendedStays
    <3> QED
      BY <3>1, <3>2
  <2> QED
    BY <2>1, <2>2, <2>3 DEF ListInv
<1>3. PhaseInv'
  BY DEF Inv, PhaseInv, Extended
<1> QED
  BY <1>1, <1>2, <1>3

LEMMA ExtendedResults ==
  ASSUME Inv, Typed', Extended
  PROVE  ResultInv'
<1>1. ASSUME NEW f \in Id, result'[f] # None
      PROVE  /\ f \in Created' /\ Kind(f)' = "thunk" /\ f \notin pending'
             /\ Kind(result[f])' # "void"
             /\ Before(End(Spot(result[f])), End(Spot(f)))'
  <2>1. result' = result /\ result[f] # None
    BY <1>1 DEF Extended
  <2>2. /\ f \in Created /\ Kind(f) = "thunk" /\ f \notin pending /\ Kind(result[f]) # "void"
        /\ Before(End(Spot(result[f])), End(Spot(f)))
    BY <2>1 DEF Inv, ResultInv
  <2>3. PICK r \in Created : r = result[f]
    BY <2>1 DEF Inv, Typed
  <2>4. r = (result[f])'
    BY <2>1, <2>3
  <2>5. /\ Kind(f)' = "thunk" /\ Kind(r)' = Kind(r) /\ Spot(f)' = Spot(f) /\ Spot(r)' = Spot(r)
    BY <2>2, ExtendedStays
  <2>6. End(Spot(r))' = End(Spot(r)) /\ End(Spot(f))' = End(Spot(f))
    BY <2>5 DEF End
  <2>7. Before(End(Spot(r)), End(Spot(f)))'
    BY <2>2, <2>3, <2>6 DEF Before
  <2>8. Kind(result[f])' # "void" /\ Before(End(Spot(result[f])), End(Spot(f)))'
    <3>1. Kind(r)' # "void"
      BY <2>2, <2>3, <2>5
    <3> QED
      BY <2>4, <2>7, <3>1
  <2>9. f \in Created' /\ f \notin pending'
    BY <2>2 DEF Extended
  <2> QED
    BY <2>5, <2>8, <2>9
<1>2. ASSUME NEW f \in DOMAIN section' \ {Root}
      PROVE  f \in pending' \/ Kind(f)' = "void" \/ result'[f] # None \/ rejected'
  <2>1. CASE f \in DOMAIN section
    <3>1. f \in pending \/ Kind(f) = "void" \/ result[f] # None \/ rejected
      BY <2>1 DEF Inv, ResultInv
    <3>2. f \in Created
      BY <2>1, SectionsBounded DEF Inv
    <3> QED
      BY <3>1, <3>2, ExtendedStays DEF Extended
  <2>2. CASE f \notin DOMAIN section
    BY <2>2 DEF Extended
  <2> QED
    BY <2>1, <2>2
<1>3. ASSUME NEW f \in pending'
      PROVE  Kind(f)' = "thunk"
  <2>1. CASE f \in pending
    <3>1. Kind(f) = "thunk" /\ f \in Created
      BY <2>1, SectionsBounded DEF Inv, ResultInv, Typed
    <3> QED
      BY <3>1, ExtendedStays
  <2>2. CASE f \notin pending
    BY <2>2 DEF Extended, Kind
  <2> QED
    BY <2>1, <2>2
<1> QED
  BY <1>1, <1>2, <1>3 DEF ResultInv

LEMMA HeldMeans ==
  ASSUME Inv, NEW m \in held
  PROVE  /\ m \in Created /\ Meant(m) \in Created
         /\ handle[m] \in DOMAIN commands /\ commands[handle[m]] = Meant(m) /\ Kind(Meant(m)) # "split"
<1>1. m \in Created
  BY DEF Inv, Typed
<1>2. Meant(m) \in Created
  BY <1>1, MeantCorrect DEF Inv, MeantOK
<1> QED
  BY <1>1, <1>2 DEF Inv, HeldInv

LEMMA ExtendedMeant ==
  ASSUME Inv, Typed', Extended
  PROVE  /\ \A v \in Created : Meant(v)' = Meant(v)
         /\ \A v \in Created' \ Created : v \in ToSet(commands')
<1>1. ResultInv'
  BY ExtendedResults
<1>2. ASSUME NEW v \in Created
      PROVE  ((Gone(v))' <=> Gone(v)) /\ result'[v] = result[v]
  <2>1. (IsThunk(v))' <=> IsThunk(v)
    BY ExtendedStays
  <2>2. v \in ToSet(commands') <=> v \in ToSet(commands)
    BY ExtendedStays
  <2>3. result' = result
    BY DEF Extended
  <2> QED
    BY <2>1, <2>2, <2>3 DEF Gone, Resolves
<1>3. Created \subseteq Created'
  BY DEF Extended
<1>4. \A v \in Created : Meant(v)' = Meant(v)
  BY <1>1, <1>2, <1>3, MeantStays DEF Inv
<1> QED
  BY <1>4, ExtendedStays

LEMMA NewMeant ==
  ASSUME Inv, Typed', Extended, NEW v \in Created' \ Created
  PROVE  v = Meant(v)' /\ Kind(Meant(v))' = Kind(v)'
<1>1. MeantOK'
  <2>1. ResultInv'
    BY ExtendedResults
  <2> QED
    BY <2>1, MeantCorrect, PTL
<1>2. ~(Gone(v))'
  BY ExtendedMeant DEF Gone
<1>3. v = Meant(v)'
  BY <1>1, <1>2 DEF MeantOK
<1>4. Kind(Meant(v))' = Kind(v)'
  BY <1>3
<1> QED
  BY <1>3, <1>4

LEMMA ExtendedReturns ==
  ASSUME Inv, Typed', Extended
  PROVE  ReturnInv'
<1> SUFFICES ASSUME NEW f \in Id, result'[f] # None, f \in ToSet(commands')
             PROVE  /\ handle'[result'[f]] \in DOMAIN commands'
                    /\ commands'[handle'[result'[f]]] = Meant(result[f])'
                    /\ Kind(Meant(result[f]))' # "split"
  BY DEF ReturnInv
<1>1. result' = result /\ result[f] # None
  BY DEF Extended
<1>2. PICK r \in Created : r = result[f]
  BY <1>1 DEF Inv, Typed
<1>3. PICK w \in Created : w = Meant(r)
  BY <1>2, MeantCorrect DEF Inv, MeantOK
<1>4. f \in ToSet(commands)
  <2>1. f \in Created
    BY <1>1 DEF Inv, ResultInv
  <2> QED
    BY <2>1, ExtendedStays
<1>5. handle[r] \in DOMAIN commands /\ commands[handle[r]] = w /\ Kind(w) # "split"
  BY <1>1, <1>2, <1>3, <1>4 DEF Inv, ReturnInv
<1>6. handle'[r] \in DOMAIN commands' /\ commands'[handle'[r]] = w
  BY <1>5 DEF Extended
<1>7. r = (result[f])' /\ Meant(r)' = w
  BY <1>1, <1>2, <1>3, ExtendedMeant
<1>8. w = Meant(result[f])'
  <2>1. Meant(result[f])' = Meant(r)'
    BY <1>7
  <2> QED
    BY <1>7, <2>1
<1>9. Kind(Meant(result[f]))' # "split"
  <2>1. Kind(w)' # "split"
    BY <1>5, ExtendedStays
  <2>2. Kind(Meant(result[f]))' = Kind(w)'
    BY <1>8
  <2> QED
    BY <2>1, <2>2
<1> QED
  BY <1>6, <1>7, <1>8, <1>9

LEMMA ExtendedMeans ==
  ASSUME Inv, Typed', Extended
  PROVE  MeansInv'
<1> SUFFICES ASSUME NEW u \in Created' PROVE MeansFits(u)'
  BY DEF MeansInv
<1>1. u > 0
  BY DEF Typed, Created
<1>2. ASSUME command'[u].means # None, NEW m, m = command'[u].means, m \in Created, Kind(m) # "void",
             command'[u].nested => Kind(m) = "call", Before(End(Spot(m)), command'[u].place),
             ~(IsThunk(u))'
      PROVE  MeansFits(u)'
  <2>1. m = (command[u].means)'
    BY <1>2
  <2>2. Kind(m)' = Kind(m) /\ Spot(m)' = Spot(m) /\ m \in Created'
    BY <1>2, ExtendedStays DEF Extended
  <2>3. End(Spot(m))' = End(Spot(m))
    BY <2>2 DEF End
  <2>4. Spot(u)' = command'[u].place
    BY <1>1 DEF Spot
  <2>5. Before(End(Spot(m)), Spot(u))'
    BY <1>2, <2>3, <2>4 DEF Before
  <2>6. Before(End(Spot(command[u].means)), Spot(u))'
    BY <2>1, <2>5
  <2>7. Kind(m)' # "void" /\ (command'[u].nested => Kind(m)' = "call")
    BY <1>2, <2>2
  <2>8. Kind(command[u].means)' # "void" /\ (command'[u].nested => Kind(command[u].means)' = "call")
    BY <2>1, <2>7
  <2> QED
    BY <1>2, <2>2, <2>6, <2>8 DEF MeansFits
<1>3. CASE u \in Created
  <2>1. command'[u] = command[u] /\ MeansFits(u)
    BY <1>3 DEF Extended, Inv, MeansInv
  <2>2. CASE command[u].means = None
    BY <2>1, <2>2 DEF MeansFits
  <2>3. CASE command[u].means # None
    <3>1. PICK m : m = command[u].means
      OBVIOUS
    <3>2. /\ m \in Created /\ Kind(m) # "void" /\ (command[u].nested => Kind(m) = "call")
          /\ Before(End(Spot(m)), Spot(u)) /\ ~IsThunk(u)
      BY <2>1, <2>3, <3>1 DEF MeansFits
    <3>3. Spot(u) = command'[u].place /\ ~(IsThunk(u))'
      BY <1>1, <1>3, <2>1, <3>2, ExtendedStays DEF Spot
    <3> QED
      BY <1>2, <2>1, <2>3, <3>1, <3>2, <3>3
  <2> QED
    BY <2>2, <2>3
<1>4. CASE u \notin Created
  <2>1. NewCommandFits(u)
    BY <1>4 DEF Extended
  <2>2. CASE command'[u].means = None
    BY <2>1, <2>2 DEF MeansFits, NewCommandFits
  <2>3. CASE command'[u].means # None
    <3>1. PICK m : m = command'[u].means
      OBVIOUS
    <3>2. /\ m \in held /\ Kind(m) # "void" /\ command'[u].kind # "thunk"
          /\ (command'[u].nested => Kind(m) = "call") /\ Before(End(Spot(m)), command'[u].place)
          /\ command'[u].kind \in {"call", "intent", "thunk"}
      BY <2>1, <2>3, <3>1 DEF NewCommandFits
    <3>3. m \in Created
      BY <3>2, HeldMeans
    <3>4. ~(IsThunk(u))'
      BY <3>2 DEF IsThunk, Kind
    <3> QED
      BY <1>2, <2>3, <3>1, <3>2, <3>3, <3>4
  <2> QED
    BY <2>2, <2>3
<1> QED
  BY <1>3, <1>4

Follow(u) ==
  command[u].means # None =>
    LET target == Meant(command[u].means)
        arg == command[u].arg
    IN  /\ arg.at \in DOMAIN commands /\ commands[arg.at] = target
        /\ arg.nested = (Kind(target) = "split" \/ command[u].nested)

LEMMA ExtendedArguments ==
  ASSUME Inv, Typed', Extended
  PROVE  ArgumentsFollow'
<1>0. ASSUME NEW u \in ToSet(commands') \cap Created'
      PROVE  Follow(u)'
  <2>1. ASSUME command'[u].means # None, NEW m, m = command'[u].means, NEW t \in Created, t = Meant(m),
               m \in Created, NEW a, a = command'[u].arg, a.at \in DOMAIN commands, commands[a.at] = t,
               a.nested = (Kind(t) = "split" \/ command'[u].nested)
        PROVE  Follow(u)'
    <3>1. m = (command[u].means)' /\ Meant(m)' = t
      BY <2>1, ExtendedMeant
    <3>2. Meant(command[u].means)' = t
      <4>1. Meant(command[u].means)' = Meant(m)'
        BY <3>1
      <4> QED
        BY <3>1, <4>1
    <3>3. Kind(t)' = Kind(t)
      BY ExtendedStays
    <3>4. t = (Meant(command[u].means))'
      BY <3>2
    <3>5. Kind(Meant(command[u].means))' = Kind(t)'
      BY <3>4
    <3>6. a.at \in DOMAIN commands' /\ commands'[a.at] = t
      BY <2>1 DEF Extended
    <3> QED
      BY <2>1, <3>2, <3>3, <3>5, <3>6 DEF Follow
  <2>2. CASE u \in Created
    <3>1. command'[u] = command[u]
      BY <2>2 DEF Extended
    <3>2. CASE command[u].means # None
      <4>1. PICK m : m = command[u].means
        OBVIOUS
      <4>2. m \in Created
        BY <2>2, <3>2, <4>1 DEF Inv, MeansInv, MeansFits
      <4>3. PICK t : t = Meant(m)
        OBVIOUS
      <4>4. PICK a : a = command[u].arg
        OBVIOUS
      <4>5. /\ t \in Created /\ a.at \in DOMAIN commands /\ commands[a.at] = t
            /\ a.nested = (Kind(t) = "split" \/ command[u].nested)
        BY <2>2, <3>2, <4>1, <4>3, <4>4, MeansEarlier
      <4> QED
        BY <2>1, <3>1, <3>2, <4>1, <4>2, <4>3, <4>4, <4>5
    <3>3. CASE command[u].means = None
      BY <3>1, <3>3 DEF Follow
    <3> QED
      BY <3>2, <3>3
  <2>3. CASE u \notin Created
    <3>1. NewCommandFits(u)
      BY <2>3 DEF Extended
    <3>2. CASE command'[u].means # None
      <4>1. PICK m : m = command'[u].means
        OBVIOUS
      <4>2. /\ m \in held /\ command'[u].arg = [at |-> handle[m], nested |-> command'[u].nested]
        BY <3>1, <3>2, <4>1 DEF NewCommandFits
      <4>3. PICK t \in Created : /\ m \in Created /\ t = Meant(m) /\ handle[m] \in DOMAIN commands
                                 /\ commands[handle[m]] = t /\ Kind(t) # "split"
        BY <4>2, HeldMeans
      <4>4. command'[u].nested \in BOOLEAN
        <5>1. command' \in Seq(Use) /\ Created' = DOMAIN command'
          BY DEF Typed, Created
        <5>2. command'[u] \in Use
          BY <1>0, <5>1
        <5> QED
          BY <5>2 DEF Use
      <4>5. PICK a : a = command'[u].arg
        OBVIOUS
      <4>6. a.at = handle[m] /\ a.nested = command'[u].nested
        BY <4>2, <4>5
      <4>7. a.nested = (Kind(t) = "split" \/ command'[u].nested)
        BY <4>3, <4>4, <4>6
      <4> QED
        BY <2>1, <3>2, <4>1, <4>3, <4>5, <4>6, <4>7
    <3>3. CASE command'[u].means = None
      BY <3>3 DEF Follow
    <3> QED
      BY <3>2, <3>3
  <2> QED
    BY <2>2, <2>3
<1> QED
  BY <1>0 DEF ArgumentsFollow, Follow

(* Places of what is added next.                                           *)
LEMMA PlaceNext ==
  ASSUME NEW b \in Seq(Int), NEW u \in Int
  PROVE  /\ b \o <<u>> \in Seq(Int) /\ Len(b \o <<u>>) = Len(b) + 1 /\ (b \o <<u>>)[Len(b) + 1] = u
         /\ \A k \in 1..Len(b) : (b \o <<u>>)[k] = b[k]
         /\ Under(b, b \o <<u>>)
<1>1. PICK n \in Nat : n = Len(b)
  OBVIOUS
<1>2. PICK c : c = b \o <<u>>
  OBVIOUS
<1>3. c \in Seq(Int) /\ Len(c) = n + 1 /\ c[n + 1] = u /\ \A k \in 1..n : c[k] = b[k]
  BY <1>1, <1>2
<1>4. Under(b, c)
  BY <1>1, <1>3 DEF Under
<1> QED
  BY <1>1, <1>2, <1>3, <1>4

LEMMA PlaceCreated ==
  ASSUME NEW b \in Seq(Int), NEW u \in Int, NEW C, u \in C, \A k \in 1..Len(b) : b[k] \in C
  PROVE  Len(b \o <<u>>) > 0 /\ \A k \in 1..Len(b \o <<u>>) : (b \o <<u>>)[k] \in C
<1>1. PICK n \in Nat : n = Len(b)
  OBVIOUS
<1>2. PICK c : c = b \o <<u>>
  OBVIOUS
<1>3. /\ Len(c) = n + 1 /\ c[n + 1] = u /\ \A k \in 1..n : c[k] = b[k]
  BY <1>1, <1>2, PlaceNext
<1>4. ASSUME NEW k \in 1..(n + 1) PROVE c[k] \in C
  <2>1. CASE k = n + 1
    BY <1>3, <2>1
  <2>2. CASE k # n + 1
    <3>1. k \in 1..n
      BY <2>2
    <3> QED
      BY <1>1, <1>3, <3>1
  <2> QED
    BY <2>1, <2>2
<1> QED
  BY <1>1, <1>2, <1>3, <1>4

LEMMA AddedIsNext ==
  ASSUME NEW b \in Seq(Int), NEW q \in Seq(Int), NEW u \in Int, Under(b, q), q[Len(b) + 1] < u
  PROVE  Before(q, b \o <<u>>)
<1>1. PICK n \in Nat : n = Len(b)
  OBVIOUS
<1>2. PICK c : c = b \o <<u>>
  OBVIOUS
<1>3. c \in Seq(Int) /\ Len(c) = n + 1 /\ c[n + 1] = u /\ \A k \in 1..n : c[k] = b[k]
  BY <1>1, <1>2, PlaceNext
<1>4. n < Len(q) /\ Len(q) \in Nat /\ \A k \in 1..n : q[k] = b[k]
  BY <1>1 DEF Under
<1>5. DOMAIN q = 1..Len(q) /\ DOMAIN c = 1..Len(c)
  BY <1>3
<1>6. n + 1 \in DOMAIN q \cap DOMAIN c
  BY <1>3, <1>4, <1>5
<1>7. q[n + 1] < c[n + 1]
  BY <1>1, <1>3
<1>8. \A k \in 1..((n + 1) - 1) : q[k] = c[k]
  BY <1>3, <1>4
<1>9. Before(q, c)
  BY <1>6, <1>7, <1>8 DEF Before
<1> QED
  BY <1>2, <1>9

LEMMA AddedEndsBefore ==
  ASSUME NEW b \in Seq(Int), NEW u \in Id
  PROVE  Before(End(b \o <<u>>), End(b))
<1>1. PICK n \in Nat : n = Len(b)
  OBVIOUS
<1>2. u \in Int /\ u <= MaxCommands /\ MaxCommands \in Nat
  BY Sizes DEF Id
<1>3. PICK c : c = b \o <<u>>
  OBVIOUS
<1>4. c \in Seq(Int) /\ Len(c) = n + 1 /\ c[n + 1] = u /\ \A k \in 1..n : c[k] = b[k]
  BY <1>1, <1>2, <1>3, PlaceNext
<1>5. PICK e, d : e = End(c) /\ d = End(b)
  OBVIOUS
<1>6. /\ e \in Seq(Int) /\ Len(e) = n + 2 /\ \A k \in 1..(n + 1) : e[k] = c[k]
  <2>1. e \in Seq(Int) /\ Len(e) = Len(c) + 1 /\ \A k \in 1..Len(c) : e[k] = c[k]
    BY <1>4, <1>5, EndOf
  <2>2. Len(c) = n + 1 /\ Len(c) + 1 = n + 2
    BY <1>1, <1>4
  <2> QED
    BY <2>1, <2>2
<1>7. /\ d \in Seq(Int) /\ Len(d) = n + 1 /\ d[n + 1] = MaxCommands + 1 /\ \A k \in 1..n : d[k] = b[k]
  BY <1>1, <1>5, EndOf
<1>8. DOMAIN e = 1..(n + 2) /\ DOMAIN d = 1..(n + 1)
  BY <1>6, <1>7
<1>9. n + 1 \in DOMAIN e \cap DOMAIN d
  BY <1>1, <1>8
<1>10. e[n + 1] < d[n + 1]
  BY <1>1, <1>2, <1>4, <1>6, <1>7, SMTT(30)
<1>11. \A k \in 1..((n + 1) - 1) : e[k] = d[k]
  BY <1>1, <1>4, <1>6, <1>7
<1>12. Before(e, d)
  BY <1>9, <1>10, <1>11 DEF Before
<1> QED
  BY <1>3, <1>5, <1>12

LEMMA EndsBeforeNext ==
  ASSUME NEW b \in Seq(Int), NEW q \in Seq(Int), NEW u \in Int, Before(End(q), End(b)),
         \A k \in 1..Len(q) : q[k] < u
  PROVE  Before(End(q), b \o <<u>>)
<1>1. PICK n \in Nat : n = Len(b)
  OBVIOUS
<1>2. PICK l \in Nat : l = Len(q)
  OBVIOUS
<1>3. PICK c : c = b \o <<u>>
  OBVIOUS
<1>4. c \in Seq(Int) /\ Len(c) = n + 1 /\ c[n + 1] = u /\ \A k \in 1..n : c[k] = b[k]
  BY <1>1, <1>3, PlaceNext
<1>5. PICK e, d : e = End(q) /\ d = End(b)
  OBVIOUS
<1>6. /\ e \in Seq(Int) /\ Len(e) = l + 1 /\ e[l + 1] = MaxCommands + 1 /\ \A k \in 1..l : e[k] = q[k]
  BY <1>2, <1>5, EndOf
<1>7. /\ d \in Seq(Int) /\ Len(d) = n + 1 /\ d[n + 1] = MaxCommands + 1 /\ \A k \in 1..n : d[k] = b[k]
  BY <1>1, <1>5, EndOf
<1>8. DOMAIN e = 1..(l + 1) /\ DOMAIN d = 1..(n + 1) /\ DOMAIN c = 1..(n + 1)
  BY <1>4, <1>6, <1>7
<1>9. PICK i \in DOMAIN e \cap DOMAIN d : e[i] < d[i] /\ \A j \in 1..(i - 1) : e[j] = d[j]
  BY <1>5 DEF Before
<1>10. i \in 1..(l + 1) /\ i \in 1..(n + 1) /\ i \in Int
  BY <1>8, <1>9
<1>11. i \in DOMAIN e \cap DOMAIN c
  BY <1>8, <1>10
<1>12. e[i] < c[i]
  <2>1. CASE i \in 1..n
    BY <1>4, <1>7, <1>9, <2>1
  <2>2. CASE i = n + 1
    <3>1. i # l + 1
      <4>1. MaxCommands \in Nat
        BY Sizes
      <4> QED
        BY <1>6, <1>7, <1>9, <2>2, <4>1
    <3>2. i \in 1..l
      BY <1>2, <1>10, <3>1
    <3>3. e[i] < u
      BY <1>2, <1>6, <3>2
    <3> QED
      BY <1>4, <2>2, <3>3
  <2> QED
    BY <1>1, <1>10, <2>1, <2>2
<1>13. \A j \in 1..(i - 1) : e[j] = c[j]
  <2>1. ASSUME NEW j \in 1..(i - 1) PROVE e[j] = c[j]
    <3>1. j \in 1..n
      BY <1>1, <1>10
    <3> QED
      BY <1>4, <1>7, <1>9, <3>1
  <2> QED
    BY <2>1
<1>14. Before(e, c)
  BY <1>11, <1>12, <1>13 DEF Before
<1> QED
  BY <1>3, <1>5, <1>14

LEMMA BaseTyped ==
  ASSUME Inv, NEW s \in DOMAIN section
  PROVE  /\ s \in Nat /\ (s # Root => s \in Created /\ Base(s) = Spot(s)) /\ Base(s) \in Seq(Int)
         /\ \A k \in 1..Len(Base(s)) : Base(s)[k] \in Created
<1>1. s \in Nat /\ (s # Root => s \in Created)
  BY SectionsBounded DEF Inv
<1>2. CASE s = Root
  BY <1>1, <1>2 DEF Base
<1>3. CASE s # Root
  <2>1. Base(s) = command[s].place /\ s \in Created
    BY <1>1, <1>3 DEF Base
  <2>2. Base(s) = Spot(s) /\ Base(s) \in Seq(Int)
    BY <2>1, SpotTyped DEF Inv
  <2> QED
    BY <1>1, <2>1, <2>2 DEF Inv, PlacesInv
<1> QED
  BY <1>2, <1>3

LEMMA SpotsCreated ==
  ASSUME Inv, NEW x \in ToSet(commands) \cup Created
  PROVE  \A k \in 1..Len(Spot(x)) : Spot(x)[k] \in Created /\ Spot(x)[k] <= Len(command)
<1>1. PICK u \in Created : Spot(x) = command[u].place
  <2>1. x \in Int /\ (x > 0 => x \in Created) /\ (~(x > 0) => -x \in Created)
    BY SpotTyped, CommandTyped DEF Inv
  <2> QED
    BY <2>1 DEF Spot
<1>2. Created = 1..Len(command) /\ Len(command) \in Nat
  BY CommandTyped DEF Inv
<1> QED
  BY <1>1, <1>2 DEF Inv, PlacesInv

LEMMA ItemsBeforeNext ==
  ASSUME Inv, NEW s \in DOMAIN section, NEW i \in DOMAIN section[s], NEW u \in Int, u > Len(command)
  PROVE  /\ section[s][i].id \in ToSet(commands)
         /\ Before(Spot(section[s][i].id), Base(s) \o <<u>>)
<1>1. PICK e : e = section[s][i]
  OBVIOUS
<1>2. e \in ToSet(section[s])
  BY <1>1 DEF ToSet
<1>3. e.id \in ToSet(commands) /\ e.id \in Int /\ Spot(e.id) \in Seq(Int)
  BY <1>2, EntryTyped DEF Inv
<1>4. Under(Base(s), Spot(e.id))
  BY <1>1 DEF Inv, OrderInv, Within
<1>5. PICK b \in Seq(Int) : b = Base(s)
  BY BaseTyped
<1>6. PICK q \in Seq(Int) : q = Spot(e.id)
  BY <1>3
<1>7. q[Len(b) + 1] < u
  <2>1. Len(b) \in Nat /\ Len(q) \in Nat /\ Len(b) < Len(q)
    BY <1>4, <1>5, <1>6 DEF Under
  <2>2. Len(b) + 1 \in 1..Len(q)
    BY <2>1
  <2>3. q[Len(b) + 1] <= Len(command)
    BY <1>3, <1>6, <2>2, SpotsCreated
  <2>4. q[Len(b) + 1] \in Int
    BY <2>2
  <2>5. Len(command) \in Nat
    BY CommandTyped DEF Inv
  <2> QED
    BY <2>3, <2>4, <2>5
<1>8. Before(q, b \o <<u>>)
  BY <1>4, <1>5, <1>6, <1>7, AddedIsNext
<1> QED
  BY <1>1, <1>3, <1>5, <1>6, <1>8

LEMMA UseFits ==
  ASSUME Inv, NEW s \in {Root} \cup pending, NEW use \in Uses(s)
  PROVE  /\ s \in DOMAIN section /\ use.nested \in BOOLEAN /\ use.means \in Nat /\ Argument(use) \in Arg
         /\ use.means = None => ~use.nested /\ Argument(use) = NoArg
         /\ use.means # None =>
              /\ use.means \in held /\ Kind(use.means) # "void"
              /\ Argument(use) = [at |-> handle[use.means], nested |-> use.nested]
              /\ \A u \in Int : u > Len(command) => Before(End(Spot(use.means)), Base(s) \o <<u>>)
<1>1. s \in DOMAIN section
  BY DEF Inv, Typed
<1>2. CASE use = [means |-> None, nested |-> FALSE]
  BY <1>1, <1>2 DEF Argument, NoArg, Arg, None
<1>3. CASE use # [means |-> None, nested |-> FALSE]
  <2>1. PICK m \in Usable(s), n \in BOOLEAN : use = [means |-> m, nested |-> n]
    BY <1>3 DEF Uses
  <2>2. m \in held /\ handle[m] \in available[s] /\ Kind(m) # "void"
    BY DEF Usable
  <2>3. m \in Created /\ m \in Nat /\ m # None
    <3>1. m \in Created
      BY <2>2, HeldMeans
    <3> QED
      BY <3>1, CommandTyped DEF Inv, None
  <2>4. handle[m] \in Nat
    BY <2>3, CommandTyped DEF Inv, Typed
  <2>5. use.means = m /\ use.nested = n
    BY <2>1
  <2>6. Argument(use) = [at |-> handle[m], nested |-> n]
    BY <2>3, <2>5 DEF Argument
  <2>7. ASSUME NEW u \in Int, u > Len(command) PROVE Before(End(Spot(m)), Base(s) \o <<u>>)
    <3>1. PICK b \in Seq(Int) : b = Base(s)
      BY <1>1, BaseTyped
    <3>2. PICK q \in Seq(Int) : q = Spot(m)
      BY <2>3, SpotTyped DEF Inv
    <3>3. Before(End(q), End(b))
      BY <1>1, <2>2, <3>1, <3>2 DEF Inv, HeldInv
    <3>4. \A k \in 1..Len(q) : q[k] < u
      <4>1. \A k \in 1..Len(q) : q[k] <= Len(command) /\ q[k] \in Created
        BY <2>3, <3>2, SpotsCreated
      <4>2. Len(command) \in Nat /\ Created \subseteq Nat
        BY CommandTyped DEF Inv
      <4> QED
        BY <2>7, <4>1, <4>2
    <3>5. Before(End(q), b \o <<u>>)
      BY <3>3, <3>4, EndsBeforeNext
    <3> QED
      BY <3>1, <3>2, <3>5
  <2>8. Argument(use) \in Arg
    BY <2>4, <2>6 DEF Arg
  <2> QED
    BY <1>1, <2>2, <2>3, <2>5, <2>6, <2>7, <2>8
<1> QED
  BY <1>2, <1>3
-----------------------------------------------------------------------------
(* A command is added.                                                     *)
Added(s, u, l) ==
  /\ ~aliased /\ UNCHANGED <<aliased, pending, result, rejected, phase>>
  /\ s \in DOMAIN section /\ u = Len(command) + 1 /\ l = Len(commands)
  /\ u \in Id /\ u \notin Created /\ l \in Nat
  /\ command' \in Seq(Use) /\ Len(command') = u
  /\ \A v \in Created : command'[v] = command[v] /\ handle'[v] = handle[v]
  /\ command'[u].kind \in {"call", "intent"} /\ command'[u].place = Base(s) \o <<u>>
  /\ command'[u].means = None => command'[u].arg = NoArg /\ ~command'[u].nested
  /\ command'[u].means # None =>
       LET m == command'[u].means
       IN  /\ m \in held /\ Kind(m) # "void"
           /\ command'[u].arg = [at |-> handle[m], nested |-> command'[u].nested]
           /\ command'[u].nested => Kind(m) = "call"
           /\ Before(End(Spot(m)), command'[u].place)
  /\ commands' \in Seq(Int) /\ Len(commands') = l + 1 /\ commands'[l + 1] = u
  /\ \A i \in 1..l : commands'[i] = commands[i]
  /\ handle' \in Seq(Nat) /\ Len(handle') = u /\ handle'[u] = l + 1
  /\ DOMAIN section' = DOMAIN section /\ section' = [t \in DOMAIN section |-> section'[t]]
  /\ available' = [t \in DOMAIN section |-> available'[t]]
  /\ \A t \in DOMAIN section : t # s => section'[t] = section[t] /\ available'[t] = available[t]
  /\ section'[s] = Append(section[s], Item("command", u))
  /\ available'[s] = available[s] \cup {l + 1}
  /\ held' = held \cup {u}

(* Nothing that is careful adds to the array that is both lists.           *)
LEMMA NotAliased ==
  ASSUME Inv, Careful, NEW s \in {Root} \cup pending, s = Root => Open
  PROVE  ~aliased /\ s \in DOMAIN section
<1>1. CASE s = Root
  BY <1>1 DEF Open, Inv, Typed
<1>2. CASE s # Root
  <2>1. s \in DOMAIN section \ {Root}
    BY <1>2 DEF Inv, Typed
  <2> QED
    BY <2>1 DEF Inv, PhaseInv
<1> QED
  BY <1>1, <1>2

LEMMA AddFacts ==
  ASSUME Inv, Careful, NEW s \in {Root} \cup pending, NEW kind \in {"call", "intent"},
         NEW use \in Uses(s), Add(s, kind, use)
  PROVE  Added(s, Len(command) + 1, Len(commands))
<1> DEFINE new == NewCommand(s, Len(command) + 1, kind, use)
<1>1. ~aliased /\ s \in DOMAIN section
  BY NotAliased DEF Add
<1>2. PICK u : u = Len(command) + 1
  OBVIOUS
<1>3. PICK l : l = Len(commands)
  OBVIOUS
<1>4. /\ u <= MaxCommands /\ (use.nested => Kind(use.means) = "call")
      /\ command' = Append(command, new) /\ commands' = commands \o <<u>>
      /\ section' = [section EXCEPT ![s] = Append(@, Item("command", u))]
      /\ available' = [available EXCEPT ![s] = @ \cup {l + 1}]
      /\ handle' = Append(handle, Len(commands')) /\ held' = held \cup {u}
      /\ UNCHANGED <<aliased, pending, result, rejected, phase>>
  BY <1>1, <1>2, <1>3 DEF Add, Push, thunkVars
<1>5. /\ command \in Seq(Use) /\ commands \in Seq(Int) /\ handle \in Seq(Nat)
      /\ Len(handle) = Len(command) /\ section \in [DOMAIN section -> Seq(Entry)]
      /\ available \in [DOMAIN section -> SUBSET Nat]
  BY DEF Inv, Typed
<1>6. Len(command) \in Nat /\ Created = 1..Len(command) /\ MaxCommands \in Nat /\ l \in Nat
  <2>1. l \in Nat
    BY <1>3, <1>5
  <2> QED
    BY <2>1, CommandTyped DEF Inv
<1>7. u \in Int /\ u > 0 /\ u \in Id /\ u \notin Created /\ u > Len(command)
  BY <1>2, <1>4, <1>6 DEF Id
<1>8. Place(s, u) = Base(s) \o <<u>>
  BY DEF Place, Base
<1>9. /\ new.kind = kind /\ new.arg = Argument(use) /\ new.means = use.means
      /\ new.nested = use.nested /\ new.place = Base(s) \o <<u>>
  BY <1>2, <1>8 DEF NewCommand
<1>10. Base(s) \o <<u>> \in Seq(Int)
  <2>1. PICK b \in Seq(Int) : b = Base(s)
    BY <1>1, BaseTyped
  <2> QED
    BY <1>7, <2>1, PlaceNext
<1>11. new \in Use
  BY <1>10, <1>8, <1>2, UseFits DEF NewCommand, Use
<1> HIDE DEF new
<1>12. /\ command' \in Seq(Use) /\ Len(command') = u /\ command'[u] = new
       /\ \A v \in Created : command'[v] = command[v]
  BY <1>2, <1>4, <1>5, <1>6, <1>11
<1>13. /\ commands' \in Seq(Int) /\ Len(commands') = l + 1 /\ commands'[l + 1] = u
       /\ \A i \in 1..l : commands'[i] = commands[i]
  BY <1>3, <1>4, <1>5, <1>7
<1>14. /\ handle' \in Seq(Nat) /\ Len(handle') = u /\ handle'[u] = l + 1
       /\ \A v \in Created : handle'[v] = handle[v]
  BY <1>2, <1>4, <1>5, <1>6, <1>13
<1>15. /\ DOMAIN section' = DOMAIN section /\ section' = [t \in DOMAIN section |-> section'[t]]
       /\ available' = [t \in DOMAIN section |-> available'[t]]
       /\ \A t \in DOMAIN section : t # s => section'[t] = section[t] /\ available'[t] = available[t]
       /\ section'[s] = Append(section[s], Item("command", u))
       /\ available'[s] = available[s] \cup {l + 1}
  BY <1>1, <1>4, <1>5
<1>16. command'[u].means = None => command'[u].arg = NoArg /\ ~command'[u].nested
  BY <1>9, <1>12, UseFits
<1>17. ASSUME use.means # None
       PROVE  /\ use.means \in held /\ Kind(use.means) # "void"
              /\ command'[u].arg = [at |-> handle[use.means], nested |-> command'[u].nested]
              /\ command'[u].nested => Kind(use.means) = "call"
              /\ Before(End(Spot(use.means)), command'[u].place)
  <2>1. /\ command'[u].arg = Argument(use) /\ command'[u].nested = use.nested
        /\ command'[u].place = Base(s) \o <<u>>
    BY <1>9, <1>12
  <2>2. u \in Int /\ u > Len(command) /\ (use.nested => Kind(use.means) = "call")
    BY <1>4, <1>7
  <2>3. /\ use.means \in held /\ Kind(use.means) # "void"
        /\ Argument(use) = [at |-> handle[use.means], nested |-> use.nested]
    BY <1>17, UseFits
  <2>4. Before(End(Spot(use.means)), Base(s) \o <<u>>)
    <3>1. \A v \in Int : v > Len(command) => Before(End(Spot(use.means)), Base(s) \o <<v>>)
      BY <1>17, UseFits
    <3> QED
      BY <2>2, <3>1
  <2> QED
    BY <2>1, <2>2, <2>3, <2>4
<1>18. command'[u].kind \in {"call", "intent"} /\ command'[u].place = Base(s) \o <<u>>
       /\ command'[u].means = use.means
  BY <1>9, <1>12
<1>19. Added(s, u, l)
  BY <1>1, <1>2, <1>3, <1>4, <1>6, <1>7, <1>12, <1>13, <1>14, <1>15, <1>16, <1>17, <1>18 DEF Added
<1> QED
  BY <1>2, <1>3, <1>19

LEMMA AddTyped ==
  ASSUME Inv, NEW s, NEW u, NEW l, Added(s, u, l)
  PROVE  /\ Typed' /\ Extended /\ Created' = Created \cup {u} /\ u \in Int /\ u > 0 /\ u > Len(command)
         /\ DOMAIN commands = 1..l /\ DOMAIN commands' = 1..(l + 1)
<1>1. /\ command \in Seq(Use) /\ commands \in Seq(Int) /\ Len(command) <= MaxCommands
      /\ section \in [DOMAIN section -> Seq(Entry)] /\ available \in [DOMAIN section -> SUBSET Nat]
      /\ held \subseteq Created /\ pending \subseteq DOMAIN section \ {Root}
      /\ result \in [Id -> {None} \cup Created] /\ DOMAIN section \subseteq Nat /\ Root \in DOMAIN section
      /\ rejected \in BOOLEAN /\ aliased \in BOOLEAN /\ phase \in {"open", "waiting", "plugins"}
  BY DEF Inv, Typed
<1>2. Len(command) \in Nat /\ Created = 1..Len(command) /\ MaxCommands \in Nat
  BY CommandTyped DEF Inv
<1>3. u \in Int /\ u > 0 /\ u > Len(command) /\ u <= MaxCommands /\ u = Len(command) + 1
  BY <1>2 DEF Added, Id
<1>4. Created' = 1..u
  BY DEF Added, Created
<1>5. Created' = Created \cup {u} /\ Created' \ Created = {u}
  BY <1>2, <1>3, <1>4
<1>6. DOMAIN commands = 1..l /\ DOMAIN commands' = 1..(l + 1) /\ l \in Nat
  BY <1>1 DEF Added
<1>7. section' \in [DOMAIN section' -> Seq(Entry)]
  <2>1. ASSUME NEW t \in DOMAIN section PROVE section'[t] \in Seq(Entry)
    <3>1. CASE t = s
      <4>1. Item("command", u) \in Entry
        BY <1>3 DEF Item, Entry
      <4>2. section[s] \in Seq(Entry)
        BY <1>1, <3>1
      <4>3. PICK q, e : q = section[s] /\ e = Item("command", u)
        OBVIOUS
      <4>4. Append(q, e) \in Seq(Entry)
        BY <4>1, <4>2, <4>3
      <4>5. section'[s] = Append(q, e)
        BY <4>3 DEF Added
      <4> QED
        BY <3>1, <4>4, <4>5
    <3>2. CASE t # s
      BY <1>1, <3>2 DEF Added
    <3> QED
      BY <3>1, <3>2
  <2> QED
    BY <2>1 DEF Added
<1>8. available' \in [DOMAIN section' -> SUBSET Nat]
  <2>1. ASSUME NEW t \in DOMAIN section PROVE available'[t] \in SUBSET Nat
    <3>1. CASE t = s
      BY <1>1, <1>6, <3>1 DEF Added
    <3>2. CASE t # s
      BY <1>1, <3>2 DEF Added
    <3> QED
      BY <3>1, <3>2
  <2> QED
    BY <2>1 DEF Added
<1>9. Typed'
  <2>1. command' \in Seq(Use) /\ commands' \in Seq(Int) /\ Len(command') <= MaxCommands
    BY <1>3 DEF Added
  <2>2. handle' \in Seq(Nat) /\ Len(handle') = Len(command')
    BY DEF Added
  <2>3. held' \subseteq Created' /\ pending' \subseteq DOMAIN section' \ {Root}
    BY <1>1, <1>5 DEF Added
  <2>4. result' \in [Id -> {None} \cup Created']
    BY <1>1, <1>5 DEF Added
  <2>5. /\ DOMAIN section' \subseteq Nat /\ Root \in DOMAIN section' /\ aliased' \in BOOLEAN
        /\ rejected' \in BOOLEAN /\ phase' \in {"open", "waiting", "plugins"}
    BY <1>1 DEF Added
  <2> QED
    BY <1>7, <1>8, <2>1, <2>2, <2>3, <2>4, <2>5 DEF Typed
<1>10. NewCommandFits(u)
  <2>1. PICK b \in Seq(Int) : b = Base(s)
    BY BaseTyped DEF Added
  <2>2. \A k \in 1..Len(b) : b[k] \in Created'
    BY <1>5, <2>1, BaseTyped DEF Added
  <2>3. Len(b \o <<u>>) > 0 /\ \A k \in 1..Len(b \o <<u>>) : (b \o <<u>>)[k] \in Created'
    <3>1. PICK C : C = Created'
      OBVIOUS
    <3>2. u \in C /\ u \in Int /\ \A k \in 1..Len(b) : b[k] \in C
      BY <1>3, <1>5, <2>2, <3>1
    <3>3. Len(b \o <<u>>) > 0 /\ \A k \in 1..Len(b \o <<u>>) : (b \o <<u>>)[k] \in C
      BY <3>2, PlaceCreated
    <3> QED
      BY <3>1, <3>3
  <2>4. command'[u].place = b \o <<u>>
    BY <2>1 DEF Added
  <2> QED
    BY <2>3, <2>4 DEF Added, NewCommandFits
<1>11. Extended
  <2>1. DOMAIN commands' \ DOMAIN commands = {l + 1}
    BY <1>6
  <2>2. \A i \in DOMAIN commands : commands'[i] = commands[i]
    BY <1>6 DEF Added
  <2>3. DOMAIN commands \subseteq DOMAIN commands'
    BY <1>6
  <2> QED
    BY <1>5, <1>10, <2>1, <2>2, <2>3 DEF Added, Extended
<1> QED
  BY <1>3, <1>5, <1>6, <1>9, <1>11

LEMMA ExtendedItems ==
  ASSUME Inv, Typed', Extended, NEW t \in DOMAIN section
  PROVE  /\ Base(t)' = Base(t)
         /\ \A e \in ToSet(section[t]) :
              /\ e.id \in ToSet(commands) /\ Spot(e.id)' = Spot(e.id) /\ ((Live(e))' <=> Live(e))
              /\ Within(t, e)'
         /\ \A d, e \in ToSet(section[t]) : InLine(d, e) => InLine(d, e)'
<1>1. Base(t)' = Base(t)
  <2>1. t # Root => command'[t] = command[t]
    BY BaseTyped DEF Extended
  <2> QED
    BY <2>1 DEF Base
<1>2. ASSUME NEW e \in ToSet(section[t])
      PROVE  e.id \in ToSet(commands) /\ Spot(e.id)' = Spot(e.id) /\ ((Live(e))' <=> Live(e))
  <2>1. e.id \in ToSet(commands)
    BY EntryTyped DEF Inv
  <2>2. PICK x : x = e.id
    OBVIOUS
  <2>3. Spot(x)' = Spot(x) /\ ((IsThunk(x))' <=> IsThunk(x))
    BY <2>1, <2>2, ExtendedStays
  <2> QED
    BY <2>1, <2>2, <2>3 DEF Live
<1>3. ASSUME NEW e \in ToSet(section[t])
      PROVE  Within(t, e)'
  <2>1. PICK i \in DOMAIN section[t] : section[t][i] = e
    BY DEF ToSet
  <2>2. Within(t, e)
    BY <2>1 DEF Inv, OrderInv
  <2>3. PICK x : x = e.id
    OBVIOUS
  <2>4. Spot(x)' = Spot(x)
    BY <1>2, <2>3
  <2> QED
    BY <1>1, <2>2, <2>3, <2>4 DEF Within
<1>4. ASSUME NEW d \in ToSet(section[t]), NEW e \in ToSet(section[t]), InLine(d, e)
      PROVE  InLine(d, e)'
  <2>1. PICK x, y : x = d.id /\ y = e.id
    OBVIOUS
  <2>2. /\ ((Live(d))' <=> Live(d)) /\ ((Live(e))' <=> Live(e))
        /\ Spot(x)' = Spot(x) /\ Spot(y)' = Spot(y)
    BY <1>2, <2>1
  <2>3. (Follows(x, y))' <=> Follows(x, y)
    BY <2>2 DEF Follows, Before
  <2>4. (Follows(d.id, e.id))' <=> Follows(d.id, e.id)
    BY <2>1, <2>3
  <2> QED
    BY <1>4, <2>2, <2>4 DEF InLine
<1> QED
  BY <1>1, <1>2, <1>3, <1>4

LEMMA SectionStays ==
  ASSUME Inv, Typed', Extended, NEW t \in DOMAIN section, section'[t] = section[t]
  PROVE  /\ \A i \in DOMAIN section'[t] : Within(t, section[t][i])'
         /\ \A i, j \in DOMAIN section'[t] : i < j => InLine(section[t][i], section[t][j])'
<1>1. ASSUME NEW i \in DOMAIN section[t] PROVE Within(t, section[t][i])'
  <2>1. PICK e : e = section[t][i]
    OBVIOUS
  <2>2. e = (section[t][i])'
    BY <2>1
  <2>3. Within(t, e)'
    BY <2>1, ExtendedItems DEF ToSet
  <2> QED
    BY <2>2, <2>3
<1>2. ASSUME NEW i \in DOMAIN section[t], NEW j \in DOMAIN section[t], i < j
      PROVE  InLine(section[t][i], section[t][j])'
  <2>1. PICK d, e : d = section[t][i] /\ e = section[t][j]
    OBVIOUS
  <2>2. d = (section[t][i])' /\ e = (section[t][j])'
    BY <2>1
  <2>3. d \in ToSet(section[t]) /\ e \in ToSet(section[t]) /\ InLine(d, e)
    BY <1>2, <2>1 DEF ToSet, Inv, OrderInv
  <2>4. InLine(d, e)'
    BY <2>3, ExtendedItems
  <2> QED
    BY <2>2, <2>4
<1> QED
  BY <1>1, <1>2

LEMMA AddedItem ==
  ASSUME Inv, NEW s, NEW u, NEW l, Added(s, u, l)
  PROVE  /\ \A t \in DOMAIN section : t # s => ToSet(section'[t]) = ToSet(section[t])
         /\ ToSet(section'[s]) = ToSet(section[s]) \cup {Item("command", u)}
         /\ \E n \in Nat : /\ DOMAIN section[s] = 1..n /\ DOMAIN section'[s] = 1..(n + 1)
                           /\ \A i \in 1..n : section'[s][i] = section[s][i]
                           /\ section'[s][n + 1] = Item("command", u)
<1>1. section[s] \in Seq(Entry) /\ section'[s] = Append(section[s], Item("command", u))
  BY DEF Inv, Typed, Added
<1>2. PICK n \in Nat : n = Len(section[s])
  BY <1>1
<1>3. PICK q, r, e : q = section[s] /\ r = section'[s] /\ e = Item("command", u)
  OBVIOUS
<1>4. DOMAIN q = 1..n /\ DOMAIN r = 1..(n + 1) /\ (\A i \in 1..n : r[i] = q[i]) /\ r[n + 1] = e
  BY <1>1, <1>2, <1>3
<1>5. ToSet(r) = ToSet(q) \cup {e}
  <2>1. ASSUME NEW x \in ToSet(r) PROVE x \in ToSet(q) \cup {e}
    <3>1. PICK i \in 1..(n + 1) : r[i] = x
      BY <1>4 DEF ToSet
    <3>2. i \in 1..n \/ i = n + 1
      BY <3>1
    <3> QED
      BY <1>4, <3>1, <3>2 DEF ToSet
  <2>2. ASSUME NEW x \in ToSet(q) PROVE x \in ToSet(r)
    <3>1. PICK i \in 1..n : q[i] = x
      BY <1>4 DEF ToSet
    <3>2. i \in 1..(n + 1)
      OBVIOUS
    <3> QED
      BY <1>4, <3>1, <3>2 DEF ToSet
  <2>3. e \in ToSet(r)
    <3>1. n + 1 \in 1..(n + 1)
      OBVIOUS
    <3> QED
      BY <1>4, <3>1 DEF ToSet
  <2> QED
    BY <2>1, <2>2, <2>3
<1>6. \A t \in DOMAIN section : t # s => ToSet(section'[t]) = ToSet(section[t])
  BY DEF Added
<1> QED
  BY <1>3, <1>4, <1>5, <1>6

LEMMA AddSections ==
  ASSUME Inv, NEW s, NEW u, NEW l, Added(s, u, l)
  PROVE  ForksInv' /\ ListedInv' /\ OrderInv'
<1>1. Typed' /\ Extended /\ Created' \ Created = {u} /\ u \in Int /\ u > 0 /\ u > Len(command)
  <2>1. u \notin Created
    BY DEF Added
  <2>2. Typed' /\ Extended /\ Created' = Created \cup {u} /\ u \in Int /\ u > 0 /\ u > Len(command)
    BY AddTyped
  <2> QED
    BY <2>1, <2>2
<1>2. ToSet(commands') = ToSet(commands) \cup {u} /\ ~(IsThunk(u))'
  <2>1. ~(IsThunk(u))'
    BY DEF Added, IsThunk, Kind
  <2> QED
    BY <1>1, <2>1, ExtendedStays
<1>3. DOMAIN section' = DOMAIN section /\ s \in DOMAIN section
  BY DEF Added
<1>4. PICK new : new = Item("command", u)
  OBVIOUS
<1>5. new.what = "command" /\ new.id = u
  BY <1>4 DEF Item
<1>6. /\ \A t \in DOMAIN section : ToSet(section[t]) \subseteq ToSet(section'[t])
      /\ \A t \in DOMAIN section : ToSet(section'[t]) \subseteq ToSet(section[t]) \cup {new}
      /\ new \in ToSet(section'[s])
  <2>1. \A t \in DOMAIN section : t # s => ToSet(section'[t]) = ToSet(section[t])
    BY AddedItem
  <2>2. ToSet(section'[s]) = ToSet(section[s]) \cup {new}
    BY <1>4, AddedItem
  <2> QED
    BY <2>1, <2>2
<1>7. ForksInv'
  <2>1. DOMAIN section' = {Root} \cup {x \in ToSet(commands') : (IsThunk(x))'}
    BY <1>1, <1>2, <1>3, ExtendedStays DEF Inv, ForksInv
  <2>2. ASSUME NEW f \in DOMAIN section' \ {Root}
        PROVE  \E t \in DOMAIN section' : Item("fork", f) \in ToSet(section'[t])
    BY <1>3, <1>6 DEF Inv, ForksInv
  <2>3. ASSUME NEW t \in DOMAIN section', NEW e \in ToSet(section'[t])
        PROVE  IF e.what = "fork" THEN e.id \in DOMAIN section' /\ t < e.id ELSE e.id \in ToSet(commands')
    <3>1. CASE e \in ToSet(section[t])
      BY <1>2, <1>3, <3>1 DEF Inv, ForksInv
    <3>2. CASE e = new
      BY <1>2, <1>5, <3>2
    <3> QED
      BY <1>3, <1>6, <3>1, <3>2
  <2> QED
    BY <2>1, <2>2, <2>3 DEF ForksInv
<1>8. ListedInv'
  <2>1. ASSUME NEW x \in ToSet(commands'), ~(IsThunk(x))'
        PROVE  \E t \in DOMAIN section' : Item("command", x) \in ToSet(section'[t])
    <3>1. CASE x = u
      BY <1>3, <1>4, <1>6, <3>1
    <3>2. CASE x # u
      <4>1. x \in ToSet(commands) /\ ~IsThunk(x)
        BY <1>1, <1>2, <2>1, <3>2, ExtendedStays
      <4> QED
        BY <1>3, <1>6, <4>1 DEF Inv, ListedInv
    <3> QED
      BY <3>1, <3>2
  <2>2. ASSUME DOMAIN section' = {Root}
        PROVE  section'[Root] = Items(commands)'
    <3>1. s = Root /\ section[s] = Items(commands)
      BY <1>3, <2>2 DEF Inv, ListedInv
    <3>2. PICK n \in Nat : /\ DOMAIN section[s] = 1..n /\ DOMAIN section'[s] = 1..(n + 1)
                           /\ \A i \in 1..n : section'[s][i] = section[s][i]
                           /\ section'[s][n + 1] = Item("command", u)
      BY AddedItem
    <3>3. DOMAIN commands = 1..n /\ DOMAIN commands = 1..l
      BY <3>1, <3>2, AddTyped DEF Items
    <3>4. n = l
      <4>1. l \in Nat
        BY DEF Added
      <4>0. 1..n = 1..l
        BY <3>3
      <4>2. n = 0 \/ n \in 1..l
        <5>1. n # 0 => n \in 1..n
          OBVIOUS
        <5> QED
          BY <4>0, <5>1
      <4>3. l = 0 \/ l \in 1..n
        <5>1. l # 0 => l \in 1..l
          BY <4>1
        <5> QED
          BY <4>0, <5>1
      <4> QED
        BY <4>1, <4>2, <4>3
    <3>5. /\ DOMAIN commands' = 1..(n + 1) /\ commands'[n + 1] = u
          /\ \A i \in 1..n : commands'[i] = commands[i]
      BY <3>4, AddTyped DEF Added
    <3>6. ASSUME NEW i \in 1..(n + 1) PROVE section'[s][i] = Item("command", commands'[i])
      <4>1. CASE i = n + 1
        BY <3>2, <3>5, <4>1
      <4>2. CASE i # n + 1
        <5>1. i \in 1..n
          BY <4>2
        <5>2. section[s][i] = Item("command", commands[i])
          BY <3>1, <3>3, <5>1 DEF Items
        <5> QED
          BY <3>2, <3>5, <5>1, <5>2
      <4> QED
        BY <4>1, <4>2
    <3>7. section'[s] = [i \in 1..(n + 1) |-> section'[s][i]]
      <4>1. section'[s] \in Seq(Entry)
        BY <1>1, <1>3 DEF Typed
      <4>2. PICK q : q = section'[s]
        OBVIOUS
      <4>3. q \in Seq(Entry) /\ DOMAIN q = 1..(n + 1)
        BY <3>2, <4>1, <4>2
      <4>4. q = [i \in 1..(n + 1) |-> q[i]]
        BY <4>3
      <4> QED
        BY <4>2, <4>4
    <3>8. Items(commands)' = [i \in 1..(n + 1) |-> Item("command", commands'[i])]
      BY <3>5 DEF Items
    <3> QED
      BY <3>1, <3>6, <3>7, <3>8
  <2> QED
    BY <2>1, <2>2 DEF ListedInv
<1>9. Within(s, new)'
  <2>1. PICK b \in Seq(Int) : b = Base(s)
    BY <1>3, BaseTyped
  <2>2. Base(s)' = b
    BY <1>1, <1>3, <2>1, ExtendedItems
  <2>3. Spot(u)' = b \o <<u>>
    BY <1>1, <2>1 DEF Spot, Added
  <2>4. Under(b, b \o <<u>>)
    BY <1>1, PlaceNext
  <2> QED
    BY <1>5, <2>2, <2>3, <2>4 DEF Within
<1>10. ASSUME NEW d \in ToSet(section[s])
       PROVE  InLine(d, new)'
  <2>1. PICK i \in DOMAIN section[s] : section[s][i] = d
    BY DEF ToSet
  <2>2. d.id \in ToSet(commands) /\ Before(Spot(d.id), Base(s) \o <<u>>)
    BY <1>1, <1>3, <2>1, ItemsBeforeNext
  <2>3. PICK x : x = d.id
    OBVIOUS
  <2>4. Spot(x)' = Spot(x)
    BY <1>1, <2>2, <2>3, ExtendedStays
  <2>5. Spot(u)' = Base(s) \o <<u>>
    BY <1>1 DEF Spot, Added
  <2>6. Follows(x, u)'
    BY <2>2, <2>3, <2>4, <2>5 DEF Follows
  <2> QED
    BY <1>5, <2>3, <2>6 DEF InLine
<1>11. OrderInv'
  <2>1. ASSUME NEW t \in DOMAIN section, t # s
        PROVE  /\ \A i \in DOMAIN section'[t] : Within(t, section[t][i])'
               /\ \A i, j \in DOMAIN section'[t] : i < j => InLine(section[t][i], section[t][j])'
    <3>1. section'[t] = section[t]
      BY <2>1 DEF Added
    <3> QED
      BY <1>1, <3>1, SectionStays
  <2>2. PICK n \in Nat : /\ DOMAIN section[s] = 1..n /\ DOMAIN section'[s] = 1..(n + 1)
                         /\ \A i \in 1..n : section'[s][i] = section[s][i]
                         /\ section'[s][n + 1] = new
    BY <1>4, AddedItem
  <2>3. ASSUME NEW i \in DOMAIN section'[s] PROVE Within(s, section[s][i])'
    <3>1. PICK e : e = section'[s][i]
      OBVIOUS
    <3>2. e = new \/ e \in ToSet(section[s])
      <4>1. i = n + 1 \/ i \in 1..n
        BY <2>2
      <4> QED
        BY <2>2, <3>1, <4>1 DEF ToSet
    <3>3. Within(s, e)'
      BY <1>1, <1>3, <1>9, <3>2, ExtendedItems
    <3> QED
      BY <3>1, <3>3
  <2>4. ASSUME NEW i \in DOMAIN section'[s], NEW j \in DOMAIN section'[s], i < j
        PROVE  InLine(section[s][i], section[s][j])'
    <3>1. PICK d, e : d = section'[s][i] /\ e = section'[s][j]
      OBVIOUS
    <3>2. i \in 1..n /\ (j = n + 1 \/ j \in 1..n)
      BY <2>2, <2>4
    <3>3. d = section[s][i] /\ d \in ToSet(section[s])
      BY <2>2, <3>1, <3>2 DEF ToSet
    <3>4. InLine(d, e)'
      <4>1. CASE j = n + 1
        BY <1>10, <2>2, <3>1, <3>3, <4>1
      <4>2. CASE j \in 1..n
        <5>1. e = section[s][j] /\ e \in ToSet(section[s])
          BY <2>2, <3>1, <4>2 DEF ToSet
        <5>2. InLine(d, e)
          BY <1>3, <2>2, <2>4, <3>2, <3>3, <4>2, <5>1 DEF Inv, OrderInv
        <5> QED
          BY <1>1, <1>3, <3>3, <5>1, <5>2, ExtendedItems
      <4> QED
        BY <3>2, <4>1, <4>2
    <3> QED
      BY <3>1, <3>4
  <2> QED
    BY <1>3, <2>1, <2>3, <2>4 DEF OrderInv
<1> QED
  BY <1>7, <1>8, <1>11

LEMMA ExtendedHeld ==
  ASSUME Inv, Typed', Extended, NEW v \in held
  PROVE  /\ v \in Created /\ handle'[v] = handle[v] /\ handle[v] \in DOMAIN commands
         /\ handle[v] \in DOMAIN commands' /\ commands'[handle[v]] = Meant(v)'
         /\ Kind(Meant(v))' # "split"
         /\ \A t \in DOMAIN section : handle[v] \in available[t] =>
              /\ Before(End(Spot(v)), End(Base(t)))
              /\ Before(End(Spot(v))', End(Base(t))')
<1>1. /\ v \in Created /\ handle[v] \in DOMAIN commands
      /\ \A t \in DOMAIN section : handle[v] \in available[t] => Before(End(Spot(v)), End(Base(t)))
  BY HeldMeans DEF Inv, HeldInv
<1>2. PICK w \in Created : w = Meant(v) /\ commands[handle[v]] = w /\ Kind(w) # "split"
  BY HeldMeans
<1>3. Spot(v)' = Spot(v) /\ Kind(w)' = Kind(w)
  BY <1>1, <1>2, ExtendedStays
<1>4. handle'[v] = handle[v] /\ handle[v] \in DOMAIN commands' /\ commands'[handle[v]] = w
  BY <1>1, <1>2 DEF Extended
<1>5. w = Meant(v)'
  BY <1>1, <1>2, ExtendedMeant
<1>6. Kind(Meant(v))' # "split"
  <2>1. Kind(Meant(v))' = Kind(w)'
    BY <1>5
  <2> QED
    BY <1>2, <1>3, <2>1
<1>7. ASSUME NEW t \in DOMAIN section, handle[v] \in available[t]
      PROVE  Before(End(Spot(v))', End(Base(t))')
  <2>1. End(Spot(v))' = End(Spot(v)) /\ End(Base(t))' = End(Base(t))
    <3>1. Base(t)' = Base(t)
      BY ExtendedItems
    <3> QED
      BY <1>3, <3>1 DEF End
  <2> QED
    BY <1>1, <1>7, <2>1
<1> QED
  BY <1>1, <1>4, <1>5, <1>6, <1>7

LEMMA AddHeld ==
  ASSUME Inv, NEW s, NEW u, NEW l, Added(s, u, l)
  PROVE  HeldInv' /\ AvailableInv'
<1>1. Typed' /\ Extended /\ u \in Int /\ u > 0
  BY AddTyped
<1>2. DOMAIN commands = 1..l /\ DOMAIN commands' = 1..(l + 1) /\ l \in Nat
  BY AddTyped DEF Added
<1>3. /\ DOMAIN section' = DOMAIN section /\ s \in DOMAIN section /\ u \in Id
      /\ \A t \in DOMAIN section : t # s => available'[t] = available[t]
      /\ available'[s] = available[s] \cup {l + 1} /\ held' = held \cup {u}
      /\ handle'[u] = l + 1 /\ commands'[l + 1] = u
  BY DEF Added
<1>4. \A t \in DOMAIN section : available[t] \subseteq 1..l
  BY <1>2 DEF Inv, AvailableInv
<1>5. l + 1 \notin 1..l /\ l + 1 \in 1..(l + 1) /\ 1..l \subseteq 1..(l + 1)
  BY <1>2
<1>6. AvailableInv'
  BY <1>2, <1>3, <1>4, <1>5 DEF AvailableInv
<1>7. ASSUME NEW v \in held
      PROVE  /\ handle'[v] \in DOMAIN commands' /\ commands'[handle'[v]] = Meant(v)' /\ Kind(Meant(v))' # "split"
             /\ \A t \in DOMAIN section' :
                  handle'[v] \in available'[t] => Before(End(Spot(v))', End(Base(t))')
  <2>1. /\ handle'[v] = handle[v] /\ handle[v] \in 1..l
        /\ handle[v] \in DOMAIN commands' /\ commands'[handle[v]] = Meant(v)' /\ Kind(Meant(v))' # "split"
        /\ \A t \in DOMAIN section : handle[v] \in available[t] => Before(End(Spot(v))', End(Base(t))')
    BY <1>1, <1>2, ExtendedHeld
  <2>2. ASSUME NEW t \in DOMAIN section, handle[v] \in available'[t] PROVE handle[v] \in available[t]
    BY <1>3, <1>5, <2>1, <2>2
  <2> QED
    BY <1>3, <2>1, <2>2
<1>8. /\ handle'[u] \in DOMAIN commands' /\ commands'[handle'[u]] = Meant(u)' /\ Kind(Meant(u))' # "split"
      /\ \A t \in DOMAIN section' :
           handle'[u] \in available'[t] => Before(End(Spot(u))', End(Base(t))')
  <2>1. u \in Created' \ Created
    BY <1>1, <1>3 DEF Added, Created
  <2>2. /\ handle'[u] \in DOMAIN commands' /\ commands'[handle'[u]] = Meant(u)'
        /\ Kind(Meant(u))' # "split"
    <3>1. u = Meant(u)' /\ Kind(Meant(u))' = Kind(u)'
      BY <1>1, <2>1, NewMeant
    <3>2. Kind(u)' # "split"
      BY DEF Added, Kind
    <3> QED
      BY <1>2, <1>3, <1>5, <3>1, <3>2
  <2>3. ASSUME NEW t \in DOMAIN section, l + 1 \in available'[t] PROVE t = s
    BY <1>3, <1>4, <1>5, <2>3
  <2>4. Before(End(Spot(u))', End(Base(s))')
    <3>1. PICK b \in Seq(Int) : b = Base(s)
      BY <1>3, BaseTyped
    <3>2. b = (Base(s))'
      BY <1>1, <1>3, <3>1, ExtendedItems
    <3>3. b \o <<u>> = (Spot(u))'
      BY <1>1, <3>1 DEF Spot, Added
    <3>4. Before(End(b \o <<u>>), End(b))
      BY <1>3, AddedEndsBefore
    <3>5. End(Spot(u))' = End(b \o <<u>>) /\ End(Base(s))' = End(b)
      BY <3>2, <3>3 DEF End
    <3> QED
      BY <3>4, <3>5
  <2> QED
    BY <1>3, <2>2, <2>3, <2>4
<1>9. ASSUME NEW v \in held'
      PROVE  /\ handle'[v] \in DOMAIN commands' /\ commands'[handle'[v]] = Meant(v)' /\ Kind(Meant(v))' # "split"
             /\ \A t \in DOMAIN section' :
                  handle'[v] \in available'[t] => Before(End(Spot(v))', End(Base(t))')
  BY <1>3, <1>7, <1>8
<1>10. HeldInv'
  BY <1>9 DEF HeldInv
<1> QED
  BY <1>6, <1>10

LEMMA AddInv ==
  ASSUME Inv, Careful, NEW s \in {Root} \cup pending, NEW kind \in {"call", "intent"},
         NEW use \in Uses(s), Add(s, kind, use)
  PROVE  Inv'
<1>1. PICK u, l : Added(s, u, l)
  BY AddFacts
<1>2. Typed' /\ Extended
  BY <1>1, AddTyped
<1>3. ForksInv' /\ ListedInv' /\ OrderInv' /\ HeldInv' /\ AvailableInv'
  BY <1>1, AddSections, AddHeld
<1> QED
  BY <1>2, <1>3, ExtendedList, ExtendedResults, ExtendedReturns, ExtendedMeans, ExtendedArguments DEF Inv
-----------------------------------------------------------------------------
(* A thunk is added, with what it adds itself before it first awaits.      *)
LEMMA Concatenated ==
  ASSUME NEW S, NEW a \in Seq(S), NEW b \in Seq(S), NEW c, c = a \o b,
         NEW m \in Nat, NEW n \in Nat, m = Len(a), n = Len(b)
  PROVE  /\ c \in Seq(S) /\ Len(c) = m + n
         /\ \A k \in 1..m : c[k] = a[k]
         /\ \A k \in 1..n : c[m + k] = b[k]
<1>1. /\ c \in Seq(S) /\ Len(c) = m + n
      /\ \A k \in 1..(m + n) : c[k] = IF k <= m THEN a[k] ELSE b[k - m]
  BY ConcatProperties
<1>2. \A k \in 1..m : k \in 1..(m + n) /\ k <= m
  OBVIOUS
<1>3. ASSUME NEW k \in 1..n PROVE c[m + k] = b[k]
  <2>1. PICK j : j = m + k
    OBVIOUS
  <2>2. j \in 1..(m + n) /\ ~(j <= m) /\ j - m = k
    BY <2>1
  <2>3. c[j] = b[j - m]
    BY <1>1, <2>2
  <2> QED
    BY <2>1, <2>2, <2>3
<1> QED
  BY <1>1, <1>2, <1>3

LEMMA Appended ==
  ASSUME NEW S, NEW a \in Seq(S), NEW e \in S, NEW c, c = a \o <<e>>, NEW m \in Nat, m = Len(a)
  PROVE  /\ c \in Seq(S) /\ Len(c) = m + 1 /\ c[m + 1] = e
         /\ \A k \in 1..m : c[k] = a[k]
<1>1. c = Append(a, e)
  BY AppendIsConcat
<1> QED
  BY <1>1, AppendProperties

LEMMA JoinedFirst ==
  ASSUME NEW S, NEW a \in Seq(S), NEW e \in S, NEW n \in Nat, NEW f \in [1..n -> S],
         NEW c, c = a \o <<e>> \o f, NEW m \in Nat, m = Len(a)
  PROVE  /\ c \in Seq(S) /\ Len(c) = m + 1 + n
         /\ \A k \in 1..m : c[k] = a[k]
         /\ c[m + 1] = e
         /\ \A k \in 1..n : c[m + 1 + k] = f[k]
<1>1. f \in Seq(S) /\ Len(f) = n
  OBVIOUS
<1>4. PICK b : b = a \o <<e>>
  OBVIOUS
<1>5. b \in Seq(S) /\ Len(b) = m + 1 /\ (\A k \in 1..m : b[k] = a[k]) /\ b[m + 1] = e
  BY <1>4, Appended
<1>6. PICK l \in Nat : l = m + 1
  OBVIOUS
<1>7. PICK z : z = b \o f
  OBVIOUS
<1>8. z \in Seq(S) /\ Len(z) = l + n /\ (\A k \in 1..l : z[k] = b[k]) /\ \A k \in 1..n : z[l + k] = f[k]
  <2>1. l = Len(b) /\ b \in Seq(S)
    BY <1>5, <1>6
  <2> QED
    <3>1. PICK g : g = f
      OBVIOUS
    <3>2. z = b \o g /\ g \in Seq(S) /\ n = Len(g)
      BY <1>1, <1>7, <3>1
    <3>3. z \in Seq(S) /\ Len(z) = l + n /\ (\A k \in 1..l : z[k] = b[k]) /\ \A k \in 1..n : z[l + k] = g[k]
      BY <2>1, <3>2, Concatenated
    <3> QED
      BY <3>1, <3>3
<1>9. l \in 1..l /\ \A k \in 1..m : k \in 1..l
  BY <1>6
<1>10. z[l] = e /\ \A k \in 1..m : z[k] = a[k]
  BY <1>5, <1>6, <1>8, <1>9
<1>11. z = c
  BY <1>4, <1>7
<1> QED
  BY <1>6, <1>8, <1>10, <1>11

LEMMA JoinedLast ==
  ASSUME NEW S, NEW a \in Seq(S), NEW e \in S, NEW n \in Nat, NEW f \in [1..n -> S],
         NEW c, c = a \o f \o <<e>>, NEW m \in Nat, m = Len(a)
  PROVE  /\ c \in Seq(S) /\ Len(c) = m + n + 1
         /\ \A k \in 1..m : c[k] = a[k]
         /\ \A k \in 1..n : c[m + k] = f[k]
         /\ c[m + n + 1] = e
<1>1. f \in Seq(S) /\ Len(f) = n
  OBVIOUS
<1>4. PICK d : d = a \o f
  OBVIOUS
<1>5. d \in Seq(S) /\ Len(d) = m + n /\ (\A k \in 1..m : d[k] = a[k]) /\ \A k \in 1..n : d[m + k] = f[k]
  <2>1. PICK g : g = f
    OBVIOUS
  <2>2. d = a \o g /\ g \in Seq(S) /\ n = Len(g)
    BY <1>1, <1>4, <2>1
  <2>3. d \in Seq(S) /\ Len(d) = m + n /\ (\A k \in 1..m : d[k] = a[k]) /\ \A k \in 1..n : d[m + k] = g[k]
    BY <2>2, Concatenated
  <2> QED
    BY <2>1, <2>3
<1>6. PICK l \in Nat : l = m + n
  OBVIOUS
<1>7. PICK z : z = d \o <<e>>
  OBVIOUS
<1>8. z \in Seq(S) /\ Len(z) = l + 1 /\ z[l + 1] = e /\ \A k \in 1..l : z[k] = d[k]
  <2>1. l = Len(d) /\ d \in Seq(S)
    BY <1>5, <1>6
  <2> QED
    BY <1>7, <2>1, Appended
<1>9. (\A k \in 1..m : k \in 1..l) /\ \A k \in 1..n : m + k \in 1..l
  BY <1>6
<1>10. (\A k \in 1..m : z[k] = a[k]) /\ \A k \in 1..n : z[m + k] = f[k]
  BY <1>5, <1>8, <1>9
<1>11. z = c
  BY <1>4, <1>7
<1> QED
  BY <1>6, <1>8, <1>10, <1>11

ThunkAdded(s, n, p, l) ==
  /\ ~aliased /\ UNCHANGED <<aliased, result, rejected, phase>>
  /\ p = Len(command) + 1 /\ l = Len(commands) /\ s \in DOMAIN section
  /\ p \in Int /\ p > 0 /\ l \in Nat /\ n \in Nat /\ p + n <= MaxCommands
  /\ command' \in Seq(Use) /\ Len(command') = p + n
  /\ \A v \in Created : command'[v] = command[v] /\ handle'[v] = handle[v]
  /\ command'[p].kind = "thunk" /\ command'[p].means = None /\ command'[p].arg = NoArg
  /\ ~command'[p].nested /\ command'[p].place = Base(s) \o <<p>>
  /\ \A i \in 1..n : /\ command'[p + i].kind = "call" /\ command'[p + i].means = None
                     /\ command'[p + i].arg = NoArg /\ ~command'[p + i].nested
                     /\ command'[p + i].place = (Base(s) \o <<p>>) \o <<p + i>>
  /\ commands' \in Seq(Int) /\ Len(commands') = l + n + 1 /\ commands'[l + n + 1] = p
  /\ \A i \in 1..l : commands'[i] = commands[i]
  /\ \A i \in 1..n : commands'[l + i] = p + i /\ handle'[p + i] = l + i
  /\ handle' \in Seq(Nat) /\ Len(handle') = p + n /\ handle'[p] = l + n + 1
  /\ DOMAIN section' = DOMAIN section \cup {p}
  /\ \A t \in DOMAIN section : t # s => section'[t] = section[t] /\ available'[t] = available[t]
  /\ section'[s] = section[s] \o <<Item("fork", p), Item("command", p)>>
  /\ section'[p] = [i \in 1..n |-> Item("command", p + i)]
  /\ section' = [t \in DOMAIN section' |-> section'[t]]
  /\ available' = [t \in DOMAIN section' |-> available'[t]]
  /\ available'[s] = available[s] \cup {l + n + 1}
  /\ available'[p] = available[s] \cup {l + i : i \in 1..n}
  /\ held' = held \cup (p..(p + n)) /\ pending' = pending \cup {p}

LEMMA AddThunkFacts ==
  ASSUME Inv, Careful, NEW s \in {Root} \cup pending, NEW n \in 0..1, AddThunk(s, n),
         NEW p, NEW l, p = Len(command) + 1, l = Len(commands)
  PROVE  ThunkAdded(s, n, p, l)
<1> DEFINE none == [means |-> None, nested |-> FALSE]
           thunk == NewCommand(s, p, "thunk", none)
           calls == [i \in 1..n |-> [kind |-> "call", arg |-> NoArg, means |-> None,
                                     nested |-> FALSE, place |-> Place(s, p) \o <<p + i>>]]
           first == [u \in (p + 1)..(p + n) |-> l + u - p]
<1>1. ~aliased /\ s \in DOMAIN section
  BY NotAliased DEF AddThunk
<1>2. /\ p + n <= MaxCommands
      /\ command' = command \o <<thunk>> \o calls
      /\ commands' = commands \o [i \in 1..n |-> p + i] \o <<p>>
      /\ section' = [t \in DOMAIN section \cup {p} |->
                      IF t = p THEN Items([i \in 1..n |-> p + i])
                      ELSE IF t = s THEN section[s] \o <<Item("fork", p), Item("command", p)>>
                      ELSE section[t]]
      /\ available' = [t \in DOMAIN available \cup {p} |->
                        IF t = p THEN available[s] \cup {first[u] : u \in DOMAIN first}
                        ELSE IF t = s THEN available[s] \cup {Len(commands')}
                        ELSE available[t]]
      /\ handle' = handle \o <<Len(commands')>> \o [i \in 1..n |-> l + i]
      /\ held' = held \cup (p..(p + n)) /\ pending' = pending \cup {p}
      /\ UNCHANGED <<aliased, result, rejected, phase>>
  BY DEF AddThunk
<1>3. /\ command \in Seq(Use) /\ commands \in Seq(Int) /\ handle \in Seq(Nat)
      /\ Len(handle) = Len(command) /\ available \in [DOMAIN section -> SUBSET Nat]
  BY DEF Inv, Typed
<1>4. /\ Len(command) \in Nat /\ Created = 1..Len(command) /\ MaxCommands \in Nat
      /\ l \in Nat /\ n \in Nat /\ p \in Nat /\ p > 0 /\ p = Len(command) + 1 /\ p \notin DOMAIN section
  <2>1. l \in Nat
    BY <1>3
  <2>2. Len(command) \in Nat /\ Created = 1..Len(command) /\ MaxCommands \in Nat
    BY CommandTyped DEF Inv
  <2>3. p \in Nat /\ p > 0 /\ p > Len(command) /\ n \in Nat
    BY <2>2
  <2>4. p \notin DOMAIN section
    BY <2>2, <2>3, SectionsBounded DEF Inv, Root
  <2> QED
    BY <2>1, <2>2, <2>3, <2>4
<1>5. PICK b \in Seq(Int) : b = Base(s)
  BY <1>1, BaseTyped
<1>6. Place(s, p) = b \o <<p>>
  BY <1>5 DEF Place, Base
<1>7. PICK q : q = b \o <<p>>
  OBVIOUS
<1>8. q \in Seq(Int)
  BY <1>4, <1>7, PlaceNext
<1>9. thunk = [kind |-> "thunk", arg |-> NoArg, means |-> None, nested |-> FALSE, place |-> q]
  BY <1>6, <1>7 DEF NewCommand, Argument
<1> HIDE DEF thunk
<1>10. thunk \in Use
  BY <1>8, <1>9 DEF Use, Arg, NoArg, None
<1>11. ASSUME NEW i \in 1..n
       PROVE  /\ calls[i] = [kind |-> "call", arg |-> NoArg, means |-> None, nested |-> FALSE,
                             place |-> q \o <<p + i>>]
              /\ calls[i] \in Use
  <2>1. q \o <<p + i>> \in Seq(Int)
    BY <1>4, <1>8, PlaceNext
  <2> QED
    BY <1>6, <1>7, <2>1 DEF Use, Arg, NoArg, None
<1>12. calls \in [1..n -> Use]
  BY <1>11
<1> HIDE DEF calls, none, first
<1>13. /\ command' \in Seq(Use) /\ Len(command') = p + n /\ command'[p] = thunk
       /\ \A v \in Created : command'[v] = command[v]
       /\ \A i \in 1..n : command'[p + i] = calls[i]
  <2>1. PICK C : C = Use
    OBVIOUS
  <2>2. command \in Seq(C) /\ thunk \in C /\ calls \in [1..n -> C]
    BY <1>3, <1>10, <1>12, <2>1
  <2>3. PICK m \in Nat : m = Len(command)
    BY <1>4
  <2>4. PICK a, e, f, c : a = command /\ e = thunk /\ f = calls /\ c = command'
    OBVIOUS
  <2>5. a \in Seq(C) /\ e \in C /\ f \in [1..n -> C] /\ c = a \o <<e>> \o f /\ m = Len(a) /\ n \in Nat
    BY <1>2, <1>4, <2>2, <2>3, <2>4
  <2>6. /\ c \in Seq(C) /\ Len(c) = m + 1 + n /\ \A k \in 1..m : c[k] = a[k]
        /\ c[m + 1] = e /\ \A k \in 1..n : c[m + 1 + k] = f[k]
    BY <2>5, JoinedFirst
  <2>7. p = m + 1 /\ Created = 1..m
    BY <1>4, <2>3
  <2> QED
    BY <2>1, <2>4, <2>6, <2>7
<1>14. /\ commands' \in Seq(Int) /\ Len(commands') = l + n + 1 /\ commands'[l + n + 1] = p
       /\ \A i \in 1..l : commands'[i] = commands[i]
       /\ \A i \in 1..n : commands'[l + i] = p + i
  <2>1. PICK C : C = Int
    OBVIOUS
  <2>2. PICK g : g = [i \in 1..n |-> p + i]
    OBVIOUS
  <2>3. commands \in Seq(C) /\ p \in C /\ g \in [1..n -> C]
    BY <1>3, <1>4, <2>1, <2>2
  <2>4. commands' = commands \o g \o <<p>>
    BY <1>2, <2>2
  <2>5. PICK a, c : a = commands /\ c = commands'
    OBVIOUS
  <2>6. a \in Seq(C) /\ c = a \o g \o <<p>> /\ l = Len(a) /\ n \in Nat /\ l \in Nat
    BY <1>4, <2>3, <2>4, <2>5
  <2>7. /\ c \in Seq(C) /\ Len(c) = l + n + 1 /\ \A k \in 1..l : c[k] = a[k]
        /\ (\A k \in 1..n : c[l + k] = g[k]) /\ c[l + n + 1] = p
    BY <2>3, <2>6, JoinedLast, SMTT(30)
  <2>8. \A i \in 1..n : g[i] = p + i
    BY <2>2
  <2>9. \A i \in 1..n : c[l + i] = p + i
    BY <2>7, <2>8
  <2>10. commands' \in Seq(Int) /\ Len(commands') = l + n + 1 /\ commands'[l + n + 1] = p
    <3>1. commands' \in Seq(Int)
      BY <2>1, <2>5, <2>7
    <3>2. Len(commands') = l + n + 1
      BY <2>5, <2>7
    <3>3. commands'[l + n + 1] = p
      <4>1. PICK k : k = l + n + 1
        OBVIOUS
      <4>2. c[k] = p
        BY <2>7, <4>1
      <4>3. commands'[k] = p
        BY <2>5, <4>2
      <4> QED
        BY <4>1, <4>3
    <3> QED
      BY <3>1, <3>2, <3>3
  <2>11. \A i \in 1..l : commands'[i] = commands[i]
    BY <2>5, <2>7
  <2>12. \A i \in 1..n : commands'[l + i] = p + i
    BY <2>5, <2>9
  <2> QED
    BY <2>10, <2>11, <2>12
<1>15. /\ handle' \in Seq(Nat) /\ Len(handle') = p + n /\ handle'[p] = l + n + 1
       /\ \A v \in Created : handle'[v] = handle[v]
       /\ \A i \in 1..n : handle'[p + i] = l + i
  <2>1. PICK C : C = Nat
    OBVIOUS
  <2>2. PICK g : g = [i \in 1..n |-> l + i]
    OBVIOUS
  <2>3. PICK h : h = Len(commands')
    OBVIOUS
  <2>4. handle \in Seq(C) /\ h \in C /\ g \in [1..n -> C] /\ h = l + n + 1
    BY <1>3, <1>4, <1>14, <2>1, <2>2, <2>3
  <2>5. handle' = handle \o <<h>> \o g
    BY <1>2, <2>2, <2>3
  <2>6. PICK a, c : a = handle /\ c = handle'
    OBVIOUS
  <2>7. PICK m \in Nat : m = Len(command)
    BY <1>4
  <2>8. a \in Seq(C) /\ c = a \o <<h>> \o g /\ m = Len(a) /\ n \in Nat
    BY <1>3, <1>4, <2>4, <2>5, <2>6, <2>7
  <2>9. /\ c \in Seq(C) /\ Len(c) = m + 1 + n /\ \A k \in 1..m : c[k] = a[k]
        /\ c[m + 1] = h /\ \A k \in 1..n : c[m + 1 + k] = g[k]
    BY <2>4, <2>8, JoinedFirst, SMTT(30)
  <2>10. p = m + 1 /\ Created = 1..m
    BY <1>4, <2>7
  <2> QED
    BY <2>1, <2>2, <2>4, <2>6, <2>9, <2>10
<1>16. s # p
  BY <1>1, <1>4
<1>17. /\ DOMAIN section' = DOMAIN section \cup {p}
       /\ section' = [t \in DOMAIN section' |-> section'[t]]
       /\ \A t \in DOMAIN section : t # s => section'[t] = section[t]
       /\ section'[s] = section[s] \o <<Item("fork", p), Item("command", p)>>
       /\ section'[p] = [i \in 1..n |-> Item("command", p + i)]
  <2>1. Items([i \in 1..n |-> p + i]) = [i \in 1..n |-> Item("command", p + i)]
    BY DEF Items
  <2> QED
    BY <1>1, <1>2, <1>4, <1>16, <2>1
<1>18. /\ available' = [t \in DOMAIN section' |-> available'[t]]
       /\ \A t \in DOMAIN section : t # s => available'[t] = available[t]
       /\ available'[s] = available[s] \cup {l + n + 1}
       /\ available'[p] = available[s] \cup {first[u] : u \in DOMAIN first}
  <2>1. DOMAIN available = DOMAIN section
    BY <1>3
  <2>2. PICK F : F = {first[u] : u \in DOMAIN first}
    OBVIOUS
  <2> QED
    BY <1>1, <1>2, <1>4, <1>14, <1>16, <1>17, <2>1, <2>2
<1>19. {first[u] : u \in DOMAIN first} = {l + i : i \in 1..n}
  <2>1. /\ DOMAIN first = (p + 1)..(p + n)
        /\ \A u \in (p + 1)..(p + n) : first[u] = l + u - p
    BY DEF first
  <2>2. \A u \in (p + 1)..(p + n) : u - p \in 1..n /\ l + u - p = l + (u - p)
    BY <1>4
  <2>3. \A i \in 1..n : p + i \in (p + 1)..(p + n) /\ l + (p + i) - p = l + i
    BY <1>4
  <2>4. \A u \in DOMAIN first : \E i \in 1..n : first[u] = l + i
    BY <2>1, <2>2
  <2>5. \A i \in 1..n : \E u \in DOMAIN first : first[u] = l + i
    BY <2>1, <2>3
  <2> QED
    BY <2>4, <2>5
<1>20. available'[p] = available[s] \cup {l + i : i \in 1..n}
  BY <1>18, <1>19
<1>21. /\ command'[p].kind = "thunk" /\ command'[p].means = None /\ command'[p].arg = NoArg
       /\ ~command'[p].nested /\ command'[p].place = Base(s) \o <<p>>
  BY <1>5, <1>7, <1>9, <1>13
<1>22. ASSUME NEW i \in 1..n
       PROVE  /\ command'[p + i].kind = "call" /\ command'[p + i].means = None
              /\ command'[p + i].arg = NoArg /\ ~command'[p + i].nested
              /\ command'[p + i].place = (Base(s) \o <<p>>) \o <<p + i>>
  <2>1. PICK c : c = q \o <<p + i>>
    OBVIOUS
  <2>2. command'[p + i] = [kind |-> "call", arg |-> NoArg, means |-> None, nested |-> FALSE, place |-> c]
    BY <1>11, <1>13, <2>1
  <2>3. c = (Base(s) \o <<p>>) \o <<p + i>>
    BY <1>5, <1>7, <2>1
  <2> QED
    BY <2>2, <2>3
<1>23. p + n <= MaxCommands /\ held' = held \cup (p..(p + n)) /\ pending' = pending \cup {p}
       /\ UNCHANGED <<aliased, result, rejected, phase>> /\ p \in Int
  BY <1>2, <1>4
<1> QED
  BY <1>1, <1>4, <1>13, <1>14, <1>15, <1>17, <1>18, <1>20, <1>21, <1>22, <1>23 DEF ThunkAdded

LEMMA AddThunkTyped ==
  ASSUME Inv, NEW s, NEW n, NEW p, NEW l, ThunkAdded(s, n, p, l)
  PROVE  /\ Typed' /\ Extended /\ p \notin DOMAIN section
         /\ Created' \ Created = p..(p + n)
         /\ DOMAIN commands = 1..l /\ DOMAIN commands' = 1..(l + n + 1)
<1>1. /\ command \in Seq(Use) /\ commands \in Seq(Int) /\ Len(command) <= MaxCommands
      /\ section \in [DOMAIN section -> Seq(Entry)] /\ available \in [DOMAIN section -> SUBSET Nat]
      /\ held \subseteq Created /\ pending \subseteq DOMAIN section \ {Root}
      /\ result \in [Id -> {None} \cup Created] /\ DOMAIN section \subseteq Nat /\ Root \in DOMAIN section
      /\ rejected \in BOOLEAN /\ aliased \in BOOLEAN /\ phase \in {"open", "waiting", "plugins"}
  BY DEF Inv, Typed
<1>2. Len(command) \in Nat /\ Created = 1..Len(command) /\ MaxCommands \in Nat
  BY CommandTyped DEF Inv
<1>3. /\ p \in Int /\ p > 0 /\ p = Len(command) + 1 /\ n \in Nat /\ l \in Nat /\ p + n <= MaxCommands
  BY DEF ThunkAdded
<1>4. Created' = 1..(p + n)
  BY <1>3 DEF ThunkAdded, Created
<1>5. /\ Created \subseteq Created' /\ Created' \ Created = p..(p + n)
      /\ \A u \in p..(p + n) : u = p \/ \E i \in 1..n : u = p + i
  <2>1. ASSUME NEW u \in p..(p + n), u # p PROVE \E i \in 1..n : u = p + i
    <3>1. u - p \in 1..n /\ u = p + (u - p)
      BY <1>3, <2>1
    <3> QED
      BY <3>1
  <2>2. Created \subseteq Created' /\ Created' \ Created = p..(p + n)
    BY <1>2, <1>3, <1>4
  <2> QED
    BY <2>1, <2>2
<1>6. p \notin DOMAIN section
  <2>1. p # Root /\ p \notin Created
    BY <1>2, <1>3 DEF Root
  <2> QED
    BY <2>1, SectionsBounded DEF Inv
<1>7. DOMAIN commands = 1..l /\ DOMAIN commands' = 1..(l + n + 1)
  BY <1>1 DEF ThunkAdded
<1>8. section' \in [DOMAIN section' -> Seq(Entry)]
  <2>1. ASSUME NEW t \in DOMAIN section' PROVE section'[t] \in Seq(Entry)
    <3>1. CASE t = s
      <4>1. PICK q, f, e : q = section[s] /\ f = Item("fork", p) /\ e = Item("command", p)
        OBVIOUS
      <4>2. q \in Seq(Entry) /\ f \in Entry /\ e \in Entry
        BY <1>1, <1>3, <4>1 DEF ThunkAdded, Item, Entry
      <4>3. PICK E : E = Entry
        OBVIOUS
      <4>4. q \o <<f, e>> \in Seq(E)
        BY <4>2, <4>3
      <4>5. section'[s] = q \o <<f, e>>
        BY <4>1 DEF ThunkAdded
      <4> QED
        BY <3>1, <4>3, <4>4, <4>5
    <3>2. CASE t = p
      <4>1. \A i \in 1..n : Item("command", p + i) \in Entry
        BY <1>3 DEF Item, Entry
      <4>2. [i \in 1..n |-> Item("command", p + i)] \in [1..n -> Entry]
        BY <4>1
      <4>3. PICK g, E : g = [i \in 1..n |-> Item("command", p + i)] /\ E = Entry
        OBVIOUS
      <4>4. g \in Seq(E)
        <5>1. g \in [1..n -> E]
          BY <4>2, <4>3
        <5>2. n \in Nat
          BY <1>3
        <5> QED
          BY <5>1, <5>2
      <4> QED
        BY <3>2, <4>3, <4>4 DEF ThunkAdded
    <3>3. CASE t # s /\ t # p
      BY <1>1, <3>3 DEF ThunkAdded
    <3> QED
      BY <3>1, <3>2, <3>3
  <2> QED
    BY <2>1 DEF ThunkAdded
<1>9. available' \in [DOMAIN section' -> SUBSET Nat]
  <2>1. ASSUME NEW t \in DOMAIN section' PROVE available'[t] \in SUBSET Nat
    <3>1. available[s] \subseteq Nat
      BY <1>1 DEF ThunkAdded
    <3>2. CASE t = s
      <4>1. l + n + 1 \in Nat
        BY <1>3
      <4> QED
        BY <3>1, <3>2, <4>1 DEF ThunkAdded
    <3>3. CASE t = p
      <4>1. {l + i : i \in 1..n} \subseteq Nat
        BY <1>3
      <4> QED
        BY <3>1, <3>3, <4>1 DEF ThunkAdded
    <3>4. CASE t # s /\ t # p
      BY <1>1, <3>4 DEF ThunkAdded
    <3> QED
      BY <3>2, <3>3, <3>4
  <2> QED
    BY <2>1 DEF ThunkAdded
<1>10. Typed'
  <2>1. command' \in Seq(Use) /\ commands' \in Seq(Int) /\ Len(command') <= MaxCommands
    BY <1>3 DEF ThunkAdded
  <2>2. handle' \in Seq(Nat) /\ Len(handle') = Len(command')
    BY DEF ThunkAdded
  <2>3. held' \subseteq Created'
    BY <1>1, <1>5 DEF ThunkAdded
  <2>4. result' \in [Id -> {None} \cup Created']
    BY <1>1, <1>5 DEF ThunkAdded
  <2>5. /\ DOMAIN section' \subseteq Nat /\ Root \in DOMAIN section'
        /\ pending' \subseteq DOMAIN section' \ {Root}
    <3>1. p \in Nat /\ p # Root
      BY <1>3 DEF Root
    <3> QED
      BY <1>1, <3>1 DEF ThunkAdded
  <2>6. aliased' \in BOOLEAN /\ rejected' \in BOOLEAN /\ phase' \in {"open", "waiting", "plugins"}
    BY <1>1 DEF ThunkAdded
  <2> QED
    BY <1>8, <1>9, <2>1, <2>2, <2>3, <2>4, <2>5, <2>6 DEF Typed
<1>11. ASSUME NEW u \in Created' \ Created PROVE NewCommandFits(u)
  <2>1. PICK b \in Seq(Int) : b = Base(s) /\ \A k \in 1..Len(b) : b[k] \in Created'
    BY <1>5, BaseTyped DEF ThunkAdded
  <2>2. PICK C : C = Created'
    OBVIOUS
  <2>3. PICK q : q = b \o <<p>>
    OBVIOUS
  <2>4. p \in C /\ p \in Int
    BY <1>3, <1>4, <2>2
  <2>5. q \in Seq(Int) /\ Len(q) > 0 /\ \A k \in 1..Len(q) : q[k] \in C
    BY <2>1, <2>2, <2>3, <2>4, PlaceNext, PlaceCreated
  <2>6. CASE u = p
    <3>1. command'[u].place = q
      BY <2>1, <2>3, <2>6 DEF ThunkAdded
    <3> QED
      BY <2>2, <2>5, <2>6, <3>1 DEF ThunkAdded, NewCommandFits
  <2>7. CASE u # p
    <3>1. PICK i \in 1..n : u = p + i
      BY <1>5, <2>7
    <3>2. u \in C /\ u \in Int
      BY <1>3, <2>2, <3>1
    <3>3. PICK c : c = q \o <<u>>
      OBVIOUS
    <3>4. Len(c) > 0 /\ \A k \in 1..Len(c) : c[k] \in C
      BY <2>5, <3>2, <3>3, PlaceCreated
    <3>5. command'[u].place = c
      BY <2>1, <2>3, <3>1, <3>3 DEF ThunkAdded
    <3>6. /\ command'[u].kind = "call" /\ command'[u].means = None /\ command'[u].arg = NoArg
          /\ ~command'[u].nested
      BY <3>1 DEF ThunkAdded
    <3> QED
      BY <2>2, <3>4, <3>5, <3>6 DEF NewCommandFits
  <2> QED
    BY <2>6, <2>7
<1>12. /\ DOMAIN commands \subseteq DOMAIN commands'
       /\ \A i \in DOMAIN commands : commands'[i] = commands[i]
       /\ \A j \in DOMAIN commands' \ DOMAIN commands :
            commands'[j] \in p..(p + n) /\ handle'[commands'[j]] = j
  <2>1. \A i \in DOMAIN commands : commands'[i] = commands[i]
    BY <1>7 DEF ThunkAdded
  <2>2. DOMAIN commands \subseteq DOMAIN commands'
    BY <1>3, <1>7
  <2>3. ASSUME NEW j \in DOMAIN commands' \ DOMAIN commands
        PROVE  commands'[j] \in p..(p + n) /\ handle'[commands'[j]] = j
    <3>1. CASE j = l + n + 1
      <4>1. commands'[j] = p /\ handle'[p] = j
        BY <3>1 DEF ThunkAdded
      <4>2. p \in p..(p + n)
        BY <1>3
      <4> QED
        BY <4>1, <4>2
    <3>2. CASE j # l + n + 1
      <4>1. PICK i : i = j - l
        OBVIOUS
      <4>2. i \in 1..n /\ j = l + i /\ p + i \in p..(p + n)
        BY <1>3, <1>7, <3>2, <4>1
      <4>3. commands'[l + i] = p + i /\ handle'[p + i] = l + i
        BY <4>2 DEF ThunkAdded
      <4> QED
        BY <4>2, <4>3
    <3> QED
      BY <3>1, <3>2
  <2> QED
    BY <2>1, <2>2, <2>3
<1>13. ASSUME NEW u \in p..(p + n)
       PROVE  handle'[u] \in DOMAIN commands' \ DOMAIN commands /\ commands'[handle'[u]] = u
  <2>1. CASE u = p
    <3>1. handle'[u] = l + n + 1 /\ commands'[l + n + 1] = p
      BY <2>1 DEF ThunkAdded
    <3>2. l + n + 1 \in DOMAIN commands' \ DOMAIN commands
      BY <1>3, <1>7
    <3> QED
      BY <2>1, <3>1, <3>2
  <2>2. CASE u # p
    <3>1. PICK i \in 1..n : u = p + i
      BY <1>5, <2>2
    <3>2. handle'[u] = l + i /\ commands'[l + i] = u
      BY <3>1 DEF ThunkAdded
    <3>3. l + i \in DOMAIN commands' \ DOMAIN commands
      BY <1>3, <1>7
    <3> QED
      BY <3>2, <3>3
  <2> QED
    BY <2>1, <2>2
<1>14. Extended
  <2>1. DOMAIN section' \ DOMAIN section = {p} /\ DOMAIN section \subseteq DOMAIN section'
    BY <1>6 DEF ThunkAdded
  <2>2. p \in Created' \ Created
    <3>1. p \in p..(p + n)
      BY <1>3
    <3> QED
      BY <1>5, <3>1
  <2>3. \A i \in DOMAIN commands' \ DOMAIN commands :
          commands'[i] \in Created' \ Created /\ handle'[commands'[i]] = i
    BY <1>5, <1>12
  <2>4. \A u \in Created' \ Created :
          handle'[u] \in DOMAIN commands' \ DOMAIN commands /\ commands'[handle'[u]] = u
    BY <1>5, <1>13
  <2>5. held' = held \cup (Created' \ Created) /\ pending' = pending \cup {p}
    BY <1>5 DEF ThunkAdded
  <2>6. /\ ~aliased /\ UNCHANGED <<aliased, result, rejected, phase>> /\ command'[p].kind = "thunk"
        /\ \A u \in Created : command'[u] = command[u] /\ handle'[u] = handle[u]
    BY DEF ThunkAdded
  <2> QED
    BY <1>5, <1>11, <1>12, <2>1, <2>2, <2>3, <2>4, <2>5, <2>6 DEF Extended
<1> QED
  BY <1>5, <1>6, <1>7, <1>10, <1>14

LEMMA SiblingsInOrder ==
  ASSUME NEW q \in Seq(Int), NEW u \in Int, NEW v \in Int, u < v
  PROVE  Before(q \o <<u>>, q \o <<v>>)
<1>1. PICK c : c = q \o <<u>>
  OBVIOUS
<1>2. c \in Seq(Int) /\ c[Len(q) + 1] = u /\ Under(q, c)
  BY <1>1, PlaceNext
<1>3. Before(c, q \o <<v>>)
  BY <1>2, AddedIsNext
<1> QED
  BY <1>1, <1>3

ThunkPlaces(s, n, p, b, q) ==
  /\ s \in DOMAIN section /\ p \in Id /\ p \in Int /\ p > 0 /\ n \in Nat /\ s < p /\ p > Len(command)
  /\ b \in Seq(Int) /\ q \in Seq(Int) /\ b = Base(s) /\ q = b \o <<p>>
  /\ Base(s)' = b /\ Base(p)' = q /\ Spot(p)' = q /\ (IsThunk(p))' /\ Kind(p)' = "thunk"
  /\ \A u \in (p + 1)..(p + n) : Spot(u)' = q \o <<u>> /\ ~(IsThunk(u))' /\ u \in Id /\ Kind(u)' = "call"
  /\ \A u \in p..(p + n) : u = p \/ u \in (p + 1)..(p + n)
  /\ \A i \in 1..n : p + i \in (p + 1)..(p + n)
  /\ \A u \in (p + 1)..(p + n) : u \in p..(p + n) /\ u - p \in 1..n /\ u = p + (u - p)
  /\ p \in p..(p + n)

LEMMA AddThunkPlaces ==
  ASSUME Inv, NEW s, NEW n, NEW p, NEW l, ThunkAdded(s, n, p, l)
  PROVE  \E b, q : ThunkPlaces(s, n, p, b, q)
<1>1. Typed' /\ Extended /\ Created' \ Created = p..(p + n)
  BY AddThunkTyped
<1>2. /\ p \in Int /\ p > 0 /\ p = Len(command) + 1 /\ n \in Nat /\ p + n <= MaxCommands
      /\ s \in DOMAIN section
  BY DEF ThunkAdded
<1>3. Len(command) \in Nat /\ Created = 1..Len(command) /\ MaxCommands \in Nat
  BY CommandTyped DEF Inv
<1>4. p \in Id /\ p > Len(command) /\ \A u \in (p + 1)..(p + n) : u \in Id /\ u \in Int /\ u > 0
  BY <1>2, <1>3 DEF Id
<1>5. s < p
  <2>1. s = Root \/ s \in 1..Len(command)
    BY <1>2, <1>3, SectionsBounded DEF Inv
  <2> QED
    BY <1>2, <1>3, <2>1 DEF Root
<1>6. PICK b \in Seq(Int) : b = Base(s)
  BY <1>2, BaseTyped
<1>7. PICK q \in Seq(Int) : q = b \o <<p>>
  BY <1>2, PlaceNext
<1>8. /\ \A u \in p..(p + n) : u = p \/ u \in (p + 1)..(p + n)
      /\ \A i \in 1..n : p + i \in (p + 1)..(p + n)
      /\ \A u \in (p + 1)..(p + n) : u \in p..(p + n) /\ u - p \in 1..n /\ u = p + (u - p)
      /\ p \in p..(p + n)
  BY <1>2
<1>9. Base(s)' = b
  BY <1>1, <1>2, <1>6, ExtendedItems
<1>10. command'[p].place = q /\ command'[p].kind = "thunk" /\ p \in Created'
  BY <1>1, <1>6, <1>7, <1>8 DEF ThunkAdded
<1>11. Base(p)' = q /\ Spot(p)' = q /\ (IsThunk(p))' /\ Kind(p)' = "thunk"
  <2>1. p # Root
    BY <1>2 DEF Root
  <2> QED
    BY <1>2, <1>10, <2>1 DEF Base, Spot, IsThunk, Kind
<1>12. ASSUME NEW u \in (p + 1)..(p + n)
       PROVE  Spot(u)' = q \o <<u>> /\ ~(IsThunk(u))' /\ Kind(u)' = "call"
  <2>1. PICK i \in 1..n : u = p + i
    BY <1>8
  <2>2. command'[u].place = q \o <<u>> /\ command'[u].kind = "call"
    BY <1>6, <1>7, <2>1 DEF ThunkAdded
  <2> QED
    BY <1>4, <2>2 DEF Spot, IsThunk, Kind
<1>13. ThunkPlaces(s, n, p, b, q)
  BY <1>2, <1>4, <1>5, <1>6, <1>7, <1>8, <1>9, <1>11, <1>12 DEF ThunkPlaces
<1> QED
  BY <1>13

LEMMA ThunkItems ==
  ASSUME Inv, NEW s, NEW n, NEW p, NEW l, ThunkAdded(s, n, p, l)
  PROVE  /\ ToSet(section'[s]) = ToSet(section[s]) \cup {Item("fork", p), Item("command", p)}
         /\ ToSet(section'[p]) = {Item("command", p + i) : i \in 1..n}
         /\ \E m \in Nat : /\ DOMAIN section[s] = 1..m /\ DOMAIN section'[s] = 1..(m + 2)
                           /\ \A i \in 1..m : section'[s][i] = section[s][i]
                           /\ section'[s][m + 1] = Item("fork", p)
                           /\ section'[s][m + 2] = Item("command", p)
         /\ DOMAIN section'[p] = 1..n /\ \A i \in 1..n : section'[p][i] = Item("command", p + i)
<1>1. section[s] \in Seq(Entry) /\ section'[s] = section[s] \o <<Item("fork", p), Item("command", p)>>
  BY DEF Inv, Typed, ThunkAdded
<1>2. PICK m \in Nat : m = Len(section[s])
  BY <1>1
<1>3. PICK a, r, f, e : a = section[s] /\ r = section'[s] /\ f = Item("fork", p) /\ e = Item("command", p)
  OBVIOUS
<1>4. PICK E : E = Entry
  OBVIOUS
<1>5. DOMAIN a = 1..m /\ DOMAIN r = 1..(m + 2) /\ (\A i \in 1..m : r[i] = a[i]) /\ r[m + 1] = f /\ r[m + 2] = e
  <2>1. a \in Seq(E) /\ Len(a) = m /\ r = a \o <<f, e>>
    BY <1>1, <1>2, <1>3, <1>4
  <2>2. DOMAIN a = 1..m /\ DOMAIN r = 1..(m + 2) /\ (\A i \in 1..m : r[i] = a[i])
    BY <2>1
  <2>3. r[m + 1] = f /\ r[m + 2] = e
    BY <2>1
  <2> QED
    BY <2>2, <2>3
<1>6. ToSet(r) = ToSet(a) \cup {f, e}
  <2>1. ASSUME NEW x \in ToSet(r) PROVE x \in ToSet(a) \cup {f, e}
    <3>1. PICK i \in 1..(m + 2) : r[i] = x
      BY <1>5 DEF ToSet
    <3>2. i \in 1..m \/ i = m + 1 \/ i = m + 2
      BY <3>1
    <3> QED
      BY <1>5, <3>1, <3>2 DEF ToSet
  <2>2. ASSUME NEW x \in ToSet(a) PROVE x \in ToSet(r)
    <3>1. PICK i \in 1..m : a[i] = x
      BY <1>5 DEF ToSet
    <3>2. i \in 1..(m + 2)
      OBVIOUS
    <3> QED
      BY <1>5, <3>1, <3>2 DEF ToSet
  <2>3. f \in ToSet(r) /\ e \in ToSet(r)
    <3>1. m + 1 \in 1..(m + 2) /\ m + 2 \in 1..(m + 2)
      OBVIOUS
    <3> QED
      BY <1>5, <3>1 DEF ToSet
  <2> QED
    BY <2>1, <2>2, <2>3
<1>7. section'[p] = [i \in 1..n |-> Item("command", p + i)]
  BY DEF ThunkAdded
<1>8. ToSet(section'[p]) = {Item("command", p + i) : i \in 1..n}
  BY <1>7 DEF ToSet
<1> QED
  BY <1>3, <1>5, <1>6, <1>7, <1>8

LEMMA AddThunkSections ==
  ASSUME Inv, NEW s, NEW n, NEW p, NEW l, ThunkAdded(s, n, p, l)
  PROVE  ForksInv' /\ ListedInv' /\ OrderInv'
<1>1. /\ Typed' /\ Extended /\ p \notin DOMAIN section /\ Created' \ Created = p..(p + n)
  BY AddThunkTyped
<1>2. PICK b, q : ThunkPlaces(s, n, p, b, q)
  BY AddThunkPlaces
<1>3. DOMAIN section' = DOMAIN section \cup {p} /\ s \in DOMAIN section /\ s # p
  BY <1>1 DEF ThunkAdded
<1>4. ToSet(commands') = ToSet(commands) \cup (p..(p + n))
  BY <1>1, ExtendedStays
<1>5. p \in p..(p + n) /\ (IsThunk(p))'
  BY <1>2 DEF ThunkPlaces
<1>6. \A u \in p..(p + n) : u # p => ~(IsThunk(u))'
  BY <1>2 DEF ThunkPlaces
<1>7. PICK fork, mark : fork = Item("fork", p) /\ mark = Item("command", p)
  OBVIOUS
<1>8. fork.what = "fork" /\ fork.id = p /\ mark.what = "command" /\ mark.id = p
  BY <1>7 DEF Item
<1>9. /\ ToSet(section'[s]) = ToSet(section[s]) \cup {fork, mark}
      /\ ToSet(section'[p]) = {Item("command", p + i) : i \in 1..n}
      /\ \A t \in DOMAIN section : t # s => section'[t] = section[t]
  <2>1. \A t \in DOMAIN section : t # s => section'[t] = section[t]
    BY DEF ThunkAdded
  <2>2. /\ ToSet(section'[s]) = ToSet(section[s]) \cup {fork, mark}
        /\ ToSet(section'[p]) = {Item("command", p + i) : i \in 1..n}
    <3>1. ToSet(section'[p]) = {Item("command", p + i) : i \in 1..n}
      BY ThunkItems
    <3>2. ToSet(section'[s]) = ToSet(section[s]) \cup {Item("fork", p), Item("command", p)}
      BY ThunkItems
    <3> QED
      BY <1>7, <3>1, <3>2
  <2> QED
    BY <2>1, <2>2
<1>10. \A t \in DOMAIN section : ToSet(section[t]) \subseteq ToSet(section'[t])
  BY <1>9
<1>11. ForksInv'
  <2>1. DOMAIN section' = {Root} \cup {x \in ToSet(commands') : (IsThunk(x))'}
    <3>1. DOMAIN section = {Root} \cup {x \in ToSet(commands) : IsThunk(x)}
      BY DEF Inv, ForksInv
    <3>2. \A x \in ToSet(commands) : (IsThunk(x))' <=> IsThunk(x)
      BY <1>1, ExtendedStays
    <3> QED
      BY <1>3, <1>4, <1>5, <1>6, <3>1, <3>2
  <2>2. ASSUME NEW f \in DOMAIN section' \ {Root}
        PROVE  \E t \in DOMAIN section' : Item("fork", f) \in ToSet(section'[t])
    <3>1. CASE f = p
      BY <1>3, <1>7, <1>9, <3>1
    <3>2. CASE f # p
      BY <1>3, <1>10, <3>2 DEF Inv, ForksInv
    <3> QED
      BY <3>1, <3>2
  <2>3. ASSUME NEW t \in DOMAIN section', NEW e \in ToSet(section'[t])
        PROVE  IF e.what = "fork" THEN e.id \in DOMAIN section' /\ t < e.id ELSE e.id \in ToSet(commands')
    <3>1. CASE t \in DOMAIN section /\ e \in ToSet(section[t])
      BY <1>3, <1>4, <3>1 DEF Inv, ForksInv
    <3>2. CASE t = s /\ e \in {fork, mark}
      <4>1. s < p
        BY <1>2 DEF ThunkPlaces
      <4> QED
        BY <1>3, <1>4, <1>5, <1>8, <3>2, <4>1
    <3>3. CASE t = p
      <4>1. PICK i \in 1..n : e = Item("command", p + i)
        BY <1>9, <3>3
      <4>2. p + i \in p..(p + n)
        BY <1>2 DEF ThunkPlaces
      <4>3. e.what = "command" /\ e.id = p + i
        BY <4>1 DEF Item
      <4> QED
        BY <1>4, <4>2, <4>3
    <3> QED
      BY <1>3, <1>9, <3>1, <3>2, <3>3
  <2> QED
    BY <2>1, <2>2, <2>3 DEF ForksInv
<1>12. ListedInv'
  <2>1. ASSUME NEW x \in ToSet(commands'), ~(IsThunk(x))'
        PROVE  \E t \in DOMAIN section' : Item("command", x) \in ToSet(section'[t])
    <3>1. CASE x \in p..(p + n)
      <4>1. x \in (p + 1)..(p + n)
        BY <1>2, <1>5, <2>1, <3>1 DEF ThunkPlaces
      <4>2. x - p \in 1..n /\ x = p + (x - p)
        BY <1>2, <4>1 DEF ThunkPlaces
      <4>3. Item("command", x) \in ToSet(section'[p])
        BY <1>9, <4>2
      <4> QED
        BY <1>3, <4>3
    <3>2. CASE x \notin p..(p + n)
      <4>1. x \in ToSet(commands) /\ ~IsThunk(x)
        BY <1>1, <1>4, <2>1, <3>2, ExtendedStays
      <4> QED
        BY <1>3, <1>10, <4>1 DEF Inv, ListedInv
    <3> QED
      BY <3>1, <3>2
  <2>2. DOMAIN section' # {Root}
    <3>1. p # Root
      BY <1>2 DEF ThunkPlaces, Root
    <3> QED
      BY <1>3, <3>1
  <2> QED
    BY <2>1, <2>2 DEF ListedInv
<1>13. b \in Seq(Int) /\ q \in Seq(Int) /\ Under(b, q) /\ Base(s)' = b /\ Base(p)' = q /\ Spot(p)' = q
  BY <1>2, PlaceNext DEF ThunkPlaces
<1>14. Within(s, fork)' /\ Within(s, mark)'
  BY <1>8, <1>13 DEF Within
<1>15. ASSUME NEW d \in ToSet(section[s])
       PROVE  InLine(d, fork)'
  <2>1. PICK i \in DOMAIN section[s] : section[s][i] = d
    BY DEF ToSet
  <2>2. p \in Int /\ p > Len(command) /\ b = Base(s) /\ q = b \o <<p>>
    BY <1>2 DEF ThunkPlaces
  <2>3. d.id \in ToSet(commands) /\ Before(Spot(d.id), q)
    BY <1>3, <2>1, <2>2, ItemsBeforeNext
  <2>4. PICK x : x = d.id
    OBVIOUS
  <2>5. Spot(x)' = Spot(x)
    BY <1>1, <2>3, <2>4, ExtendedStays
  <2>6. Follows(x, p)'
    BY <1>13, <2>3, <2>4, <2>5 DEF Follows
  <2> QED
    BY <1>8, <2>4, <2>6 DEF InLine
<1>16. ~(Live(mark))'
  BY <1>5, <1>8 DEF Live
<1>17. \A d : InLine(d, mark)'
  BY <1>16 DEF InLine
<1>18. ASSUME NEW t \in DOMAIN section, t # s
       PROVE  /\ \A i \in DOMAIN section'[t] : Within(t, section[t][i])'
              /\ \A i, j \in DOMAIN section'[t] : i < j => InLine(section[t][i], section[t][j])'
  BY <1>1, <1>9, <1>18, SectionStays
<1>19. PICK m \in Nat : /\ DOMAIN section[s] = 1..m /\ DOMAIN section'[s] = 1..(m + 2)
                        /\ \A i \in 1..m : section'[s][i] = section[s][i]
                        /\ section'[s][m + 1] = fork /\ section'[s][m + 2] = mark
  BY <1>7, ThunkItems
<1>20. ASSUME NEW i \in DOMAIN section'[s] PROVE Within(s, section[s][i])'
  <2>1. PICK e : e = section'[s][i]
    OBVIOUS
  <2>2. e \in {fork, mark} \/ e \in ToSet(section[s])
    <3>1. i = m + 1 \/ i = m + 2 \/ i \in 1..m
      BY <1>19
    <3> QED
      BY <1>19, <2>1, <3>1 DEF ToSet
  <2>3. Within(s, e)'
    BY <1>1, <1>3, <1>14, <2>2, ExtendedItems
  <2> QED
    BY <2>1, <2>3
<1>21. ASSUME NEW i \in DOMAIN section'[s], NEW j \in DOMAIN section'[s], i < j
       PROVE  InLine(section[s][i], section[s][j])'
  <2>1. PICK d, e : d = section'[s][i] /\ e = section'[s][j]
    OBVIOUS
  <2>2. (j \in 1..m /\ i \in 1..m) \/ (j = m + 1 /\ i \in 1..m) \/ j = m + 2
    BY <1>19, <1>21
  <2>3. i \in 1..m => d = section[s][i] /\ d \in ToSet(section[s])
    BY <1>19, <2>1 DEF ToSet
  <2>4. InLine(d, e)'
    <3>1. CASE j = m + 2
      BY <1>17, <1>19, <2>1, <3>1
    <3>2. CASE j = m + 1 /\ i \in 1..m
      BY <1>15, <1>19, <2>1, <2>3, <3>2
    <3>3. CASE j \in 1..m /\ i \in 1..m
      <4>1. e = section[s][j] /\ e \in ToSet(section[s])
        BY <1>19, <2>1, <3>3 DEF ToSet
      <4>2. InLine(d, e)
        BY <1>3, <1>19, <1>21, <2>3, <3>3, <4>1 DEF Inv, OrderInv
      <4> QED
        BY <1>1, <1>3, <2>3, <3>3, <4>1, <4>2, ExtendedItems
    <3> QED
      BY <2>2, <3>1, <3>2, <3>3
  <2> QED
    BY <2>1, <2>4
<1>22. DOMAIN section'[p] = 1..n /\ \A i \in 1..n : section'[p][i] = Item("command", p + i)
  BY ThunkItems
<1>23. ASSUME NEW i \in DOMAIN section'[p] PROVE Within(p, section[p][i])'
  <2>1. PICK u : u = p + i
    OBVIOUS
  <2>2. u \in Int /\ Spot(u)' = q \o <<u>>
    BY <1>2, <1>22, <2>1 DEF ThunkPlaces
  <2>3. Under(q, q \o <<u>>)
    BY <1>13, <2>2, PlaceNext
  <2>4. PICK e : e = section'[p][i]
    OBVIOUS
  <2>5. e.id = u
    <3>1. e = Item("command", u)
      BY <1>22, <2>1, <2>4
    <3> QED
      BY <3>1 DEF Item
  <2>6. Within(p, e)'
    BY <1>13, <2>2, <2>3, <2>5 DEF Within
  <2> QED
    BY <2>4, <2>6
<1>24. ASSUME NEW i \in DOMAIN section'[p], NEW j \in DOMAIN section'[p], i < j
       PROVE  InLine(section[p][i], section[p][j])'
  <2>1. PICK u, v : u = p + i /\ v = p + j
    OBVIOUS
  <2>2. u \in Int /\ v \in Int /\ u < v /\ Spot(u)' = q \o <<u>> /\ Spot(v)' = q \o <<v>>
    <3>1. i \in 1..n /\ j \in 1..n
      BY <1>22
    <3>2. u \in (p + 1)..(p + n) /\ v \in (p + 1)..(p + n)
      BY <1>2, <2>1, <3>1 DEF ThunkPlaces
    <3>3. Spot(u)' = q \o <<u>> /\ Spot(v)' = q \o <<v>>
      BY <1>2, <3>2 DEF ThunkPlaces
    <3>4. p \in Int
      BY <1>2 DEF ThunkPlaces
    <3>5. u \in Int /\ v \in Int /\ u < v
      BY <1>24, <2>1, <3>1, <3>4
    <3> QED
      BY <3>3, <3>5
  <2>3. Before(q \o <<u>>, q \o <<v>>)
    BY <1>13, <2>2, SiblingsInOrder
  <2>4. Follows(u, v)'
    BY <2>2, <2>3 DEF Follows
  <2>5. PICK d, e : d = section'[p][i] /\ e = section'[p][j]
    OBVIOUS
  <2>6. d.id = u /\ e.id = v
    <3>1. d = Item("command", u) /\ e = Item("command", v)
      BY <1>22, <2>1, <2>5
    <3> QED
      BY <3>1 DEF Item
  <2>7. InLine(d, e)'
    BY <2>4, <2>6 DEF InLine
  <2> QED
    BY <2>5, <2>7
<1>25. OrderInv'
  <2> SUFFICES ASSUME NEW t \in DOMAIN section'
               PROVE  /\ \A i \in DOMAIN section'[t] : Within(t, section[t][i])'
                      /\ \A i, j \in DOMAIN section'[t] : i < j => InLine(section[t][i], section[t][j])'
    BY DEF OrderInv
  <2>1. CASE t = s
    BY <1>20, <1>21, <2>1
  <2>2. CASE t = p
    BY <1>23, <1>24, <2>2
  <2>3. CASE t # s /\ t # p
    BY <1>3, <1>18, <2>3
  <2> QED
    BY <2>1, <2>2, <2>3
<1> QED
  BY <1>11, <1>12, <1>25

LEMMA AddThunkHeld ==
  ASSUME Inv, NEW s, NEW n, NEW p, NEW l, ThunkAdded(s, n, p, l)
  PROVE  HeldInv' /\ AvailableInv'
<1>1. /\ Typed' /\ Extended /\ p \notin DOMAIN section
      /\ DOMAIN commands = 1..l /\ DOMAIN commands' = 1..(l + n + 1)
  BY AddThunkTyped
<1>2. PICK b, q : ThunkPlaces(s, n, p, b, q)
  BY AddThunkPlaces
<1>3. /\ DOMAIN section' = DOMAIN section \cup {p} /\ s \in DOMAIN section /\ l \in Nat /\ n \in Nat
      /\ \A t \in DOMAIN section : t # s => available'[t] = available[t]
      /\ available'[s] = available[s] \cup {l + n + 1}
      /\ available'[p] = available[s] \cup {l + i : i \in 1..n}
      /\ held' = held \cup (p..(p + n))
  BY DEF ThunkAdded
<1>4. \A t \in DOMAIN section : available[t] \subseteq 1..l
  BY <1>1 DEF Inv, AvailableInv
<1>5. /\ 1..l \subseteq 1..(l + n + 1) /\ l + n + 1 \in 1..(l + n + 1) /\ l + n + 1 \notin 1..l
      /\ \A i \in 1..n : l + i \in 1..(l + n + 1) /\ l + i \notin 1..l /\ l + i # l + n + 1
  BY <1>3
<1>6. AvailableInv'
  <2>1. ASSUME NEW t \in DOMAIN section' PROVE available'[t] \subseteq DOMAIN commands'
    <3>1. CASE t = s
      BY <1>1, <1>3, <1>4, <1>5, <3>1
    <3>2. CASE t = p
      BY <1>1, <1>3, <1>4, <1>5, <3>2
    <3>3. CASE t # s /\ t # p
      BY <1>1, <1>3, <1>4, <1>5, <3>3
    <3> QED
      BY <3>1, <3>2, <3>3
  <2> QED
    BY <2>1 DEF AvailableInv
<1>7. /\ b \in Seq(Int) /\ q \in Seq(Int) /\ b = Base(s) /\ q = b \o <<p>> /\ p \in Int /\ p \in Id
      /\ Base(s)' = b /\ Base(p)' = q /\ Spot(p)' = q
  BY <1>2 DEF ThunkPlaces
<1>8. ASSUME NEW v \in held
      PROVE  /\ handle'[v] \in DOMAIN commands' /\ commands'[handle'[v]] = Meant(v)' /\ Kind(Meant(v))' # "split"
             /\ \A t \in DOMAIN section' :
                  handle'[v] \in available'[t] => Before(End(Spot(v))', End(Base(t))')
  <2>1. PICK h : h = handle[v]
    OBVIOUS
  <2>2. /\ v \in Created /\ handle'[v] = h /\ h \in 1..l
        /\ h \in DOMAIN commands' /\ commands'[h] = Meant(v)' /\ Kind(Meant(v))' # "split"
        /\ \A t \in DOMAIN section : h \in available[t] =>
             Before(End(Spot(v)), End(Base(t))) /\ Before(End(Spot(v))', End(Base(t))')
    BY <1>1, <2>1, ExtendedHeld
  <2>3. ASSUME NEW t \in DOMAIN section, h \in available'[t] PROVE h \in available[t]
    BY <1>3, <1>5, <2>2, <2>3
  <2>4. ASSUME h \in available'[p] PROVE Before(End(Spot(v))', End(Base(p))')
    <3>1. h \in available[s]
      BY <1>3, <1>5, <2>2, <2>4
    <3>2. Before(End(Spot(v)), End(b))
      BY <1>3, <1>7, <2>2, <3>1
    <3>3. PICK x \in Seq(Int) : x = Spot(v)
      BY <2>2, SpotTyped DEF Inv
    <3>4. \A k \in 1..Len(x) : x[k] < p
      <4>1. \A k \in 1..Len(x) : x[k] <= Len(command) /\ x[k] \in Created
        BY <2>2, <3>3, SpotsCreated
      <4>2. Len(command) \in Nat /\ Created \subseteq Nat
        BY CommandTyped DEF Inv
      <4>3. p > Len(command)
        BY <1>2 DEF ThunkPlaces
      <4> QED
        BY <1>7, <4>1, <4>2, <4>3
    <3>5. Before(End(x), q)
      BY <1>7, <3>2, <3>3, <3>4, EndsBeforeNext
    <3>6. PICK e, d : e = End(x) /\ d = End(q)
      OBVIOUS
    <3>7. e \in Seq(Int) /\ d \in Seq(Int)
      BY <1>7, <3>6, EndOf
    <3>8. Above(e, e) /\ Above(q, d)
      BY <1>7, <3>6, <3>7, AboveItself
    <3>9. Before(e, d)
      BY <1>7, <3>5, <3>6, <3>7, <3>8, BeforeBelow
    <3>10. Spot(v)' = x
      BY <1>1, <2>2, <3>3, ExtendedStays
    <3>11. End(Spot(v))' = e /\ End(Base(p))' = d
      BY <1>7, <3>6, <3>10 DEF End
    <3> QED
      BY <3>9, <3>11
  <2> QED
    BY <1>3, <2>2, <2>3, <2>4
<1>9. /\ handle'[p] \in DOMAIN commands' /\ commands'[handle'[p]] = Meant(p)' /\ Kind(Meant(p))' # "split"
      /\ \A t \in DOMAIN section' :
           handle'[p] \in available'[t] => Before(End(Spot(p))', End(Base(t))')
  <2>1. handle'[p] = l + n + 1 /\ commands'[l + n + 1] = p
    BY DEF ThunkAdded
  <2>2. p = Meant(p)' /\ Kind(Meant(p))' # "split"
    <3>1. p \in Created' \ Created
      <4>1. Created' \ Created = p..(p + n)
        BY AddThunkTyped
      <4>2. p \in p..(p + n)
        BY <1>2 DEF ThunkPlaces
      <4> QED
        BY <4>1, <4>2
    <3>2. p = Meant(p)' /\ Kind(Meant(p))' = Kind(p)'
      BY <1>1, <3>1, NewMeant
    <3>3. Kind(p)' # "split"
      BY <1>2 DEF ThunkPlaces
    <3> QED
      BY <3>2, <3>3
  <2>3. ASSUME NEW t \in DOMAIN section', l + n + 1 \in available'[t] PROVE t = s
    <3>1. t # p
      <4>1. l + n + 1 \notin available[s] /\ l + n + 1 \notin {l + i : i \in 1..n}
        BY <1>3, <1>4, <1>5
      <4> QED
        BY <1>3, <2>3, <4>1
    <3> QED
      BY <1>3, <1>4, <1>5, <2>3, <3>1
  <2>4. Before(End(Spot(p))', End(Base(s))')
    <3>1. Before(End(q), End(b))
      BY <1>7, AddedEndsBefore
    <3>2. End(Spot(p))' = End(q) /\ End(Base(s))' = End(b)
      BY <1>7 DEF End
    <3> QED
      BY <3>1, <3>2
  <2> QED
    BY <1>1, <1>5, <2>1, <2>2, <2>3, <2>4
<1>10. ASSUME NEW u \in (p + 1)..(p + n)
       PROVE  /\ handle'[u] \in DOMAIN commands' /\ commands'[handle'[u]] = Meant(u)' /\ Kind(Meant(u))' # "split"
              /\ \A t \in DOMAIN section' :
                   handle'[u] \in available'[t] => Before(End(Spot(u))', End(Base(t))')
  <2>1. PICK i \in 1..n : u = p + i
    BY <1>2 DEF ThunkPlaces
  <2>2. handle'[u] = l + i /\ commands'[l + i] = u
    BY <2>1 DEF ThunkAdded
  <2>3. u = Meant(u)' /\ Kind(Meant(u))' # "split" /\ u \in Id
    <3>1. u \in Created' \ Created
      <4>1. Created' \ Created = p..(p + n)
        BY AddThunkTyped
      <4>2. u \in p..(p + n)
        BY <1>2 DEF ThunkPlaces
      <4> QED
        BY <4>1, <4>2
    <3>2. u = Meant(u)' /\ Kind(Meant(u))' = Kind(u)'
      BY <1>1, <3>1, NewMeant
    <3>3. Kind(u)' # "split" /\ u \in Id
      BY <1>2 DEF ThunkPlaces
    <3> QED
      BY <3>2, <3>3
  <2>4. ASSUME NEW t \in DOMAIN section', l + i \in available'[t] PROVE t = p
    BY <1>3, <1>4, <1>5, <2>4
  <2>5. Before(End(Spot(u))', End(Base(p))')
    <3>1. PICK c : c = q \o <<u>>
      OBVIOUS
    <3>2. Before(End(c), End(q))
      BY <1>7, <2>3, <3>1, AddedEndsBefore
    <3>3. Spot(u)' = c
      BY <1>2, <3>1 DEF ThunkPlaces
    <3>4. End(Spot(u))' = End(c) /\ End(Base(p))' = End(q)
      BY <1>7, <3>3 DEF End
    <3> QED
      BY <3>2, <3>4
  <2> QED
    BY <1>1, <1>5, <2>2, <2>3, <2>4, <2>5
<1>11. ASSUME NEW v \in held'
       PROVE  /\ handle'[v] \in DOMAIN commands' /\ commands'[handle'[v]] = Meant(v)' /\ Kind(Meant(v))' # "split"
              /\ \A t \in DOMAIN section' :
                   handle'[v] \in available'[t] => Before(End(Spot(v))', End(Base(t))')
  <2>1. v \in held \/ v = p \/ v \in (p + 1)..(p + n)
    BY <1>2, <1>3 DEF ThunkPlaces
  <2> QED
    BY <1>8, <1>9, <1>10, <2>1
<1>12. HeldInv'
  BY <1>11 DEF HeldInv
<1> QED
  BY <1>6, <1>12

LEMMA AddThunkInv ==
  ASSUME Inv, Careful, NEW s \in {Root} \cup pending, NEW n \in 0..1, AddThunk(s, n)
  PROVE  Inv'
<1>1. PICK p, l : p = Len(command) + 1 /\ l = Len(commands)
  OBVIOUS
<1>2. ThunkAdded(s, n, p, l)
  BY <1>1, AddThunkFacts
<1>3. Typed' /\ Extended
  BY <1>2, AddThunkTyped
<1>4. ForksInv' /\ ListedInv' /\ OrderInv' /\ HeldInv' /\ AvailableInv'
  BY <1>2, AddThunkSections, AddThunkHeld
<1> QED
  BY <1>3, <1>4, ExtendedList, ExtendedResults, ExtendedReturns, ExtendedMeans, ExtendedArguments DEF Inv
-----------------------------------------------------------------------------
(* Steps after which the lists are as they were.                           *)
Alike ==
  /\ UNCHANGED <<commands, section, aliased, available, handle, held>> /\ Created' = Created
  /\ \A u \in Created :
       /\ command'[u].place = command[u].place /\ command'[u].arg = command[u].arg
       /\ command'[u].means = command[u].means /\ command'[u].nested = command[u].nested
       /\ command'[u].kind \in {"thunk", "void"} <=> command[u].kind \in {"thunk", "void"}
       /\ command'[u].kind \notin {"thunk", "void"} => command'[u].kind = command[u].kind

LEMMA AlikeStays ==
  ASSUME Inv, Alike
  PROVE  /\ \A u \in Created : Spot(u)' = Spot(u) /\ (Kind(u)' = "split" <=> Kind(u) = "split")
         /\ \A u : (IsThunk(u))' <=> IsThunk(u)
         /\ \A x \in ToSet(commands) : Spot(x)' = Spot(x)
         /\ \A s \in DOMAIN section : Base(s)' = Base(s)
<1>1. ASSUME NEW u \in Created
      PROVE  Spot(u)' = Spot(u) /\ (Kind(u)' = "split" <=> Kind(u) = "split")
  <2>1. u > 0
    BY SpotTyped DEF Inv
  <2> QED
    BY <2>1 DEF Spot, Kind, Alike
<1>2. ASSUME NEW u PROVE (IsThunk(u))' <=> IsThunk(u)
  BY DEF IsThunk, Kind, Alike
<1>3. ASSUME NEW x \in ToSet(commands) PROVE Spot(x)' = Spot(x)
  <2>1. (x > 0 => x \in Created) /\ (~(x > 0) => -x \in Created)
    BY SpotTyped DEF Inv
  <2> QED
    BY <2>1 DEF Spot, Alike
<1>4. ASSUME NEW s \in DOMAIN section PROVE Base(s)' = Base(s)
  <2>1. s # Root => s \in Created
    BY BaseTyped
  <2> QED
    BY <2>1 DEF Base, Alike
<1> QED
  BY <1>1, <1>2, <1>3, <1>4

LEMMA AlikeInv ==
  ASSUME Inv, Alike
  PROVE  PlacesInv' /\ ListInv' /\ ForksInv' /\ ListedInv' /\ OrderInv' /\ AvailableInv'
<1>1. /\ commands' = commands /\ section' = section /\ handle' = handle /\ held' = held
      /\ available' = available /\ Created' = Created
  BY DEF Alike
<1>2. PlacesInv'
  BY <1>1 DEF Inv, PlacesInv, Alike
<1>3. ListInv'
  <2>1. ASSUME NEW x \in ToSet(commands)
        PROVE  x \in Created \/ (-x \in Created /\ Kind(-x)' = "split")
    <3>1. CASE x \in Created
      BY <3>1
    <3>2. CASE x \notin Created
      <4>1. PICK y \in Created : y = -x /\ Kind(y) = "split"
        BY <3>2 DEF Inv, ListInv
      <4>2. Kind(y)' = "split"
        BY <4>1, AlikeStays
      <4>3. y = -x
        BY <4>1
      <4> QED
        BY <4>2, <4>3
    <3> QED
      BY <3>1, <3>2
  <2>2. \A u \in Created : ~(IsThunk(u))' => u \in ToSet(commands)
    BY AlikeStays DEF Inv, ListInv
  <2>3. \A i, j \in DOMAIN commands : commands[i] = commands[j] => i = j
    BY DEF Inv, ListInv
  <2> QED
    BY <1>1, <2>1, <2>2, <2>3 DEF ListInv
<1>4. ForksInv'
  <2>1. DOMAIN section = {Root} \cup {u \in ToSet(commands) : (IsThunk(u))'}
    BY AlikeStays DEF Inv, ForksInv
  <2>2. /\ \A f \in DOMAIN section \ {Root} : \E s \in DOMAIN section : Item("fork", f) \in ToSet(section[s])
        /\ \A s \in DOMAIN section : \A e \in ToSet(section[s]) :
             IF e.what = "fork" THEN e.id \in DOMAIN section /\ s < e.id ELSE e.id \in ToSet(commands)
    BY DEF Inv, ForksInv
  <2> QED
    BY <1>1, <2>1, <2>2 DEF ForksInv
<1>5. ListedInv'
  <2>1. \A x \in ToSet(commands) : ~(IsThunk(x))' =>
          \E s \in DOMAIN section : Item("command", x) \in ToSet(section[s])
    BY AlikeStays DEF Inv, ListedInv
  <2>2. Items(commands)' = Items(commands)
    BY <1>1 DEF Items
  <2> QED
    BY <1>1, <2>1, <2>2 DEF Inv, ListedInv
<1>6. ASSUME NEW s \in DOMAIN section, NEW e \in ToSet(section[s])
      PROVE  Spot(e.id)' = Spot(e.id) /\ ((Live(e))' <=> Live(e)) /\ ((Within(s, e))' <=> Within(s, e))
  <2>1. PICK x : x = e.id
    OBVIOUS
  <2>2. x \in ToSet(commands)
    BY <2>1, EntryTyped DEF Inv
  <2>3. Spot(x)' = Spot(x) /\ ((IsThunk(x))' <=> IsThunk(x)) /\ Base(s)' = Base(s)
    BY <2>2, AlikeStays
  <2> QED
    BY <2>1, <2>3 DEF Live, Within
<1>7. ASSUME NEW s \in DOMAIN section, NEW d \in ToSet(section[s]), NEW e \in ToSet(section[s]), InLine(d, e)
      PROVE  (InLine(d, e))'
  <2>1. PICK x, y : x = d.id /\ y = e.id
    OBVIOUS
  <2>2. Spot(x)' = Spot(x) /\ Spot(y)' = Spot(y)
    BY <1>6, <2>1
  <2>3. (Follows(x, y))' <=> Follows(x, y)
    BY <2>2 DEF Follows
  <2>4. ((Live(d))' <=> Live(d)) /\ ((Live(e))' <=> Live(e))
    BY <1>6
  <2> QED
    BY <1>7, <2>1, <2>3, <2>4 DEF InLine
<1>8. OrderInv'
  <2>1. ASSUME NEW s \in DOMAIN section, NEW i \in DOMAIN section[s]
        PROVE  Within(s, section[s][i])'
    <3>1. PICK e : e = section[s][i]
      OBVIOUS
    <3>2. e \in ToSet(section[s]) /\ Within(s, e)
      BY <3>1 DEF ToSet, Inv, OrderInv
    <3>3. (Within(s, e))'
      BY <1>6, <3>2
    <3>4. e = (section[s][i])'
      BY <1>1, <3>1
    <3> QED
      BY <3>3, <3>4
  <2>2. ASSUME NEW s \in DOMAIN section, NEW i \in DOMAIN section[s], NEW j \in DOMAIN section[s], i < j
        PROVE  InLine(section[s][i], section[s][j])'
    <3>1. PICK d, e : d = section[s][i] /\ e = section[s][j]
      OBVIOUS
    <3>2. d \in ToSet(section[s]) /\ e \in ToSet(section[s]) /\ InLine(d, e)
      BY <2>2, <3>1 DEF ToSet, Inv, OrderInv
    <3>3. (InLine(d, e))'
      BY <1>7, <3>2
    <3>4. d = (section[s][i])' /\ e = (section[s][j])'
      BY <1>1, <3>1
    <3> QED
      BY <3>3, <3>4
  <2> QED
    BY <1>1, <2>1, <2>2 DEF OrderInv
<1>9. AvailableInv'
  BY <1>1 DEF Inv, AvailableInv
<1> QED
  BY <1>2, <1>3, <1>4, <1>5, <1>8, <1>9

LEMMA AlikeMeant ==
  ASSUME Inv, Alike, Typed', ResultInv', NEW v \in Created,
         \A g \in Created : ((Gone(g))' <=> Gone(g)) /\ (Gone(g) => result'[g] = result[g])
  PROVE  \E w \in Created : /\ w = Meant(v) /\ w = Meant(v)'
                            /\ (Kind(Meant(v))' = "split" <=> Kind(w) = "split")
<1>1. PICK w \in Created : w = Meant(v)
  BY MeantCorrect DEF Inv, MeantOK
<1>2. w = Meant(v)'
  <2>1. Created \subseteq Created'
    BY DEF Alike
  <2> QED
    BY <1>1, <2>1, MeantStays DEF Inv
<1>3. Kind(Meant(v))' = Kind(w)'
  BY <1>2
<1>4. Kind(w)' = "split" <=> Kind(w) = "split"
  BY AlikeStays
<1> QED
  BY <1>1, <1>2, <1>3, <1>4

LEMMA AlikeHeld ==
  ASSUME Inv, Alike, Typed', ResultInv',
         \A v \in Created : ((Gone(v))' <=> Gone(v)) /\ (Gone(v) => result'[v] = result[v]),
         \A g \in Id : result'[g] # result[g] => result'[g] \in held
  PROVE  HeldInv' /\ ReturnInv'
<1>1. /\ commands' = commands /\ section' = section /\ handle' = handle /\ held' = held
      /\ available' = available /\ Created' = Created
  BY DEF Alike
<1>2. ASSUME NEW v \in Created, handle[v] \in DOMAIN commands, commands[handle[v]] = Meant(v),
             Kind(Meant(v)) # "split"
      PROVE  commands[handle[v]] = Meant(v)' /\ Kind(Meant(v))' # "split"
  BY <1>2, AlikeMeant
<1>3. HeldInv'
  <2>1. ASSUME NEW u \in held
        PROVE  /\ handle[u] \in DOMAIN commands /\ commands[handle[u]] = Meant(u)'
               /\ Kind(Meant(u))' # "split"
               /\ \A s \in DOMAIN section :
                    handle[u] \in available[s] => Before(End(Spot(u))', End(Base(s))')
    <3>1. /\ u \in Created /\ handle[u] \in DOMAIN commands /\ commands[handle[u]] = Meant(u)
          /\ Kind(Meant(u)) # "split"
      BY HeldMeans
    <3>2. \A s \in DOMAIN section : handle[u] \in available[s] => Before(End(Spot(u)), End(Base(s)))
      BY DEF Inv, HeldInv
    <3>3. commands[handle[u]] = Meant(u)' /\ Kind(Meant(u))' # "split"
      BY <1>2, <3>1
    <3>4. End(Spot(u))' = End(Spot(u)) /\ \A s \in DOMAIN section : End(Base(s))' = End(Base(s))
      BY <3>1, AlikeStays DEF End
    <3> QED
      BY <3>1, <3>2, <3>3, <3>4
  <2> QED
    BY <1>1, <2>1 DEF HeldInv
<1>4. ReturnInv'
  <2> SUFFICES ASSUME NEW g \in Id, result'[g] # None, g \in ToSet(commands)
               PROVE  /\ handle[result'[g]] \in DOMAIN commands
                      /\ commands[handle[result'[g]]] = Meant(result[g])'
                      /\ Kind(Meant(result[g]))' # "split"
    BY <1>1 DEF ReturnInv
  <2>1. PICK r \in Created : r = result'[g]
    BY <1>1 DEF Typed
  <2>2. /\ handle[r] \in DOMAIN commands /\ commands[handle[r]] = Meant(r)
        /\ Kind(Meant(r)) # "split"
    <3>1. CASE r \in held
      BY <3>1, HeldMeans
    <3>2. CASE r \notin held
      <4>1. r = result[g] /\ result[g] # None
        BY <2>1, <3>2
      <4> QED
        BY <4>1 DEF Inv, ReturnInv
    <3> QED
      BY <3>1, <3>2
  <2>3. commands[handle[r]] = Meant(r)' /\ Kind(Meant(r))' # "split"
    BY <1>2, <2>2
  <2>4. r = (result[g])'
    BY <2>1
  <2>5. Meant(result[g])' = Meant(r)' /\ Kind(Meant(result[g]))' = Kind(Meant(r))'
    BY <2>4
  <2> QED
    BY <2>1, <2>2, <2>3, <2>5
<1> QED
  BY <1>3, <1>4

LEMMA AlikeArguments ==
  ASSUME Inv, Alike, Typed', ResultInv',
         \A v \in Created : ((Gone(v))' <=> Gone(v)) /\ (Gone(v) => result'[v] = result[v])
  PROVE  ArgumentsFollow'
<1>1. /\ commands' = commands /\ Created' = Created
  BY DEF Alike
<1>2. \A v \in Created : Meant(v)' = Meant(v)
  BY <1>1, MeantStays DEF Inv
<1>3. ASSUME NEW u \in ToSet(commands) \cap Created
      PROVE  Follow(u)'
  <2>1. /\ command'[u].means = command[u].means /\ command'[u].arg = command[u].arg
        /\ command'[u].nested = command[u].nested
    BY DEF Alike
  <2>2. CASE command[u].means # None
    <3>1. PICK m : m = command[u].means
      OBVIOUS
    <3>2. m \in Created
      BY <2>2, <3>1 DEF Inv, MeansInv, MeansFits
    <3>3. PICK t : t = Meant(m)
      OBVIOUS
    <3>4. /\ t \in Created /\ command[u].arg.at \in DOMAIN commands /\ commands[command[u].arg.at] = t
          /\ command[u].arg.nested = (Kind(t) = "split" \/ command[u].nested)
      BY <2>2, <3>1, <3>3, MeansEarlier
    <3>5. m = (command[u].means)'
      BY <2>1, <3>1
    <3>6. Meant(m)' = t
      BY <1>2, <3>2, <3>3
    <3>7. t = (Meant(command[u].means))'
      <4>1. Meant(command[u].means)' = Meant(m)'
        BY <3>5
      <4> QED
        BY <3>6, <4>1
    <3>8. Kind(Meant(command[u].means))' = Kind(t)'
      BY <3>7
    <3>9. Kind(t)' = "split" <=> Kind(t) = "split"
      BY <3>4, AlikeStays
    <3>10. command'[u].arg.nested = (Kind(t)' = "split" \/ command'[u].nested)
      BY <2>1, <3>4, <3>9
    <3>11. command'[u].arg.at \in DOMAIN commands' /\ commands'[command'[u].arg.at] = t
      BY <1>1, <2>1, <3>4
    <3> QED
      BY <3>7, <3>8, <3>10, <3>11 DEF Follow
  <2>3. CASE command[u].means = None
    BY <2>1, <2>3 DEF Follow
  <2> QED
    BY <2>2, <2>3
<1> QED
  BY <1>1, <1>3 DEF ArgumentsFollow, Follow
-----------------------------------------------------------------------------
(* A thunk returns.                                                        *)
LEMMA Returning ==
  ASSUME Inv, NEW f \in pending, ThunkReturns(f)
  PROVE  /\ f \in Created /\ f \in Id /\ f > 0 /\ f \in ToSet(commands) /\ f \in DOMAIN section
         /\ result[f] = None /\ Kind(f) = "thunk" /\ ~aliased /\ phase # "plugins"
         /\ Base(f) = Spot(f) /\ pending' = pending \ {f}
         /\ UNCHANGED <<commands, section, aliased, available, handle, held, phase>>
<1>1. f \in DOMAIN section /\ f # Root
  BY DEF Inv, Typed
<1>2. f \in Created /\ f \in ToSet(commands)
  BY <1>1, SectionsBounded DEF Inv, ForksInv
<1>3. f \in Id /\ f > 0
  BY <1>2, CommandTyped DEF Inv
<1>4. Kind(f) = "thunk" /\ result[f] = None
  BY <1>3 DEF Inv, ResultInv
<1>5. ~aliased /\ phase # "plugins"
  BY <1>1 DEF Inv, PhaseInv
<1>6. Base(f) = Spot(f)
  BY <1>1, <1>3 DEF Base, Spot
<1>7. UNCHANGED <<commands, section, aliased, available, handle, held, phase>> /\ pending' = pending \ {f}
  BY DEF ThunkReturns, callerVars
<1> QED
  BY <1>1, <1>2, <1>3, <1>4, <1>5, <1>6, <1>7

Passes(f, r) == /\ r \in Usable(f) /\ result' = [result EXCEPT ![f] = r]
                /\ UNCHANGED <<command, rejected>>

Voids(f) == /\ f \notin Used /\ command' = [command EXCEPT ![f].kind = "void"]
            /\ UNCHANGED <<result, rejected>>

Throws == rejected' = TRUE /\ UNCHANGED <<command, result>>

LEMMA VoidedCommand ==
  ASSUME Inv, NEW f \in pending, ThunkReturns(f), Voids(f)
  PROVE  /\ Created' = Created /\ command' \in Seq(Use) /\ Len(command') = Len(command)
         /\ command'[f].kind = "void"
         /\ \A u \in Created : /\ command'[u].place = command[u].place
                               /\ command'[u].arg = command[u].arg
                               /\ command'[u].means = command[u].means
                               /\ command'[u].nested = command[u].nested
                               /\ u # f => command'[u] = command[u]
<1>1. PICK n \in Nat : n = Len(command)
  BY DEF Inv, Typed
<1>2. command \in [1..n -> Use] /\ DOMAIN command = 1..n
  BY <1>1 DEF Inv, Typed
<1>3. f \in 1..n
  BY <1>2, Returning DEF Created
<1>4. command' = [command EXCEPT ![f] = [command[f] EXCEPT !.kind = "void"]]
  BY DEF Voids
<1>5. command[f] \in Use
  BY <1>2, <1>3
<1>6. PICK c : c = [command[f] EXCEPT !.kind = "void"]
  OBVIOUS
<1>7. /\ c \in Use /\ c.kind = "void" /\ c.place = command[f].place /\ c.arg = command[f].arg
      /\ c.means = command[f].means /\ c.nested = command[f].nested
  BY <1>5, <1>6 DEF Use
<1>8. command' \in [1..n -> Use] /\ command'[f] = c /\ \A u \in 1..n : u # f => command'[u] = command[u]
  BY <1>2, <1>3, <1>4, <1>6, <1>7
<1>9. command' \in Seq(Use) /\ Len(command') = n
  BY <1>1, <1>8
<1>10. Created' = Created
  BY <1>2, <1>8 DEF Created
<1> QED
  BY <1>1, <1>2, <1>7, <1>8, <1>9, <1>10 DEF Created

LEMMA ReturnedTyped ==
  ASSUME Inv, NEW f \in pending, ThunkReturns(f)
  PROVE  Typed' /\ Alike
<1>1. CASE \E r \in Usable(f) : Passes(f, r)
  <2>1. PICK r \in Usable(f) : Passes(f, r)
    BY <1>1
  <2>2. r \in Created /\ f \in Id
    BY Returning DEF Usable, Inv, Typed
  <2>3. result' \in [Id -> {None} \cup Created]
    BY <2>1, <2>2 DEF Passes, Inv, Typed
  <2>4. command' = command /\ rejected' = rejected
    BY <2>1 DEF Passes
  <2>5. Typed'
    BY <2>3, <2>4, Returning DEF Inv, Typed, Created
  <2>6. Alike
    BY <2>4, Returning DEF Alike, Created
  <2> QED
    BY <2>5, <2>6
<1>2. CASE Voids(f)
  <2>1. result' = result /\ rejected' = rejected
    BY <1>2 DEF Voids
  <2>2. command' \in Seq(Use) /\ Len(command') = Len(command) /\ Created' = Created
    BY <1>2, VoidedCommand
  <2>3. Typed'
    BY <2>1, <2>2, Returning DEF Inv, Typed
  <2>4. /\ UNCHANGED <<commands, section, aliased, available, handle, held>>
        /\ Kind(f) = "thunk"
    BY Returning
  <2>5. Alike
    BY <1>2, <2>4, VoidedCommand DEF Alike, Kind
  <2> QED
    BY <2>3, <2>5
<1>3. CASE Throws
  <2>1. command' = command /\ result' = result /\ rejected' = TRUE
    BY <1>3 DEF Throws
  <2>2. Typed'
    BY <2>1, Returning DEF Inv, Typed, Created
  <2>3. Alike
    BY <2>1, Returning DEF Alike, Created
  <2> QED
    BY <2>2, <2>3
<1> QED
  BY <1>1, <1>2, <1>3 DEF ThunkReturns, Passes, Voids, Throws

(* What a thunk may return belongs before its end.                         *)
LEMMA ReturnedResult ==
  ASSUME Inv, NEW f \in pending, ThunkReturns(f), NEW r \in Usable(f)
  PROVE  r \in held /\ r \in Created /\ Kind(r) # "void" /\ Before(End(Spot(r)), End(Spot(f)))
<1>1. r \in held /\ handle[r] \in available[f] /\ Kind(r) # "void"
  BY DEF Usable
<1>2. f \in DOMAIN section /\ Base(f) = Spot(f)
  BY Returning
<1>3. Before(End(Spot(r)), End(Base(f)))
  BY <1>1, <1>2 DEF Inv, HeldInv
<1>4. Before(End(Spot(r)), End(Spot(f)))
  BY <1>2, <1>3
<1> QED
  BY <1>1, <1>4 DEF Inv, HeldInv, Typed

(* A result in a command that is what it was, except for a thunk that no   *)
(* result refers to.                                                       *)
ResultFits(g) ==
  /\ g \in Created /\ Kind(g) = "thunk" /\ g \notin pending
  /\ Kind(result[g]) # "void"
  /\ Before(End(Spot(result[g])), End(Spot(g)))

LEMMA ResultStays ==
  ASSUME Inv, Alike, NEW g \in Created, NEW r \in Created, r = result'[g],
         g \notin pending', Kind(g)' = "thunk", Kind(r)' # "void",
         Before(End(Spot(r)), End(Spot(g)))
  PROVE  ResultFits(g)'
<1>1. r = (result[g])'
  OBVIOUS
<1>2. Created' = Created /\ Spot(g)' = Spot(g) /\ Spot(r)' = Spot(r)
  BY AlikeStays DEF Alike
<1>3. Before(End(Spot(r)), End(Spot(g)))'
  <2>1. End(Spot(r))' = End(Spot(r)) /\ End(Spot(g))' = End(Spot(g))
    BY <1>2 DEF End
  <2> QED
    BY <2>1 DEF Before
<1>4. Before(End(Spot(result[g])), End(Spot(g)))'
  BY <1>1, <1>3
<1>5. Kind(result[g])' # "void"
  <2>1. Kind(result[g])' = Kind(r)'
    BY <1>1
  <2> QED
    BY <2>1
<1> QED
  BY <1>2, <1>4, <1>5 DEF ResultFits

LEMMA ReturnedResults ==
  ASSUME Inv, NEW f \in pending, ThunkReturns(f)
  PROVE  ResultInv'
<1>1. Alike /\ Typed'
  BY ReturnedTyped
<1>2. \A g \in Id : result[g] # None => ResultFits(g)
  BY DEF Inv, ResultInv, ResultFits
<1>3. pending' = pending \ {f} /\ section' = section /\ Created' = Created
  BY <1>1, Returning DEF Alike
<1>4. ASSUME NEW g \in Id, NEW r, r = result[g], result'[g] = r, r # None, Kind(g)' = Kind(g), Kind(r)' = Kind(r)
      PROVE  ResultFits(g)'
  <2>1. r \in Created
    BY <1>4 DEF Inv, Typed
  <2>2. /\ g \in Created /\ Kind(g) = "thunk" /\ g \notin pending
        /\ Kind(result[g]) # "void" /\ Before(End(Spot(result[g])), End(Spot(g)))
    BY <1>2, <1>4 DEF ResultFits
  <2>3. Kind(r) # "void" /\ Kind(r)' # "void" /\ Kind(g)' = "thunk" /\ g \notin pending'
    BY <1>3, <1>4, <2>2
  <2>4. Before(End(Spot(r)), End(Spot(g)))
    BY <1>4, <2>2
  <2> QED
    BY <1>1, <1>4, <2>1, <2>2, <2>3, <2>4, ResultStays
<1>5. /\ \A g \in Id : result'[g] # None => ResultFits(g)'
      /\ \A g \in DOMAIN section \ {Root} : g \in pending' \/ Kind(g)' = "void" \/ result'[g] # None \/ rejected'
      /\ \A g \in pending' : Kind(g)' = "thunk"
  <2>1. CASE \E r \in Usable(f) : Passes(f, r)
    <3>1. PICK r \in Usable(f) : Passes(f, r)
      BY <2>1
    <3>2. /\ f \in Created /\ f \in Id /\ Kind(f) = "thunk" /\ f \notin pending'
          /\ r \in Created /\ Kind(r) # "void" /\ Before(End(Spot(r)), End(Spot(f)))
      BY <1>3, Returning, ReturnedResult
    <3>3. \A x : Kind(x)' = Kind(x)
      BY <3>1 DEF Passes, Kind
    <3>4. /\ result'[f] = r /\ r # None /\ rejected' = rejected
          /\ \A g \in Id : g # f => result'[g] = result[g]
      BY <3>1, <3>2, CommandTyped DEF Passes, Inv, Typed, None
    <3>5. ASSUME NEW g \in Id, result'[g] # None PROVE ResultFits(g)'
      <4>1. CASE g = f
        <5>1. Kind(f)' = "thunk" /\ Kind(r)' # "void"
          BY <3>2, <3>3
        <5>2. ResultFits(f)'
          BY <1>1, <3>2, <3>4, <5>1, ResultStays
        <5> QED
          BY <4>1, <5>2
      <4>2. CASE g # f
        <5>1. PICK q : q = result[g]
          OBVIOUS
        <5> QED
          BY <1>4, <3>3, <3>4, <3>5, <4>2, <5>1
      <4> QED
        BY <4>1, <4>2
    <3>6. ASSUME NEW g \in DOMAIN section \ {Root}
          PROVE  g \in pending' \/ Kind(g)' = "void" \/ result'[g] # None \/ rejected'
      <4>1. g \in Id
        BY SectionsBounded, CommandTyped DEF Inv
      <4>2. g \in pending \/ Kind(g) = "void" \/ result[g] # None \/ rejected
        BY DEF Inv, ResultInv
      <4>3. Kind(g)' = Kind(g)
        BY <3>3
      <4> QED
        BY <1>3, <3>4, <4>1, <4>2, <4>3
    <3>7. ASSUME NEW g \in pending' PROVE Kind(g)' = "thunk"
      <4>1. Kind(g) = "thunk"
        BY <1>3 DEF Inv, ResultInv
      <4> QED
        BY <3>3, <4>1
    <3> QED
      BY <3>5, <3>6, <3>7
  <2>2. CASE Voids(f)
    <3>1. f \notin Used /\ result' = result /\ rejected' = rejected
      BY <2>2 DEF Voids
    <3>2. ASSUME NEW g \in Created, g # f PROVE Kind(g)' = Kind(g)
      BY <2>2, <3>2, VoidedCommand DEF Kind
    <3>3. Kind(f)' = "void"
      BY <2>2, VoidedCommand DEF Kind
    <3>4. ASSUME NEW g \in Id, result'[g] # None PROVE ResultFits(g)'
      <4>1. PICK r : r = result[g]
        OBVIOUS
      <4>2. r \in Used /\ r # f /\ r \in Created
        BY <3>1, <3>4, <4>1 DEF Used, Inv, Typed
      <4>3. g \in Created /\ g # f
        BY <3>1, <3>4, <1>2, Returning DEF ResultFits
      <4>4. Kind(g)' = Kind(g) /\ Kind(r)' = Kind(r)
        BY <3>2, <4>2, <4>3
      <4> QED
        BY <1>4, <3>1, <3>4, <4>1, <4>4
    <3>5. ASSUME NEW g \in DOMAIN section \ {Root}
          PROVE  g \in pending' \/ Kind(g)' = "void" \/ result'[g] # None \/ rejected'
      <4>1. g \in Created
        BY SectionsBounded DEF Inv
      <4>2. g \in pending \/ Kind(g) = "void" \/ result[g] # None \/ rejected
        BY DEF Inv, ResultInv
      <4>3. g # f => Kind(g)' = Kind(g)
        BY <3>2, <4>1
      <4> QED
        BY <1>3, <3>1, <3>3, <4>2, <4>3
    <3>6. ASSUME NEW g \in pending' PROVE Kind(g)' = "thunk"
      <4>1. Kind(g) = "thunk" /\ g # f /\ g \in Created
        BY <1>3, SectionsBounded DEF Inv, ResultInv, Typed
      <4> QED
        BY <3>2, <4>1
    <3> QED
      BY <3>4, <3>5, <3>6
  <2>3. CASE Throws
    <3>1. rejected' = TRUE /\ result' = result /\ command' = command
      BY <2>3 DEF Throws
    <3>2. \A x : Kind(x)' = Kind(x)
      BY <3>1 DEF Kind
    <3>3. ASSUME NEW g \in Id, result'[g] # None PROVE ResultFits(g)'
      <4>1. PICK r : r = result[g]
        OBVIOUS
      <4> QED
        BY <1>4, <3>1, <3>2, <3>3, <4>1
    <3>4. ASSUME NEW g \in pending' PROVE Kind(g)' = "thunk"
      <4>1. Kind(g) = "thunk"
        BY <1>3 DEF Inv, ResultInv
      <4> QED
        BY <3>2, <4>1
    <3> QED
      BY <3>1, <3>3, <3>4
  <2> QED
    BY <2>1, <2>2, <2>3 DEF ThunkReturns, Passes, Voids, Throws
<1> QED
  BY <1>3, <1>5 DEF ResultInv, ResultFits

LEMMA ReturnedMeans ==
  ASSUME Inv, NEW f \in pending, ThunkReturns(f)
  PROVE  MeansInv'
<1>1. Alike
  BY ReturnedTyped
<1>2. \A m \in Created : m # f \/ ~Voids(f) => Kind(m)' = Kind(m)
  <2>1. command' = command \/ Voids(f)
    BY DEF ThunkReturns, Voids
  <2> QED
    BY <2>1, VoidedCommand DEF Kind
<1>3. ASSUME NEW u \in Created PROVE MeansFits(u)'
  <2>1. /\ command'[u].means = command[u].means /\ command'[u].arg = command[u].arg
        /\ command'[u].nested = command[u].nested /\ MeansFits(u)
    BY <1>1 DEF Alike, Inv, MeansInv
  <2>2. CASE command[u].means = None
    BY <2>1, <2>2 DEF MeansFits
  <2>3. CASE command[u].means # None
    <3>1. PICK m : m = command[u].means
      OBVIOUS
    <3>2. /\ m \in Created /\ Kind(m) # "void" /\ (command[u].nested => Kind(m) = "call")
          /\ Before(End(Spot(m)), Spot(u)) /\ ~IsThunk(u)
      BY <2>1, <2>3, <3>1 DEF MeansFits
    <3>3. m \in Used
      BY <3>1 DEF Used
    <3>4. Kind(m)' = Kind(m)
      BY <1>2, <3>2, <3>3 DEF Voids
    <3>5. Spot(m)' = Spot(m) /\ Spot(u)' = Spot(u) /\ ~(IsThunk(u))' /\ Created' = Created
      BY <1>1, <3>2, AlikeStays DEF Alike
    <3>6. m = (command[u].means)'
      BY <2>1, <3>1
    <3>7. Before(End(Spot(m)), Spot(u))'
      <4>1. End(Spot(m))' = End(Spot(m))
        BY <3>5 DEF End
      <4> QED
        BY <3>2, <3>5, <4>1 DEF Before
    <3>8. Before(End(Spot(command[u].means)), Spot(u))'
      BY <3>6, <3>7
    <3>9. Kind(command[u].means)' = Kind(m)'
      BY <3>6
    <3> QED
      BY <2>1, <2>3, <3>1, <3>2, <3>4, <3>5, <3>8, <3>9 DEF MeansFits
  <2> QED
    BY <2>2, <2>3
<1> QED
  BY <1>1, <1>3 DEF MeansInv, Alike

LEMMA ThunkReturnsInv ==
  ASSUME Inv, NEW f \in pending, ThunkReturns(f)
  PROVE  Inv'
<1>1. Typed' /\ Alike /\ ResultInv' /\ MeansInv'
  BY ReturnedTyped, ReturnedResults, ReturnedMeans
<1>2. PhaseInv'
  <2>1. /\ UNCHANGED <<commands, section, aliased, available, handle, held, phase>>
        /\ ~aliased /\ phase # "plugins"
    BY Returning
  <2> QED
    BY <2>1 DEF PhaseInv
<1>3. ASSUME NEW v \in Created
      PROVE  ((Gone(v))' <=> Gone(v)) /\ (Gone(v) => result'[v] = result[v])
  <2>1. (IsThunk(v))' <=> IsThunk(v)
    BY <1>1, AlikeStays
  <2>2. f \in ToSet(commands) /\ commands' = commands /\ f \in Id /\ v \in Id
    BY Returning, CommandTyped DEF Inv
  <2>3. v # f => result'[v] = result[v]
    BY <2>2 DEF ThunkReturns, Inv, Typed
  <2>4. Resolves(v)' <=> result'[v] # None
    BY DEF Resolves
  <2> QED
    BY <2>1, <2>2, <2>3, <2>4 DEF Gone, Resolves
<1>4. ASSUME NEW g \in Id, result'[g] # result[g]
      PROVE  result'[g] \in held
  <2>1. PICK r \in Usable(f) : Passes(f, r)
    BY <1>4 DEF ThunkReturns, Passes
  <2>2. f \in Id /\ r \in held
    BY Returning, ReturnedResult
  <2>3. result'[g] = r
    BY <1>4, <2>1, <2>2 DEF Passes, Inv, Typed
  <2> QED
    BY <2>2, <2>3
<1>5. ArgumentsFollow' /\ HeldInv' /\ ReturnInv'
  BY <1>1, <1>3, <1>4, AlikeArguments, AlikeHeld
<1> QED
  BY <1>1, <1>2, <1>5, AlikeInv DEF Inv
-----------------------------------------------------------------------------
(* Steps of a build that only change where it is.                          *)
LEMMA PhaseStep ==
  ASSUME Inv, UNCHANGED <<commands, command, section, aliased, callerVars, thunkVars>>,
         phase' \in {"open", "waiting"} \/ phase' = phase
  PROVE  Inv'
<1>1. Alike
  BY DEF Alike, callerVars, Created
<1>2. Typed' /\ PhaseInv'
  BY DEF Inv, Typed, PhaseInv, callerVars, thunkVars, Created
<1>3. /\ command' = command /\ commands' = commands /\ section' = section /\ handle' = handle
      /\ pending' = pending /\ result' = result /\ rejected' = rejected
  BY DEF callerVars, thunkVars
<1>4. MeansInv'
  <2>1. \A u \in Created : MeansFits(u)' <=> MeansFits(u)
    BY <1>3 DEF MeansFits, Created, Kind, Before, End, Spot, IsThunk
  <2> QED
    BY <1>3, <2>1 DEF Inv, MeansInv, Created
<1>5. ResultInv'
  <2>1. ASSUME NEW f \in Id
        PROVE  /\ (Kind(f))' = Kind(f) /\ (Kind(result[f]))' = Kind(result[f])
               /\ (End(Spot(f)))' = End(Spot(f)) /\ (End(Spot(result[f])))' = End(Spot(result[f]))
    BY <1>3 DEF Kind, End, Spot
  <2>2. ASSUME NEW f \in Id
        PROVE  Before(End(Spot(result[f])), End(Spot(f)))' <=> Before(End(Spot(result[f])), End(Spot(f)))
    BY <2>1 DEF Before
  <2>3. \A f : (Kind(f))' = Kind(f)
    BY <1>3 DEF Kind
  <2> QED
    BY <1>3, <2>1, <2>2, <2>3 DEF Inv, ResultInv, Created
<1>6. \A v \in Created : ((Gone(v))' <=> Gone(v)) /\ (Gone(v) => result'[v] = result[v])
  BY <1>3 DEF Gone, Resolves, IsThunk, Kind, Created
<1>7. \A g \in Id : result'[g] # result[g] => result'[g] \in held
  BY <1>3
<1>8. ArgumentsFollow' /\ HeldInv' /\ ReturnInv'
  BY <1>1, <1>2, <1>5, <1>6, <1>7, AlikeArguments, AlikeHeld
<1> QED
  BY <1>1, <1>2, <1>4, <1>5, <1>8, AlikeInv DEF Inv

LEMMA NextInv == Inv /\ Careful /\ [Next]_vars => Inv'
<1> SUFFICES ASSUME Inv, Careful, [Next]_vars PROVE Inv'
  OBVIOUS
<1>1. ASSUME NEW s \in {Root} \cup pending, NEW kind \in {"call", "intent"}, NEW use \in Uses(s),
             Add(s, kind, use)
      PROVE  Inv'
  BY <1>1, AddInv
<1>2. ASSUME NEW s \in {Root} \cup pending, NEW n \in 0..1, AddThunk(s, n)
      PROVE  Inv'
  BY <1>2, AddThunkInv
<1>3. ASSUME NEW f \in pending, ThunkReturns(f)
      PROVE  Inv'
  BY <1>3, ThunkReturnsInv
<1>4. CASE Build
  BY <1>4, PhaseStep DEF Build
<1>5. CASE WaitFails
  BY <1>5, PhaseStep DEF WaitFails
<1>6. CASE Sort
  BY <1>6, SortInv
<1>7. CASE ResolveIntents
  BY <1>7, ResolveIntentsInv
<1>8. CASE ResolverFails
  BY <1>8, PhaseStep DEF ResolverFails
<1>9. CASE UNCHANGED vars
  BY <1>9, PhaseStep DEF vars
<1> QED
  BY <1>1, <1>2, <1>3, <1>4, <1>5, <1>6, <1>7, <1>8, <1>9 DEF Next

-----------------------------------------------------------------------------
(* What follows from the invariant for a list without thunks.              *)
LEMMA PlaceOfIs ==
  ASSUME Inv, NEW x \in ToSet(commands)
  PROVE  /\ Spot(x) \in Seq(Int)
         /\ PlaceOf(x) \in Seq(Int) /\ Len(PlaceOf(x)) = Len(Spot(x)) + 1
         /\ Above(Spot(x), PlaceOf(x))
         /\ PlaceOf(x)[Len(Spot(x)) + 1] = IF x > 0 THEN 1 ELSE 0
<1>1. PICK p, b : p = Spot(x) /\ b = IF x > 0 THEN 1 ELSE 0
  OBVIOUS
<1>2. p \in Seq(Int) /\ b \in Int
  BY <1>1, SpotTyped DEF Inv
<1>3. PlaceOf(x) = p \o <<b>>
  BY <1>1 DEF PlaceOf, Spot
<1>4. PICK q : q = p \o <<b>>
  OBVIOUS
<1>5. <<b>> \in Seq(Int) /\ Len(<<b>>) = 1 /\ <<b>>[1] = b
  BY <1>2
<1>6. /\ q \in Seq(Int) /\ Len(q) = Len(p) + 1
      /\ \A k \in 1..Len(q) : q[k] = IF k <= Len(p) THEN p[k] ELSE <<b>>[k - Len(p)]
  BY <1>2, <1>4, <1>5, ConcatProperties
<1>7. Len(p) \in Nat
  BY <1>2
<1>8. q[Len(p) + 1] = b
  <2>1. Len(p) + 1 \in 1..Len(q) /\ ~(Len(p) + 1 <= Len(p)) /\ Len(p) + 1 - Len(p) = 1
    BY <1>6, <1>7
  <2> QED
    BY <1>5, <1>6, <2>1
<1>9. Above(p, q)
  <2>1. Len(p) <= Len(q) /\ \A k \in 1..Len(p) : k \in 1..Len(q) /\ k <= Len(p)
    BY <1>6, <1>7
  <2> QED
    BY <1>6, <2>1 DEF Above
<1> QED
  BY <1>1, <1>2, <1>3, <1>4, <1>6, <1>8, <1>9

LEMMA FollowsInPlace ==
  ASSUME Inv, NEW x \in ToSet(commands), NEW y \in ToSet(commands), Follows(x, y)
  PROVE  Before(PlaceOf(x), PlaceOf(y))
<1>1. PICK p, q, r, t : p = Spot(x) /\ q = Spot(y) /\ r = PlaceOf(x) /\ t = PlaceOf(y)
  OBVIOUS
<1>2. /\ p \in Seq(Int) /\ q \in Seq(Int) /\ r \in Seq(Int) /\ t \in Seq(Int)
      /\ Above(p, r) /\ Above(q, t)
  BY <1>1, PlaceOfIs
<1>3. CASE Before(p, q)
  BY <1>1, <1>2, <1>3, BeforeBelow
<1>4. CASE y > 0 /\ x = -y
  <2>1. x \in Int /\ y \in Int
    BY SpotTyped DEF Inv
  <2>2. ~(x > 0) /\ y > 0
    BY <1>4, <2>1
  <2>3. p = q
    BY <1>1, <1>4, <2>1, <2>2 DEF Spot
  <2>4. PICK n \in Nat : n = Len(p)
    BY <1>2
  <2>5. Len(r) = n + 1 /\ Len(t) = n + 1 /\ r[n + 1] = 0 /\ t[n + 1] = 1
    BY <1>1, <2>2, <2>3, <2>4, PlaceOfIs
  <2>6. n + 1 \in DOMAIN r /\ n + 1 \in DOMAIN t
    <3>1. DOMAIN r = 1..(n + 1) /\ DOMAIN t = 1..(n + 1)
      BY <1>2, <2>5
    <3> QED
      BY <2>4, <3>1
  <2>7. \A k \in 1..n : r[k] = t[k]
    BY <1>2, <2>3, <2>4 DEF Above
  <2>8. (n + 1) - 1 = n /\ 0 < 1
    BY <2>4
  <2>9. Before(r, t)
    BY <2>5, <2>6, <2>7, <2>8 DEF Before
  <2> QED
    BY <1>1, <2>9
<1> QED
  BY <1>1, <1>3, <1>4 DEF Follows

(* No argument refers to its own command or to a later one, as a list that *)
(* is executed from its beginning to its end needs.                        *)
ArgumentsPrecede ==
  (\A x \in ToSet(commands) : ~IsThunk(x)) =>
    \A i \in DOMAIN commands : \A u \in Created :
      u = commands[i] /\ command[u].means # None => command[u].arg.at < i

LEMMA InvPrecedes == Inv => ArgumentsPrecede
<1> SUFFICES ASSUME Inv, \A x \in ToSet(commands) : ~IsThunk(x),
                    NEW i \in DOMAIN commands, NEW u \in Created, u = commands[i], command[u].means # None
             PROVE  command[u].arg.at < i
  BY DEF ArgumentsPrecede
<1>1. PICK t : t = Meant(command[u].means)
  OBVIOUS
<1>2. PICK a : a = command[u].arg.at
  OBVIOUS
<1>3. t \in Created /\ Before(Spot(t), Spot(u)) /\ a \in DOMAIN commands /\ commands[a] = t
  BY <1>1, <1>2, MeansEarlier
<1>4. Spot(t) \in Seq(Int) /\ Spot(u) \in Seq(Int) /\ t > 0 /\ u > 0 /\ t \in Int /\ u \in Int
  BY <1>3, SpotTyped, CommandTyped DEF Inv
<1>5. ~Before(Spot(u), Spot(t)) /\ t # u
  BY <1>3, <1>4, BeforeIrreflexive, BeforeTransitive
<1>6. ~Follows(u, t)
  <2>1. u # -t
    BY <1>4
  <2> QED
    BY <1>5, <2>1 DEF Follows
<1>7. ~(i < a) /\ i # a
  BY <1>3, <1>5, <1>6, InListOrder
<1>8. i \in Int /\ a \in Int
  BY <1>3 DEF Inv, Typed
<1> QED
  BY <1>2, <1>7, <1>8

LEMMA InvInPlace == Inv => CommandsInPlace
<1> SUFFICES ASSUME Inv, \A x \in ToSet(commands) : ~IsThunk(x)
             PROVE  /\ {u \in Created : ~IsThunk(u)} \subseteq ToSet(commands)
                    /\ \A i, j \in DOMAIN commands : i < j => Before(PlaceOf(commands[i]), PlaceOf(commands[j]))
  BY DEF CommandsInPlace
<1>1. {u \in Created : ~IsThunk(u)} \subseteq ToSet(commands)
  BY DEF Inv, ListInv
<1>2. ASSUME NEW i \in DOMAIN commands, NEW j \in DOMAIN commands, i < j
      PROVE  Before(PlaceOf(commands[i]), PlaceOf(commands[j]))
  <2>1. commands[i] \in ToSet(commands) /\ commands[j] \in ToSet(commands)
    BY DEF ToSet
  <2>2. Follows(commands[i], commands[j])
    BY <1>2, InListOrder
  <2> QED
    BY <2>1, <2>2, FollowsInPlace
<1> QED
  BY <1>1, <1>2
-----------------------------------------------------------------------------
LEMMA Invariant == ASSUME Careful PROVE Spec => []Inv
<1>1. Init => Inv
  BY InitInv
<1>2. Inv /\ [Next]_vars => Inv'
  BY NextInv
<1> QED
  BY <1>1, <1>2, PTL DEF Spec

(* Transaction.add, the sorting of thunks in #sortCommandsAndInputs and    *)
(* the resolver of coinWithBalance: however long the thunks take, whatever *)
(* they return, and however many commands an intent becomes, every         *)
(* argument refers to the command whose result was passed to it, for a     *)
(* Careful caller.                                                         *)
THEOREM ArgumentsAlwaysFollow == ASSUME Careful PROVE Spec => []ArgumentsFollow
<1>1. Inv => ArgumentsFollow
  BY DEF Inv
<1> QED
  BY <1>1, Invariant, PTL

(* #sortCommandsAndInputs and replaceCommand: without thunks the list has  *)
(* every command once, where its function was added (a Careful caller).    *)
THEOREM CommandsAlwaysInPlace == ASSUME Careful PROVE Spec => []CommandsInPlace
<1> QED
  BY InvInPlace, Invariant, PTL

(* The same: without thunks every argument refers to an earlier command.   *)
THEOREM ArgumentsAlwaysPrecede == ASSUME Careful PROVE Spec => []ArgumentsPrecede
<1> QED
  BY InvPrecedes, Invariant, PTL

(* The data of a Transaction and its forks keep their types: there is a    *)
(* handle for each command, and no result but of a command that was added. *)
THEOREM TypesCorrect == ASSUME Careful PROVE Spec => []Typed
<1>1. Inv => Typed
  BY DEF Inv
<1> QED
  BY <1>1, Invariant, PTL

=============================================================================
