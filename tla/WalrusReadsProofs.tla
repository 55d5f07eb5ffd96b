-------------------------- MODULE WalrusReadsProofs --------------------------
(***************************************************************************)
(* WalrusReads for any committees, any number of shards and epochs and any *)
(* faulty nodes of no more than f shards: faulty nodes can neither make up *)
(* a denial nor steer the choice of the committee, one committee serves an *)
(* attempt, and what the client keeps is well formed.                      *)
(***************************************************************************)
EXTENDS WalrusReads, FiniteSetTheorems, TLAPS

(* The shards that the targets of S stand for.                             *)
Spread(S) == (S \cap Shard) \cup ShardsOf(committee, S \ Shard)

Honest(S) == {x \in S : NodeOf(x) \notin Faulty}

LEMMA SpreadIsFinite ==
  ASSUME NEW S
  PROVE  IsFiniteSet(Spread(S)) /\ Weight(S) = Cardinality(Spread(S)) /\ Weight(S) \in Nat
<1>1. Spread(S) \subseteq Shard
  BY DEF Spread, ShardsOf
<1>2. IsFiniteSet(Spread(S))
  BY <1>1, Committees, FS_Subset
<1> QED
  BY <1>2, FS_CardinalityType DEF Weight, Spread

LEMMA MaxFaultyType == MaxFaulty(n) \in Int
<1>1. n \in Nat
  BY Committees, FS_CardinalityType DEF n
<1> QED
  BY <1>1 DEF MaxFaulty

(* Without the faulty nodes no more than f shards are missing.             *)
LEMMA HonestWeight ==
  ASSUME committee \in Epoch, NEW S
  PROVE  Weight(S) <= Weight(Honest(S)) + MaxFaulty(n)
<1> DEFINE F == ShardsOf(committee, Faulty)
<1>1. IsFiniteSet(F) /\ Cardinality(F) \in Nat /\ Cardinality(F) <= MaxFaulty(n)
  <2>1. F \subseteq Shard
    BY DEF ShardsOf
  <2> QED
    BY <2>1, Committees, FS_Subset, FS_CardinalityType
<1>2. Spread(S) \subseteq Spread(Honest(S)) \cup F
  BY DEF Spread, Honest, ShardsOf, NodeOf
<1>3. /\ IsFiniteSet(Spread(Honest(S)) \cup F)
      /\ Cardinality(Spread(Honest(S)) \cup F) =
           Cardinality(Spread(Honest(S))) + Cardinality(F) - Cardinality(Spread(Honest(S)) \cap F)
  BY <1>1, SpreadIsFinite, FS_Union
<1>4. Cardinality(Spread(S)) <= Cardinality(Spread(Honest(S)) \cup F)
  BY <1>2, <1>3, FS_Subset
<1>5. Cardinality(Spread(Honest(S)) \cap F) \in Nat
  BY <1>1, FS_Intersection, FS_CardinalityType
<1> QED
  BY <1>1, <1>3, <1>4, <1>5, SpreadIsFinite, MaxFaultyType
-----------------------------------------------------------------------------
(* The range of what the client keeps, without the order and the answers.  *)
States == [epoch : 1..MaxEpoch, sync : BOOLEAN]

StateInv ==
  /\ chain \in States /\ certified \in Epoch
  /\ staking \in States \cup {Unknown} /\ snapshot \in States \cup {Unknown}
  /\ committee \in Epoch
  /\ \/ readCommittee = Unset \/ \E e \in Epoch : readCommittee = Resolved(e)
     \/ \E err \in Error : readCommittee = Rejected(err)
  /\ phase \in Phase

(* The committee that is asked for metadata and slivers is the chosen one. *)
AsksChosen ==
  phase \in {"metadata", "slivers"} =>
    readCommittee.kind = "committee" /\ readCommittee.epoch = committee

(* A read has no result before it ends.                                    *)
NoEarlyResult == phase # "idle" => result.at = "none"

Inv == StateInv /\ AsksChosen /\ NoEarlyResult /\ DenialHasWitness

LEMMA StakingType == StateInv => Staking \in States /\ Staking.epoch \in Epoch
<1> SUFFICES ASSUME StateInv PROVE Staking \in States /\ Staking.epoch \in Epoch
  OBVIOUS
<1>1. Staking \in States
  BY DEF Staking, StateInv
<1>2. 1..MaxEpoch \subseteq Epoch
  BY Committees DEF Epoch
<1> QED
  BY <1>1, <1>2 DEF States

LEMMA CommitteeKinds ==
  ASSUME StateInv
  PROVE  /\ readCommittee.kind = "committee" => readCommittee.epoch \in Epoch
         /\ readCommittee.kind = "rejected" => readCommittee.error \in Error
<1>1. CASE readCommittee = Unset
  BY <1>1 DEF Unset
<1>2. CASE \E e \in Epoch : readCommittee = Resolved(e)
  <2>1. PICK e \in Epoch : readCommittee = Resolved(e)
    BY <1>2
  <2>2. readCommittee.kind = "committee" /\ readCommittee.epoch = e
    BY <2>1 DEF Resolved
  <2> QED
    BY <2>2
<1>3. CASE \E err \in Error : readCommittee = Rejected(err)
  BY <1>3 DEF Rejected
<1> QED
  BY <1>1, <1>2, <1>3 DEF StateInv

LEMMA InitInv == Init => Inv
<1> SUFFICES ASSUME Init PROVE Inv
  OBVIOUS
<1>1. 1 \in 1..MaxEpoch /\ certified \in Epoch /\ 0 \in Epoch
  <2>1. MaxEpoch \in Nat \ {0} /\ CertifiedIn \subseteq Epoch
    BY Committees
  <2>2. 1 \in 1..MaxEpoch /\ 0 \in Epoch
    BY <2>1 DEF Epoch
  <2> QED
    BY <2>1, <2>2 DEF Init
<1>2. chain \in States
  BY <1>1 DEF Init, States
<1> QED
  BY <1>1, <1>2 DEF Init, Inv, StateInv, AsksChosen, NoEarlyResult, DenialHasWitness, Phase

(* An attempt that fails leaves a state in which nobody is asked.          *)
LEMMA FailInv ==
  ASSUME Inv, NEW err \in Error, Fail(err), phase # "idle",
         UNCHANGED <<chain, certified>>,
         readCommittee' = readCommittee \/ readCommittee' = Rejected(err)
  PROVE  /\ StateInv' /\ AsksChosen' /\ NoEarlyResult'
         /\ committee' = committee /\ order' = order
         /\ result' = result \/ result' = [at |-> phase, error |-> err]
         /\ phase' \in {"begin", "idle"}
<1>1. /\ committee' = committee /\ order' = order /\ snapshot' = Unknown
      /\ staking' = staking \/ staking' = Unknown
      /\ \/ phase' = "begin" /\ result' = result
         \/ phase' = "idle" /\ result' = [at |-> phase, error |-> err]
  BY DEF Fail
<1>2. StateInv'
  BY <1>1 DEF Inv, StateInv, States, Phase
<1> QED
  BY <1>1, <1>2 DEF Inv, AsksChosen, NoEarlyResult

(* Denials of a quorum come from honest nodes of more than f shards.       *)
LEMMA QuorumHasWitness ==
  ASSUME committee \in Epoch, NEW S, IsQuorum(Weight(S), n)
  PROVE  IsAboveValidity(Weight(Honest(S)), n)
BY HonestWeight, MaxFaultyType, SpreadIsFinite DEF IsQuorum, IsAboveValidity

LEMMA DenialWitnessed ==
  ASSUME Inv, NEW a, IsQuorum(Denied(a), n), answers' = a, UNCHANGED <<order, committee>>
  PROVE  DenialHasWitness'
<1> DEFINE S == With(a, {"notFound", "blocked"})
<1>1. IsAboveValidity(Weight(Honest(S)), n)
  BY QuorumHasWitness DEF Denied, Inv, StateInv
<1>2. Honest(S) = {x \in S : NodeOf(x) \notin Faulty}
  BY DEF Honest
<1>3. {x \in With(answers, {"notFound", "blocked"}) : NodeOf(x) \notin Faulty}' = Honest(S)
  BY <1>2 DEF With, Targets, NodeOf
<1>4. Weight({x \in With(answers, {"notFound", "blocked"}) : NodeOf(x) \notin Faulty})'
        = Weight(Honest(S))
  BY <1>3 DEF Weight, ShardsOf
<1> QED
  BY <1>1, <1>4 DEF DenialHasWitness

LEMMA DeniedErrorType == \A a : DeniedError(a) \in {"BlobNotCertified", "BlobBlocked"}
BY DEF DeniedError

(* While a read is under way there is no denial to account for.            *)
LEMMA StillReading ==
  ASSUME Inv, phase # "idle", result' = result
  PROVE  result.at = "none" /\ NoEarlyResult' /\ DenialHasWitness'
BY DEF Inv, NoEarlyResult, DenialHasWitness

(* An attempt that fails for another reason than a denial.                 *)
LEMMA OtherFailInv ==
  ASSUME Inv, NEW err \in Error, Fail(err), phase # "idle",
         UNCHANGED <<chain, certified>>,
         readCommittee' = readCommittee \/ readCommittee' = Rejected(err),
         phase \notin {"metadata", "slivers"} \/ err \notin {"BlobNotCertified", "BlobBlocked"}
  PROVE  Inv' /\ phase' \in {"begin", "idle"}
<1>1. /\ StateInv' /\ AsksChosen' /\ NoEarlyResult'
      /\ result' = result \/ result' = [at |-> phase, error |-> err]
      /\ phase' \in {"begin", "idle"}
  BY FailInv
<1>2. DenialHasWitness'
  BY <1>1, StillReading DEF DenialHasWitness
<1> QED
  BY <1>1, <1>2 DEF Inv

LEMMA ChooseInv ==
  ASSUME Inv, NEW c \in Epoch, Choose(c), phase # "idle", UNCHANGED <<chain, certified>>
  PROVE  Inv' /\ phase' = "metadata" /\ readCommittee' = Resolved(committee')
<1> DEFINE e == IF snapshot.sync /\ c < snapshot.epoch THEN snapshot.epoch - 1 ELSE Staking.epoch
<1>1. e \in Epoch
  <2>1. Staking.epoch \in Epoch
    BY StakingType DEF Inv
  <2>2. CASE snapshot \in States
    <3>1. snapshot.epoch \in 1..MaxEpoch
      BY <2>2 DEF States
    <3>2. snapshot.epoch - 1 \in Epoch
      BY <3>1, Committees DEF Epoch
    <3> QED
      BY <2>1, <3>2
  <2>3. CASE snapshot = Unknown
    BY <2>1, <2>3 DEF Unknown
  <2> QED
    BY <2>2, <2>3 DEF Inv, StateInv
<1>2. /\ readCommittee' = Resolved(e) /\ staking' = Staking /\ snapshot' = Unknown
      /\ phase' = "metadata" /\ committee' = e /\ result' = result
  BY DEF Choose, Ask
<1>3. StateInv'
  BY <1>1, <1>2, StakingType DEF Inv, StateInv, Phase
<1>4. AsksChosen'
  BY <1>2 DEF AsksChosen, Resolved
<1> QED
  BY <1>2, <1>3, <1>4, StillReading DEF Inv
-----------------------------------------------------------------------------
LEMMA StartReadInv == ASSUME Inv, StartRead PROVE Inv'
<1>1. /\ phase' = "begin" /\ result' = [at |-> "none", error |-> ""]
      /\ UNCHANGED <<chain, certified, staking, readCommittee, snapshot, committee>>
  BY DEF StartRead, chainVars, asked
<1> QED
  BY <1>1 DEF Inv, StateInv, AsksChosen, NoEarlyResult, DenialHasWitness, Phase

LEMMA GetReadCommitteeInv == ASSUME Inv, GetReadCommittee PROVE Inv'
<1>1. phase = "begin" /\ UNCHANGED <<chain, certified>>
  BY DEF GetReadCommittee, chainVars
<1>2. ASSUME readCommittee.kind = "unset", phase' = "choose",
             UNCHANGED <<attempt, staking, readCommittee, snapshot, asked, result>>
      PROVE  Inv'
  <2>1. StateInv' /\ AsksChosen'
    BY <1>1, <1>2 DEF Inv, StateInv, AsksChosen, Phase, asked
  <2> QED
    BY <1>1, <1>2, <2>1, StillReading DEF Inv
<1>3. ASSUME readCommittee.kind = "rejected", FailRead(readCommittee.error)
      PROVE  Inv'
  <2>1. readCommittee.error \in Error
    BY <1>3, CommitteeKinds DEF Inv
  <2> QED
    BY <1>1, <1>3, <2>1, OtherFailInv DEF FailRead
<1>4. ASSUME readCommittee.kind = "committee",
             Ask("metadata", readCommittee.epoch, NodeOrders[readCommittee.epoch]),
             UNCHANGED <<attempt, staking, readCommittee, snapshot, result>>
      PROVE  Inv'
  <2>1. readCommittee.epoch \in Epoch
    BY <1>4, CommitteeKinds DEF Inv
  <2>2. phase' = "metadata" /\ committee' = readCommittee.epoch
    BY <1>4 DEF Ask
  <2>3. StateInv' /\ AsksChosen'
    BY <1>1, <1>4, <2>1, <2>2 DEF Inv, StateInv, AsksChosen, Phase
  <2> QED
    BY <1>1, <1>4, <2>3, StillReading DEF Inv
<1> QED
  BY <1>2, <1>3, <1>4 DEF GetReadCommittee

LEMMA ForceGetReadCommitteeInv == ASSUME Inv, ForceGetReadCommittee PROVE Inv'
<1>1. /\ phase = "choose" /\ snapshot' = Staking /\ staking' = Staking /\ phase' = "certify"
      /\ UNCHANGED <<chain, certified, readCommittee, committee, result>>
  BY DEF ForceGetReadCommittee, chainVars, asked
<1>2. StateInv' /\ AsksChosen'
  BY <1>1, StakingType DEF Inv, StateInv, AsksChosen, Phase
<1> QED
  BY <1>1, <1>2, StillReading DEF Inv

LEMMA ChainRequestFailsInv == ASSUME Inv, ChainRequestFails PROVE Inv'
<1>1. UNCHANGED <<chain, certified>> /\ phase \in {"begin", "choose", "certify"}
  BY DEF ChainRequestFails, chainVars
<1>2. FailRead("RequestFailed") \/ FailChoice("RequestFailed")
  BY DEF ChainRequestFails
<1> QED
  BY <1>1, <1>2, OtherFailInv DEF FailRead, FailChoice, Error

LEMMA GetCertificationEpochInv == ASSUME Inv, GetCertificationEpoch PROVE Inv'
<1>1. phase = "certify" /\ UNCHANGED <<chain, certified>>
  BY DEF GetCertificationEpoch, chainVars
<1>2. ASSUME Ask("status", Staking.epoch, {SetToSeq(Members(Staking.epoch))}),
             staking' = Staking, UNCHANGED <<attempt, readCommittee, snapshot, result>>
      PROVE  Inv'
  <2>1. phase' = "status" /\ committee' = Staking.epoch
    BY <1>2 DEF Ask
  <2>2. StateInv' /\ AsksChosen'
    BY <1>1, <1>2, <2>1, StakingType DEF Inv, StateInv, AsksChosen, Phase
  <2> QED
    BY <1>1, <1>2, <2>2, StillReading DEF Inv
<1>3. ASSUME Choose(Staking.epoch) PROVE Inv'
  BY <1>1, <1>3, ChooseInv, StakingType DEF Inv
<1> QED
  BY <1>2, <1>3 DEF GetCertificationEpoch

(* A request under way that changes nothing but the answers.               *)
LEMMA WaitInv ==
  ASSUME Inv, Wait, phase # "idle", UNCHANGED <<chain, certified>>
  PROVE  Inv' /\ UNCHANGED <<phase, readCommittee, order, committee>>
<1>1. UNCHANGED <<phase, staking, readCommittee, snapshot, committee, order, result>>
  BY DEF Wait
<1>2. StateInv' /\ AsksChosen'
  BY <1>1 DEF Inv, StateInv, AsksChosen
<1> QED
  BY <1>1, <1>2, StillReading DEF Inv

LEMMA StatusAnswerInv ==
  ASSUME Inv, phase = "status", NEW x, NEW reply, StatusAnswer(x, reply),
         UNCHANGED <<chain, certified>>
  PROVE  Inv'
<1>1. ASSUME NEW err \in Error, FailChoice(err) PROVE Inv'
  BY <1>1, OtherFailInv DEF FailChoice
<1>2. ASSUME NEW st \in Verified, StatusFound(st) PROVE Inv'
  <2>1. CASE st.tag = "certified" /\ st.epoch <= committee /\ Choose(st.epoch)
    <3>1. st \in Status
      BY DEF Verified
    <3>2. st.epoch \in Epoch
      <4>1. 0 \in Epoch
        BY Committees DEF Epoch
      <4> QED
        BY <3>1, <4>1 DEF Status, Reply, Certified
    <3> QED
      BY <2>1, <3>2, ChooseInv
  <2>2. CASE \/ FailChoice("BlobNotCertified") \/ FailChoice("BehindCurrentEpoch")
             \/ FailChoice("RequestFailed")
    BY <1>1, <2>2 DEF Error
  <2>3. \/ FailChoice("BlobNotCertified") \/ FailChoice("BehindCurrentEpoch")
        \/ FailChoice("RequestFailed")
        \/ st.tag = "certified" /\ st.epoch <= committee /\ Choose(st.epoch)
    BY <1>2 DEF StatusFound
  <2> QED
    BY <2>1, <2>2, <2>3
<1>3. ASSUME FailChoice("NoVerifiedBlobStatus") \/ FailChoice("BlobNotCertified")
             \/ FailChoice("NoBlobStatusReceived")
      PROVE  Inv'
  BY <1>1, <1>3 DEF Error
<1>4. ASSUME Wait PROVE Inv'
  BY <1>4, WaitInv
<1>5. \/ FailChoice("NoVerifiedBlobStatus") \/ FailChoice("BlobNotCertified")
         \/ FailChoice("NoBlobStatusReceived")
      \/ Wait
      \/ \E st \in Verified : StatusFound(st)
  BY DEF StatusAnswer
<1> QED
  BY <1>2, <1>3, <1>4, <1>5

(* A denial ends the read, if at all, with the answers it comes from.      *)
LEMMA DeniedFailInv ==
  ASSUME Inv, NEW a, answers' = a, IsQuorum(Denied(a), n), FailRead(DeniedError(a)),
         phase # "idle", UNCHANGED <<chain, certified>>
  PROVE  Inv'
<1>1. DeniedError(a) \in Error
  BY DeniedErrorType DEF Error
<1>2. StateInv' /\ AsksChosen' /\ NoEarlyResult' /\ UNCHANGED <<order, committee>>
  BY <1>1, FailInv DEF FailRead
<1> QED
  BY <1>2, DenialWitnessed DEF Inv

LEMMA OtherFailReadInv ==
  ASSUME Inv, phase # "idle", UNCHANGED <<chain, certified>>,
         NEW err \in Error \ {"BlobNotCertified", "BlobBlocked"}, FailRead(err)
  PROVE  Inv'
BY OtherFailInv DEF FailRead

LEMMA MetadataAnswerInv ==
  ASSUME Inv, phase = "metadata", NEW x, NEW reply, MetadataAnswer(x, reply),
         UNCHANGED <<chain, certified>>
  PROVE  Inv' /\ (phase' = "slivers" => committee' = committee)
<1> DEFINE now == [answers EXCEPT ![x] = reply]
<1>1. ASSUME Ask("slivers", readCommittee.epoch, ShardOrders[readCommittee.epoch]),
             UNCHANGED <<attempt, staking, readCommittee, snapshot, result>>
      PROVE  Inv' /\ committee' = committee
  <2>1. readCommittee.kind = "committee" /\ readCommittee.epoch = committee
    BY DEF Inv, AsksChosen
  <2>2. phase' = "slivers" /\ committee' = committee
    BY <1>1, <2>1 DEF Ask
  <2>3. StateInv' /\ AsksChosen'
    BY <1>1, <2>1, <2>2 DEF Inv, StateInv, AsksChosen, Phase
  <2> QED
    BY <1>1, <2>2, <2>3, StillReading DEF Inv
<1>2. ASSUME FailRead("RangeError") \/ FailRead("NoBlobMetadata")
      PROVE  Inv'
  BY <1>2, OtherFailReadInv DEF Error
<1>3. ASSUME answers' = now, IsQuorum(Denied(now), n), FailRead(DeniedError(now))
      PROVE  Inv'
  BY <1>3, DeniedFailInv
<1>4. ASSUME Wait PROVE Inv'
  BY <1>4, WaitInv
<1>5. \/ Ask("slivers", readCommittee.epoch, ShardOrders[readCommittee.epoch])
         /\ UNCHANGED <<attempt, staking, readCommittee, snapshot, result>>
      \/ FailRead("RangeError") \/ FailRead("NoBlobMetadata") \/ Wait
      \/ answers' = now /\ IsQuorum(Denied(now), n) /\ FailRead(DeniedError(now))
  BY DEF MetadataAnswer
<1>6. ASSUME phase' = "slivers" PROVE committee' = committee
  BY <1>1, <1>5, <1>6 DEF FailRead, Fail, Wait
<1> QED
  BY <1>1, <1>2, <1>3, <1>4, <1>5, <1>6

LEMMA SliverAnswerInv ==
  ASSUME Inv, phase = "slivers", NEW x, NEW reply, SliverAnswer(x, reply),
         UNCHANGED <<chain, certified>>
  PROVE  Inv'
<1> DEFINE now == [answers EXCEPT ![x] = reply]
<1>1. ASSUME Decoded PROVE Inv'
  <2>1. CASE FailRead("InconsistentBlob")
    BY <2>1, OtherFailReadInv DEF Error
  <2>2. CASE /\ phase' = "idle" /\ result' = [at |-> phase, error |-> ""]
             /\ UNCHANGED <<attempt, staking, readCommittee, snapshot, committee, order>>
    BY <2>2 DEF Inv, StateInv, AsksChosen, NoEarlyResult, DenialHasWitness, Phase
  <2> QED
    BY <1>1, <2>1, <2>2 DEF Decoded
<1>2. ASSUME answers' = now, IsQuorum(Denied(now), n), FailRead(DeniedError(now))
      PROVE  Inv'
  BY <1>2, DeniedFailInv
<1>3. ASSUME FailRead("NotEnoughSlivers") PROVE Inv'
  BY <1>3, OtherFailReadInv DEF Error
<1>4. ASSUME Wait PROVE Inv'
  BY <1>4, WaitInv
<1>5. \/ Decoded \/ FailRead("NotEnoughSlivers") \/ Wait
      \/ answers' = now /\ IsQuorum(Denied(now), n) /\ FailRead(DeniedError(now))
  BY DEF SliverAnswer
<1> QED
  BY <1>1, <1>2, <1>3, <1>4, <1>5

LEMMA AnswerInv ==
  ASSUME Inv, NEW x, Answer(x)
  PROVE  Inv' /\ (phase = "metadata" /\ phase' = "slivers" => committee' = committee)
<1>1. UNCHANGED <<chain, certified>>
  BY DEF Answer, chainVars
<1>2. phase \in {"status", "metadata", "slivers"}
  BY DEF Answer, InFlight
<1>3. \E reply : \/ phase = "status" /\ StatusAnswer(x, reply)
                 \/ phase = "metadata" /\ MetadataAnswer(x, reply)
                 \/ phase = "slivers" /\ SliverAnswer(x, reply)
  BY <1>2 DEF Answer
<1> QED
  BY <1>1, <1>3, StatusAnswerInv, MetadataAnswerInv, SliverAnswerInv

LEMMA UserAbortInv == ASSUME Inv, UserAbort PROVE Inv'
<1>1. UNCHANGED <<chain, certified>> /\ phase # "idle"
  BY DEF UserAbort, InFlight, chainVars
<1>2. ASSUME phase = "status", FailChoice("UserAbort") PROVE Inv'
  BY <1>1, <1>2, OtherFailInv DEF FailChoice, Error
<1>3. ASSUME FailRead("RangeError") \/ FailRead("UserAbort") PROVE Inv'
  BY <1>1, <1>3, OtherFailReadInv DEF Error
<1>4. \/ phase = "status" /\ FailChoice("UserAbort")
      \/ FailRead("RangeError") \/ FailRead("UserAbort") \/ Wait
  BY DEF UserAbort
<1> QED
  BY <1>1, <1>2, <1>3, <1>4, WaitInv

LEMMA ResetInv == ASSUME Inv, Reset PROVE Inv'
<1>1. staking' = Unknown
      /\ UNCHANGED <<chain, certified, readCommittee, phase, snapshot, asked, result>>
  BY DEF Reset, chainVars
<1> QED
  BY <1>1 DEF asked, Inv, StateInv, AsksChosen, NoEarlyResult, DenialHasWitness, With, Targets,
              NodeOf, Weight, ShardsOf

LEMMA EpochChangeInv == ASSUME Inv, EpochChange PROVE Inv'
<1>1. UNCHANGED <<certified, staking, readCommittee, phase, snapshot, asked, result>>
  BY DEF EpochChange
<1>2. chain' \in States
  <2>1. CASE chain' = [chain EXCEPT !.sync = FALSE]
    BY <2>1 DEF Inv, StateInv, States
  <2>2. CASE chain.epoch < MaxEpoch /\ chain' = [epoch |-> chain.epoch + 1, sync |-> TRUE]
    <3>1. chain.epoch \in 1..MaxEpoch /\ MaxEpoch \in Nat
      BY Committees DEF Inv, StateInv, States
    <3>2. chain.epoch + 1 \in 1..MaxEpoch
      BY <2>2, <3>1
    <3> QED
      BY <2>2, <3>2 DEF States
  <2> QED
    BY <2>1, <2>2 DEF EpochChange
<1> QED
  BY <1>1, <1>2 DEF asked, Inv, StateInv, AsksChosen, NoEarlyResult, DenialHasWitness, With,
                    Targets, NodeOf, Weight, ShardsOf

LEMMA NextInv == Inv /\ [Next]_vars => Inv'
<1> SUFFICES ASSUME Inv, [Next]_vars PROVE Inv'
  OBVIOUS
<1>1. CASE Step
  BY <1>1, GetReadCommitteeInv, ForceGetReadCommitteeInv, GetCertificationEpochInv,
     ChainRequestFailsInv, AnswerInv DEF Step
<1>2. CASE UNCHANGED vars
  BY <1>2 DEF vars, chainVars, asked, Inv, StateInv, AsksChosen, NoEarlyResult,
              DenialHasWitness, With, Targets, NodeOf, Weight, ShardsOf
<1> QED
  BY <1>1, <1>2, StartReadInv, UserAbortInv, ResetInv, EpochChangeInv DEF Next

LEMMA SpecInv == Spec => []Inv
BY InitInv, NextInv, PTL DEF Spec

(* A denial (client.ts:433, 540) is never made up by faulty nodes, in any  *)
(* order of answers: honest nodes of more than f shards have denied.       *)
THEOREM DenialsHaveWitness == Spec => []DenialHasWitness
<1>1. Inv => DenialHasWitness
  BY DEF Inv
<1> QED
  BY <1>1, SpecInv, PTL

(* Metadata and slivers of an attempt come from one committee              *)
(* (client.ts:308-318), whatever resets and epoch changes come between.    *)
THEOREM SameCommittee == Spec => OneCommittee
<1>1. Inv /\ [Next]_vars =>
        [phase = "metadata" /\ phase' = "slivers" => committee' = committee]_vars
  <2> SUFFICES ASSUME Inv, Next, phase = "metadata", phase' = "slivers"
               PROVE  committee' = committee
    OBVIOUS
  <2>1. CASE Step
    BY <2>1, AnswerInv DEF Step, GetReadCommittee, ForceGetReadCommittee, GetCertificationEpoch,
                           ChainRequestFails
  <2>2. CASE ~Step
    BY <2>2 DEF Next, StartRead, UserAbort, FailRead, Fail, Wait, Reset, EpochChange
  <2> QED
    BY <2>1, <2>2
<1> QED
  BY <1>1, SpecInv, PTL DEF Spec, OneCommittee
-----------------------------------------------------------------------------
(* While the committee is chosen, honest nodes report no other             *)
(* certification than the real one.  The chain never goes back: a staking  *)
(* state that is the first one read again has been so all the time.        *)
NotLater(s, t) == s.epoch < t.epoch \/ (s.epoch = t.epoch /\ (t.sync => s.sync))

StakingKept ==
  phase \in {"certify", "status"} =>
    /\ snapshot \in States /\ NotLater(snapshot, Staking)
    /\ phase = "status" /\ Staking = snapshot => snapshot.sync

StakingInTime == NotLater(Staking, chain)

HonestReports ==
  phase = "status" =>
    /\ DOMAIN answers = Targets
    /\ \A x \in Targets \ Faulty : answers[x].tag = "certified" => answers[x] = Certified(certified)

ChoiceInv == StakingInTime /\ StakingKept /\ HonestReports

LEMMA Later ==
  /\ \A s \in States : NotLater(s, s)
  /\ \A s, t, u \in States : NotLater(s, t) /\ NotLater(t, u) => NotLater(s, u)
  /\ \A s, t \in States : NotLater(s, t) /\ NotLater(t, s) => s = t
<1>1. \A s \in States : s.epoch \in Int /\ s.sync \in BOOLEAN /\ s = [epoch |-> s.epoch, sync |-> s.sync]
  BY DEF States
<1>2. ASSUME NEW s \in States, NEW t \in States, NotLater(s, t), NotLater(t, s) PROVE s = t
  <2>1. s.epoch = t.epoch /\ s.sync = t.sync
    BY <1>1, <1>2 DEF NotLater
  <2> QED
    BY <1>1, <2>1
<1>3. \A s \in States : NotLater(s, s)
  BY <1>1 DEF NotLater
<1>4. \A s, t, u \in States : NotLater(s, t) /\ NotLater(t, u) => NotLater(s, u)
  BY <1>1 DEF NotLater
<1> QED
  BY <1>2, <1>3, <1>4

(* The staking state is kept, read or forgotten; the chain stays.          *)
LEMMA StakingInTimeStays ==
  ASSUME Inv, ChoiceInv, UNCHANGED chain,
         staking' = staking \/ staking' = Staking \/ staking' = Unknown
  PROVE  StakingInTime' /\ (staking' # Unknown => Staking' = Staking)
<1>1. Staking \in States /\ chain \in States /\ NotLater(Staking, chain)
  BY StakingType DEF Inv, StateInv, ChoiceInv, StakingInTime
<1>2. Staking' = Staking \/ Staking' = chain
  BY DEF Staking
<1>3. StakingInTime'
  BY <1>1, <1>2, Later DEF StakingInTime
<1>4. staking' # Unknown => Staking' = Staking
  BY DEF Staking
<1> QED
  BY <1>3, <1>4

(* If the staking state that the client would go by is another one now, it *)
(* is a later one.                                                         *)
LEMMA StakingMoves ==
  ASSUME Inv, ChoiceInv, Staking' \in States, NotLater(Staking, Staking'),
         UNCHANGED <<phase, snapshot>>
  PROVE  StakingKept'
<1>1. PICK t : t = Staking'
  OBVIOUS
<1>2. ASSUME phase \in {"certify", "status"}
      PROVE  /\ snapshot \in States /\ NotLater(snapshot, t)
             /\ phase = "status" /\ t = snapshot => snapshot.sync
  <2>1. /\ snapshot \in States /\ NotLater(snapshot, Staking)
        /\ phase = "status" /\ Staking = snapshot => snapshot.sync
    BY <1>2 DEF ChoiceInv, StakingKept
  <2>2. Staking \in States /\ t \in States /\ NotLater(Staking, t)
    BY <1>1, StakingType DEF Inv
  <2>3. t = snapshot => Staking = snapshot
    BY <2>1, <2>2, Later
  <2> QED
    BY <2>1, <2>2, <2>3, Later
<1>3. States' = States
  BY DEF States
<1> QED
  BY <1>1, <1>2, <1>3 DEF StakingKept

(* A failed attempt leaves the phases that the invariant is about.         *)
LEMMA FailChoiceInv ==
  ASSUME NEW err, Inv, Fail(err), ChoiceInv, UNCHANGED chain
  PROVE  ChoiceInv'
<1>1. staking' = staking \/ staking' = Unknown
  BY DEF Fail
<1>2. phase' \notin {"certify", "status"}
  BY DEF Fail
<1> QED
  BY <1>1, <1>2, StakingInTimeStays DEF ChoiceInv, StakingKept, HonestReports

(* More than f shards vouch for what is verified, one honest node's among  *)
(* them.                                                                   *)
LEMMA VerifiedIsReal ==
  ASSUME Inv, ChoiceInv, phase = "status", NEW st \in Verified, st.tag = "certified"
  PROVE  st = Certified(certified)
<1> DEFINE S == {x \in Targets : answers[x] = st}
<1>1. IsAboveValidity(Weight(S), n)
  BY DEF Verified
<1>2. S \subseteq Faulty => Weight(S) <= MaxFaulty(n)
  <2> SUFFICES ASSUME S \subseteq Faulty PROVE Weight(S) <= MaxFaulty(n)
    OBVIOUS
  <2>1. Spread(S) \subseteq ShardsOf(committee, Faulty)
    BY Committees DEF Spread, ShardsOf
  <2>2. ShardsOf(committee, Faulty) \subseteq Shard
    BY DEF ShardsOf
  <2>3. /\ IsFiniteSet(ShardsOf(committee, Faulty))
        /\ Cardinality(ShardsOf(committee, Faulty)) <= MaxFaulty(n)
    BY <2>2, Committees, FS_Subset DEF Inv, StateInv
  <2>4. Cardinality(Spread(S)) <= Cardinality(ShardsOf(committee, Faulty))
    BY <2>1, <2>3, FS_Subset
  <2>5. Cardinality(ShardsOf(committee, Faulty)) \in Nat
    BY <2>3, FS_CardinalityType
  <2> QED
    BY <2>3, <2>4, <2>5, SpreadIsFinite, MaxFaultyType
<1>3. PICK x \in S : x \notin Faulty
  BY <1>1, <1>2, SpreadIsFinite, MaxFaultyType DEF IsAboveValidity
<1> QED
  BY <1>3 DEF ChoiceInv, HonestReports

ChoosesHolder ==
  readCommittee' # readCommittee /\ readCommittee'.kind = "committee" /\ Staking = snapshot
    => readCommittee'.epoch = Holder(snapshot)

LEMMA RightChoice ==
  ASSUME NEW c, Choose(c),
         Staking = snapshot => c = IF snapshot.sync THEN certified ELSE snapshot.epoch
  PROVE  ChoosesHolder
<1> SUFFICES ASSUME Staking = snapshot
             PROVE  readCommittee'.epoch = Holder(snapshot)
  BY DEF ChoosesHolder
<1>1. readCommittee'.epoch =
        IF snapshot.sync /\ c < snapshot.epoch THEN snapshot.epoch - 1 ELSE Staking.epoch
  BY DEF Choose, Resolved
<1> QED
  BY <1>1 DEF Holder

(* When the committee has been chosen, nothing is left to keep.            *)
LEMMA ChoiceEnds ==
  ASSUME Inv, ChoiceInv, NEW c, Choose(c), UNCHANGED chain
  PROVE  ChoiceInv'
<1>1. staking' = Staking /\ phase' = "metadata"
  BY DEF Choose, Ask
<1> QED
  BY <1>1, StakingInTimeStays DEF ChoiceInv, StakingKept, HonestReports

LEMMA GetCertificationEpochChoice ==
  ASSUME Inv, ChoiceInv, GetCertificationEpoch
  PROVE  ChoiceInv' /\ ChoosesHolder
<1>1. phase = "certify" /\ UNCHANGED <<chain, certified>>
  BY DEF GetCertificationEpoch, chainVars
<1>2. ASSUME Ask("status", Staking.epoch, {SetToSeq(Members(Staking.epoch))}), Staking.sync,
             staking' = Staking, UNCHANGED <<attempt, readCommittee, snapshot, result>>
      PROVE  ChoiceInv' /\ ChoosesHolder
  <2>1. StakingInTime' /\ Staking' = Staking
    <3>1. Staking \in States
      BY StakingType DEF Inv
    <3>2. Staking # Unknown
      BY <3>1 DEF States, Unknown
    <3> QED
      BY <1>1, <1>2, <3>2, StakingInTimeStays
  <2>2. StakingKept'
    <3>1. snapshot \in States /\ NotLater(snapshot, Staking)
      BY <1>1 DEF ChoiceInv, StakingKept
    <3>2. States' = States
      BY DEF States
    <3> QED
      BY <1>2, <2>1, <3>1, <3>2 DEF StakingKept
  <2>3. answers' = [x \in Targets' |-> Reply("none")]
    BY <1>2 DEF Ask, Targets
  <2>4. HonestReports'
    BY <2>3 DEF HonestReports, Reply
  <2>5. ChoosesHolder
    BY <1>2 DEF ChoosesHolder
  <2> QED
    BY <2>1, <2>2, <2>4, <2>5 DEF ChoiceInv
<1>3. ASSUME ~Staking.sync, Choose(Staking.epoch)
      PROVE  ChoiceInv' /\ ChoosesHolder
  <2>1. ChoosesHolder
    BY <1>3, RightChoice
  <2> QED
    BY <1>1, <1>3, <2>1, ChoiceEnds
<1> QED
  BY <1>2, <1>3 DEF GetCertificationEpoch

LEMMA StatusAnswerChoice ==
  ASSUME Inv, ChoiceInv, phase = "status", NEW x \in Targets, NEW reply \in Replies(x),
         StatusAnswer(x, reply), UNCHANGED <<chain, certified>>
  PROVE  ChoiceInv' /\ ChoosesHolder
<1>1. ASSUME NEW err, FailChoice(err) PROVE ChoiceInv' /\ ChoosesHolder
  BY <1>1, FailChoiceInv DEF FailChoice, Rejected, ChoosesHolder
<1>2. ASSUME NEW st \in Verified, st.tag = "certified", Choose(st.epoch)
      PROVE  ChoiceInv' /\ ChoosesHolder
  <2>1. st.epoch = certified
    BY <1>2, VerifiedIsReal DEF Certified
  <2>2. ChoosesHolder
    BY <1>2, <2>1, RightChoice DEF ChoiceInv, StakingKept
  <2> QED
    BY <1>2, <2>2, ChoiceEnds
<1>3. ASSUME Wait, answers' = [answers EXCEPT ![x] = reply]
      PROVE  ChoiceInv' /\ ChoosesHolder
  <2>1. UNCHANGED <<phase, staking, readCommittee, snapshot, order>>
    BY <1>3 DEF Wait
  <2>2. x \notin Faulty /\ reply.tag = "certified" => reply = Certified(certified)
    BY DEF Replies, Failure, KnownStatus, Reply, Certified
  <2>3. /\ DOMAIN answers' = Targets /\ answers'[x] = reply
        /\ \A y \in Targets : y # x => answers'[y] = answers[y]
    BY <1>3 DEF ChoiceInv, HonestReports
  <2>4. Targets' = Targets
    BY <2>1 DEF Targets
  <2>5. HonestReports'
    BY <2>1, <2>2, <2>3, <2>4 DEF ChoiceInv, HonestReports
  <2>6. Staking' = Staking
    BY <2>1 DEF Staking
  <2>7. StakingInTime' /\ StakingKept'
    BY <2>1, <2>6 DEF ChoiceInv, StakingInTime, StakingKept, States
  <2> QED
    BY <2>1, <2>5, <2>7 DEF ChoiceInv, ChoosesHolder
<1>4. \/ \E err : FailChoice(err)
      \/ \E st \in Verified : st.tag = "certified" /\ Choose(st.epoch)
      \/ Wait /\ answers' = [answers EXCEPT ![x] = reply]
  BY DEF StatusAnswer, StatusFound
<1> QED
  BY <1>1, <1>2, <1>3, <1>4

LEMMA InitChoiceInv == Init => ChoiceInv
<1> SUFFICES ASSUME Init PROVE ChoiceInv
  OBVIOUS
<1>1. phase = "idle" /\ Staking = chain
  BY DEF Init, Staking
<1>2. chain \in States
  BY InitInv DEF Inv, StateInv
<1> QED
  BY <1>1, <1>2, Later DEF ChoiceInv, StakingInTime, StakingKept, HonestReports

(* Steps outside of the choice that read no staking state.                 *)
LEMMA NoChoice ==
  ASSUME Inv, ChoiceInv, UNCHANGED <<chain, readCommittee>>,
         staking' = staking \/ staking' = Unknown, phase' \notin {"certify", "status"}
  PROVE  ChoiceInv' /\ ChoosesHolder
BY StakingInTimeStays DEF ChoiceInv, StakingKept, HonestReports, ChoosesHolder

LEMMA EpochChangeChoice ==
  ASSUME Inv, ChoiceInv, EpochChange
  PROVE  ChoiceInv' /\ ChoosesHolder
<1>1. UNCHANGED <<certified, staking, readCommittee, phase, snapshot, asked>>
  BY DEF EpochChange
<1>2. chain \in States /\ chain' \in States /\ Staking \in States
  <2>1. StateInv'
    BY EpochChangeInv DEF Inv
  <2>2. States' = States
    BY DEF States
  <2> QED
    BY <2>1, <2>2, StakingType DEF Inv, StateInv
<1>3. NotLater(chain, chain')
  <2>1. CASE chain.sync /\ chain' = [chain EXCEPT !.sync = FALSE]
    BY <1>2, <2>1 DEF NotLater, States
  <2>2. CASE chain' = [epoch |-> chain.epoch + 1, sync |-> TRUE]
    BY <1>2, <2>2 DEF NotLater, States
  <2> QED
    BY <2>1, <2>2 DEF EpochChange
<1>4. /\ Staking' \in States
      /\ NotLater(Staking, Staking') /\ NotLater(Staking', chain')
  <2>1. NotLater(Staking, chain)
    BY DEF ChoiceInv, StakingInTime
  <2>2. CASE staking = Unknown
    <3>1. Staking = chain /\ Staking' = chain'
      BY <1>1, <2>2 DEF Staking
    <3> QED
      BY <1>2, <1>3, <3>1, Later
  <2>3. CASE staking # Unknown
    <3>1. Staking' = Staking
      BY <1>1, <2>3 DEF Staking
    <3> QED
      BY <1>2, <1>3, <2>1, <3>1, Later
  <2> QED
    BY <2>2, <2>3
<1>5. StakingKept' /\ StakingInTime'
  BY <1>1, <1>4, StakingMoves DEF StakingInTime
<1>6. HonestReports' /\ ChoosesHolder
  BY <1>1 DEF ChoiceInv, HonestReports, ChoosesHolder, asked, Targets
<1> QED
  BY <1>5, <1>6 DEF ChoiceInv

LEMMA ResetChoice ==
  ASSUME Inv, ChoiceInv, Reset
  PROVE  ChoiceInv' /\ ChoosesHolder
<1>1. staking' = Unknown /\ UNCHANGED <<chain, certified, readCommittee, phase, snapshot, asked>>
  BY DEF Reset, chainVars
<1>2. Staking' = chain /\ chain \in States /\ NotLater(Staking, chain)
  BY <1>1 DEF Staking, Inv, StateInv, ChoiceInv, StakingInTime
<1>3. StakingKept'
  BY <1>1, <1>2, StakingMoves
<1>4. StakingInTime'
  BY <1>1, StakingInTimeStays
<1>5. HonestReports' /\ ChoosesHolder
  BY <1>1 DEF ChoiceInv, HonestReports, ChoosesHolder, asked, Targets
<1> QED
  BY <1>3, <1>4, <1>5 DEF ChoiceInv

LEMMA AnswerChoice ==
  ASSUME Inv, ChoiceInv, NEW x, Answer(x)
  PROVE  ChoiceInv' /\ ChoosesHolder
<1>1. UNCHANGED <<chain, certified>> /\ x \in InFlight
  BY DEF Answer, chainVars
<1>2. CASE phase = "status"
  <2>1. x \in Targets
    BY <1>1, <1>2 DEF InFlight, Unanswered, With
  <2>2. PICK reply \in Replies(x) : StatusAnswer(x, reply)
    BY <1>2 DEF Answer
  <2> QED
    BY <1>1, <1>2, <2>1, <2>2, StatusAnswerChoice
<1>3. CASE phase # "status"
  <2>1. phase \in {"metadata", "slivers"}
    BY <1>1, <1>3 DEF InFlight
  <2>2. \E reply : \/ phase = "metadata" /\ MetadataAnswer(x, reply)
                   \/ phase = "slivers" /\ SliverAnswer(x, reply)
    BY <2>1 DEF Answer
  <2>3. /\ UNCHANGED readCommittee /\ phase' \in {"metadata", "slivers", "begin", "idle"}
        /\ staking' = staking \/ staking' = Unknown
    BY <2>1, <2>2 DEF MetadataAnswer, SliverAnswer, Decoded, FailRead, Fail, Wait, Ask
  <2> QED
    BY <1>1, <2>3, NoChoice
<1> QED
  BY <1>2, <1>3

LEMMA FailedChoice ==
  ASSUME Inv, ChoiceInv, UNCHANGED chain, NEW err, FailChoice(err) \/ FailRead(err)
  PROVE  ChoiceInv' /\ ChoosesHolder
BY FailChoiceInv DEF FailChoice, FailRead, Rejected, ChoosesHolder

LEMMA NextChoice ==
  ASSUME Inv, ChoiceInv, [Next]_vars
  PROVE  ChoiceInv' /\ (Next => ChoosesHolder)
<1>1. CASE StartRead
  BY <1>1, NoChoice DEF StartRead, chainVars
<1>2. CASE GetReadCommittee
  <2>1. chain' = chain
    BY <1>2 DEF GetReadCommittee, chainVars
  <2>2. CASE FailRead(readCommittee.error)
    BY <2>1, <2>2, FailedChoice
  <2>3. CASE phase' \in {"choose", "metadata"} /\ UNCHANGED <<staking, readCommittee>>
    BY <2>1, <2>3, NoChoice
  <2> QED
    BY <1>2, <2>2, <2>3 DEF GetReadCommittee, Ask
<1>3. CASE ForceGetReadCommittee
  <2>1. /\ phase' = "certify" /\ snapshot' = Staking /\ staking' = Staking
        /\ UNCHANGED <<chain, readCommittee>>
    BY <1>3 DEF ForceGetReadCommittee, chainVars
  <2>2. Staking \in States /\ Staking # Unknown
    BY StakingType DEF Inv, States, Unknown
  <2>3. StakingInTime' /\ Staking' = Staking
    BY <2>1, <2>2, StakingInTimeStays
  <2>4. NotLater(Staking, Staking) /\ States' = States
    BY <2>2, Later DEF States
  <2> QED
    BY <2>1, <2>2, <2>3, <2>4 DEF ChoiceInv, StakingKept, HonestReports, ChoosesHolder
<1>4. CASE ChainRequestFails
  <2>1. UNCHANGED chain /\ (FailChoice("RequestFailed") \/ FailRead("RequestFailed"))
    BY <1>4 DEF ChainRequestFails, chainVars
  <2> QED
    BY <2>1, FailedChoice
<1>5. CASE UserAbort
  <2>1. CASE \E err : FailChoice(err) \/ FailRead(err)
    BY <1>5, <2>1, FailedChoice DEF UserAbort, chainVars
  <2>2. CASE Wait /\ phase = "metadata"
    BY <1>5, <2>2, NoChoice DEF UserAbort, Wait, chainVars
  <2> QED
    BY <1>5, <2>1, <2>2 DEF UserAbort
<1>6. CASE UNCHANGED vars
  <2>1. UNCHANGED <<chain, certified, staking, readCommittee, phase, snapshot, order, answers>>
    BY <1>6 DEF vars, chainVars, asked
  <2>2. Staking' = Staking /\ States' = States /\ Targets' = Targets
    BY <2>1 DEF Staking, States, Targets
  <2> QED
    BY <2>1, <2>2 DEF ChoiceInv, StakingInTime, StakingKept, HonestReports, ChoosesHolder
<1> QED
  BY <1>1, <1>2, <1>3, <1>4, <1>5, <1>6, GetCertificationEpochChoice, AnswerChoice,
     EpochChangeChoice, ResetChoice DEF Next, Step

(* The comment on #getReadCommittee (client.ts:690-696): the committee     *)
(* that is chosen holds the blob, as of the staking state that was read,   *)
(* for any committees in which faulty nodes have f shards at the most,     *)
(* unless a reset and a change of the epoch come in the middle.            *)
THEOREM HoldersServe == Spec => ServedByHolders
<1>1. Inv /\ ChoiceInv /\ [Next]_vars =>
        /\ ChoiceInv'
        /\ [readCommittee' # readCommittee /\ readCommittee'.kind = "committee" /\ Staking = snapshot
              => readCommittee'.epoch = Holder(snapshot)]_vars
  BY NextChoice DEF ChoosesHolder
<1> QED
  BY <1>1, InitChoiceInv, SpecInv, PTL DEF Spec, ServedByHolders
-----------------------------------------------------------------------------
(* What is asked for, and in which order.  A recursive function exists and *)
(* has its type because a least index where it fails cannot be.            *)
LEMMA LeastElement ==
  ASSUME NEW T, T \subseteq Nat, T # {}
  PROVE  \E x \in T : \A y \in T : x <= y
<1> DEFINE R == OpToRel(<, Nat)
<1>1. IsWellFoundedOn(R, Nat)
  BY NatLessThanWellFounded
<1>2. R = {ss \in Nat \X Nat : ss[1] < ss[2]}
  BY DEF OpToRel
<1> HIDE DEF R
<1>3. PICK x \in T : \A y \in T : <<y, x>> \notin R
  BY <1>1, WFMin
<1>4. \A y \in T : ~ (y < x)
  BY <1>2, <1>3
<1> QED
  BY <1>3, <1>4

LEMMA FlattenSeqType ==
  ASSUME NEW S, NEW seqs \in Seq(Seq(S))
  PROVE  FlattenSeq(seqs) \in Seq(S)
<1> DEFINE N == Len(seqs)
           Next1(f, i) == IF i = 1 THEN seqs[i] ELSE f[i - 1] \o seqs[i]
           Until(k) == {f \in [1..k -> Seq(S)] : \A i \in 1..k : f[i] = Next1(f, i)}
           flatten == CHOOSE f : f = [i \in 1..N |-> Next1(f, i)]
<1>1. N \in Nat /\ \A i \in 1..N : seqs[i] \in Seq(S)
  OBVIOUS
<1>2. CASE N = 0
  BY <1>2 DEF FlattenSeq
<1>3. ASSUME NEW k \in 1..N, k = 1 \/ Until(k - 1) # {}
      PROVE  Until(k) # {}
  <2>1. CASE k = 1
    <3>1. [i \in 1..1 |-> seqs[1]] \in Until(1)
      BY <1>1, <2>1
    <3> QED
      BY <2>1, <3>1
  <2>2. CASE k # 1
    <3>1. PICK f \in Until(k - 1) : TRUE
      BY <1>3, <2>2
    <3>2. k \in Nat /\ k - 1 \in 1..(k - 1) /\ k \in 1..N
      BY <1>1, <2>2
    <3>3. f \in [1..(k - 1) -> Seq(S)] /\ \A i \in 1..(k - 1) : f[i] = Next1(f, i)
      BY <3>1
    <3> DEFINE g == [i \in 1..k |-> IF i = k THEN f[k - 1] \o seqs[k] ELSE f[i]]
    <3>4. f[k - 1] \in Seq(S) /\ seqs[k] \in Seq(S)
      BY <1>1, <3>2, <3>3
    <3>5. f[k - 1] \o seqs[k] \in Seq(S)
      BY <3>4
    <3>6. g \in [1..k -> Seq(S)]
      BY <3>2, <3>3, <3>5
    <3>7. g[k] = f[k - 1] \o seqs[k] /\ \A i \in 1..(k - 1) : g[i] = f[i]
      <4>1. k \in 1..k /\ \A i \in 1..(k - 1) : i \in 1..k /\ i # k
        BY <3>2
      <4>2. g[k] = f[k - 1] \o seqs[k]
        BY <4>1
      <4>3. ASSUME NEW i \in 1..(k - 1) PROVE g[i] = f[i]
        BY <4>1
      <4> QED
        BY <4>2, <4>3
    <3> HIDE DEF g
    <3>8. ASSUME NEW i \in 1..k PROVE g[i] = Next1(g, i)
      <4>1. CASE i = k
        BY <2>2, <3>2, <3>7, <4>1
      <4>2. CASE i # k
        <5>1. i \in 1..(k - 1) /\ (i # 1 => i - 1 \in 1..(k - 1))
          BY <3>2, <4>2
        <5>2. g[i] = f[i] /\ (i # 1 => g[i - 1] = f[i - 1])
          BY <3>7, <5>1
        <5> QED
          BY <3>3, <5>1, <5>2
      <4> QED
        BY <4>1, <4>2
    <3>9. g \in Until(k)
      BY <3>6, <3>8
    <3> QED
      BY <3>9
  <2> QED
    BY <2>1, <2>2
<1>4. ASSUME N # 0 PROVE Until(N) # {}
  <2> DEFINE Bad == {k \in 1..N : Until(k) = {}}
  <2>1. SUFFICES ASSUME N \in Bad PROVE FALSE
    BY <1>1, <1>4
  <2>2. Bad \subseteq Nat
    BY <1>1
  <2> HIDE DEF Until
  <2>3. PICK k \in Bad : \A j \in Bad : k <= j
    BY <2>1, <2>2, LeastElement
  <2>4. k \in 1..N /\ Until(k) = {}
    BY <2>3
  <2>5. k = 1 \/ Until(k - 1) # {}
    <3>1. SUFFICES ASSUME k # 1 PROVE k - 1 \notin Bad /\ k - 1 \in 1..N
      OBVIOUS
    <3>2. k \in Nat /\ ~ (k <= k - 1) /\ k - 1 \in 1..N
      BY <1>1, <2>4, <3>1
    <3> QED
      BY <2>3, <3>2
  <2> QED
    BY <1>3, <2>4, <2>5
<1>5. ASSUME N # 0 PROVE flatten = [i \in 1..N |-> Next1(flatten, i)]
  <2>1. PICK f \in Until(N) : TRUE
    BY <1>4, <1>5
  <2>2. f \in [1..N -> Seq(S)] /\ \A i \in 1..N : f[i] = Next1(f, i)
    BY <2>1
  <2>3. f = [i \in 1..N |-> Next1(f, i)]
    BY <2>2
  <2> QED
    BY <2>3
<1>6. ASSUME N # 0 PROVE \A i \in 1..N : flatten[i] \in Seq(S)
  <2> HIDE DEF flatten
  <2> DEFINE Bad == {i \in 1..N : flatten[i] \notin Seq(S)}
  <2>1. SUFFICES ASSUME Bad # {} PROVE FALSE
    OBVIOUS
  <2>2. Bad \subseteq Nat
    BY <1>1
  <2>3. PICK i \in Bad : \A j \in Bad : i <= j
    BY <2>1, <2>2, LeastElement
  <2>4. i \in 1..N /\ flatten[i] \notin Seq(S)
    BY <2>3
  <2>5. flatten[i] = Next1(flatten, i)
    BY <1>5, <1>6, <2>4
  <2>6. i # 1
    BY <1>1, <2>4, <2>5
  <2>7. i \in Nat /\ ~ (i <= i - 1) /\ i - 1 \in 1..N
    BY <1>1, <2>4, <2>6
  <2>8. flatten[i - 1] \in Seq(S)
    BY <2>3, <2>7
  <2> QED
    BY <1>1, <2>4, <2>5, <2>6, <2>8
<1>7. ASSUME N # 0 PROVE FlattenSeq(seqs) = flatten[N]
  BY <1>7 DEF FlattenSeq
<1> QED
  <2> HIDE DEF flatten
  <2> QED
    BY <1>1, <1>2, <1>6, <1>7

LEMMA SetToSeqType ==
  ASSUME NEW S, IsFiniteSet(S)
  PROVE  SetToSeq(S) \in Seq(S)
<1>1. Cardinality(S) \in Nat /\ ExistsBijection(1..Cardinality(S), S)
  BY FS_CardinalityType
<1>2. \E f \in [1..Cardinality(S) -> S] : IsInjective(f)
  BY <1>1 DEF ExistsBijection, Bijection, Injection
<1>3. SetToSeq(S) \in [1..Cardinality(S) -> S]
  BY <1>2 DEF SetToSeq
<1> QED
  BY <1>1, <1>3

LEMMA SeqOfSubset == ASSUME NEW S, NEW T, S \subseteq T PROVE Seq(S) \subseteq Seq(T)
<1> SUFFICES ASSUME NEW s \in Seq(S) PROVE s \in Seq(T)
  OBVIOUS
<1>1. s \in [1..Len(s) -> T] /\ Len(s) \in Nat
  OBVIOUS
<1> QED
  BY <1>1

LEMMA MembersFinite == ASSUME NEW e \in Epoch PROVE IsFiniteSet(Members(e))
<1> DEFINE f == [s \in Shard |-> Owner[e][s]]
<1>1. f \in Surjection(Shard, Members(e))
  BY DEF Surjection, Members
<1> QED
  BY <1>1, Committees, FS_Surjection

LEMMA NodeOrdersType == ASSUME NEW e \in Epoch PROVE NodeOrders[e] \subseteq Seq(Members(e))
<1>1. Cardinality(Members(e)) \in Nat
  BY MembersFinite, FS_CardinalityType
<1>2. SetToSeqs(Members(e)) \subseteq [1..Cardinality(Members(e)) -> Members(e)]
  BY DEF SetToSeqs
<1> QED
  BY <1>1, <1>2 DEF NodeOrders

LEMMA ShardOrdersType == ASSUME NEW e \in Epoch PROVE ShardOrders[e] \subseteq Seq(Shard)
<1> SUFFICES ASSUME NEW o \in NodeOrders[e]
             PROVE  FlattenSeq([i \in DOMAIN o |-> SetToSeq(ShardsOf(e, {o[i]}))]) \in Seq(Shard)
  BY DEF ShardOrders
<1> DEFINE seqs == [i \in DOMAIN o |-> SetToSeq(ShardsOf(e, {o[i]}))]
<1>1. o \in Seq(Members(e))
  BY NodeOrdersType
<1>2. ASSUME NEW i \in DOMAIN o PROVE seqs[i] \in Seq(Shard)
  <2>1. ShardsOf(e, {o[i]}) \subseteq Shard
    BY DEF ShardsOf
  <2>2. IsFiniteSet(ShardsOf(e, {o[i]}))
    BY <2>1, Committees, FS_Subset
  <2>3. SetToSeq(ShardsOf(e, {o[i]})) \in Seq(ShardsOf(e, {o[i]}))
    BY <2>2, SetToSeqType
  <2>4. SetToSeq(ShardsOf(e, {o[i]})) \in Seq(Shard)
    BY <2>1, <2>3, SeqOfSubset
  <2> QED
    BY <2>4
<1> HIDE DEF seqs
<1>3. seqs \in Seq(Seq(Shard))
  <2>1. DOMAIN seqs = 1..Len(o) /\ Len(o) \in Nat /\ DOMAIN o = 1..Len(o)
    BY <1>1 DEF seqs
  <2>2. seqs \in [1..Len(o) -> Seq(Shard)]
    BY <1>2, <2>1 DEF seqs
  <2> QED
    BY <2>1, <2>2
<1> QED
  BY <1>3, FlattenSeqType DEF seqs

Replied == [tag : Tag, epoch : Epoch]

AskedInv ==
  /\ order \in Seq(Members(committee)) \cup Seq(Shard)
  /\ answers \in [Targets -> Replied]

Results == [at : Phase \cup {"none"}, error : Error \cup {""}]

EndInv == attempt \in 0..2 /\ result \in Results

CountInv == reads \in 0..MaxReads /\ resets \in 0..MaxResets

Kept == AskedInv /\ EndInv

LEMMA EpochType == 0 \in Epoch /\ 1..MaxEpoch \subseteq Epoch
BY Committees DEF Epoch

LEMMA ReplyType ==
  /\ \A tag \in Tag : Reply(tag) \in Replied
  /\ \A e \in Epoch : Certified(e) \in Replied
BY EpochType DEF Reply, Certified, Replied, Tag

LEMMA RepliesType ==
  ASSUME Inv, NEW x, phase \in {"status", "metadata", "slivers"}
  PROVE  Replies(x) \subseteq Replied
<1>1. Failure \subseteq Replied /\ Status \subseteq Replied
  BY ReplyType DEF Failure, Status, StatusTag, Tag
<1>2. KnownStatus \subseteq Replied
  BY ReplyType DEF KnownStatus, Tag, Inv, StateInv
<1>3. {Reply("ok"), Reply("other"), Reply("notFound")} \subseteq Replied
  BY ReplyType DEF Tag
<1>4. CASE phase = "status"
  <2>1. CASE x \in Faulty
    <3>1. Replies(x) = Failure \cup Status
      BY <1>4, <2>1 DEF Replies
    <3> QED
      BY <1>1, <3>1
  <2>2. CASE x \notin Faulty
    <3>1. Replies(x) = Failure \cup KnownStatus
      BY <1>4, <2>2 DEF Replies
    <3> QED
      BY <1>1, <1>2, <3>1
  <2> QED
    BY <2>1, <2>2
<1>5. CASE phase # "status"
  BY <1>1, <1>3, <1>5 DEF Replies
<1> QED
  BY <1>4, <1>5

LEMMA AskType ==
  ASSUME NEW p, NEW e \in Epoch, NEW orders \in SUBSET (Seq(Members(e)) \cup Seq(Shard)),
         Ask(p, e, orders)
  PROVE  AskedInv'
<1>1. committee' = e /\ order' \in orders /\ answers' = [x \in ToSet(order') |-> Reply("none")]
  BY DEF Ask
<1>2. Targets' = ToSet(order')
  BY DEF Targets
<1>3. Reply("none") \in Replied
  BY ReplyType DEF Tag
<1>4. order' \in Seq(Members(committee')) \cup Seq(Shard)
  BY <1>1
<1>5. Members(committee)' = Members(committee')
  BY DEF Members
<1>6. Replied' = Replied
  BY DEF Replied
<1> QED
  BY <1>1, <1>2, <1>3, <1>4, <1>5 DEF AskedInv

LEMMA AnswerType ==
  ASSUME AskedInv, UNCHANGED <<committee, order>>, answers' \in [Targets -> Replied]
  PROVE  AskedInv'
BY DEF AskedInv, Members, Targets

LEMMA Attempts == {0, 1, 2} \subseteq 0..2
OBVIOUS

LEMMA EndIsEnough ==
  ASSUME attempt' \in 0..2, result' \in Results
  PROVE  EndInv'
<1>1. Results' = Results
  BY DEF Results, Phase, Error
<1> QED
  BY <1>1 DEF EndInv

LEMMA FailType ==
  ASSUME Inv, Kept, NEW err \in Error, Fail(err), answers' \in [Targets -> Replied]
  PROVE  Kept'
<1>1. UNCHANGED <<committee, order>>
  BY DEF Fail
<1>2. /\ attempt' = attempt \/ attempt' = 2
      /\ result' = result \/ result' = [at |-> phase, error |-> err]
  BY DEF Fail
<1>3. phase \in Phase /\ attempt \in 0..2 /\ result \in Results
  BY DEF Kept, EndInv, Inv, StateInv
<1>4. [at |-> phase, error |-> err] \in Results
  BY <1>3 DEF Results
<1>5. EndInv'
  BY <1>2, <1>3, <1>4, EndIsEnough
<1> QED
  BY <1>1, <1>5, AnswerType DEF Kept

LEMMA WaitType ==
  ASSUME Kept, Wait, answers' \in [Targets -> Replied]
  PROVE  Kept'
BY AnswerType DEF Wait, Kept, EndInv

LEMMA ChooseType ==
  ASSUME Inv, Kept, phase # "idle", NEW c \in Epoch, Choose(c), UNCHANGED <<chain, certified>>
  PROVE  Kept'
<1>1. PICK e : readCommittee' = Resolved(e) /\ Ask("metadata", e, NodeOrders[e])
               /\ UNCHANGED <<attempt, result>>
  BY DEF Choose
<1>2. e \in Epoch
  BY <1>1, ChooseInv DEF Ask, Inv, StateInv
<1>3. NodeOrders[e] \subseteq Seq(Members(e)) \cup Seq(Shard)
  BY <1>2, NodeOrdersType
<1> QED
  BY <1>1, <1>2, <1>3, AskType DEF Kept, EndInv
-----------------------------------------------------------------------------
LEMMA GetReadCommitteeType == ASSUME Inv, Kept, GetReadCommittee PROVE Kept'
<1>1. answers \in [Targets -> Replied]
  BY DEF Kept, AskedInv
<1>2. CASE UNCHANGED <<attempt, asked, result>>
  BY <1>1, <1>2, AnswerType DEF asked, Kept, EndInv
<1>3. CASE readCommittee.kind = "rejected" /\ FailRead(readCommittee.error) /\ UNCHANGED answers
  BY <1>1, <1>3, CommitteeKinds, FailType DEF FailRead, Inv
<1>4. CASE /\ readCommittee.kind = "committee"
           /\ Ask("metadata", readCommittee.epoch, NodeOrders[readCommittee.epoch])
           /\ UNCHANGED <<attempt, result>>
  <2>1. readCommittee.epoch \in Epoch
    BY <1>4, CommitteeKinds DEF Inv
  <2>2. NodeOrders[readCommittee.epoch]
          \subseteq Seq(Members(readCommittee.epoch)) \cup Seq(Shard)
    BY <2>1, NodeOrdersType
  <2> QED
    BY <1>4, <2>1, <2>2, AskType DEF Kept, EndInv
<1> QED
  BY <1>2, <1>3, <1>4 DEF GetReadCommittee

LEMMA GetCertificationEpochType == ASSUME Inv, Kept, GetCertificationEpoch PROVE Kept'
<1>1. Staking.epoch \in Epoch /\ phase # "idle" /\ UNCHANGED <<chain, certified>>
  BY StakingType DEF GetCertificationEpoch, Inv, chainVars
<1>2. CASE Choose(Staking.epoch)
  BY <1>1, <1>2, ChooseType
<1>3. CASE /\ Ask("status", Staking.epoch, {SetToSeq(Members(Staking.epoch))})
           /\ UNCHANGED <<attempt, result>>
  <2>1. SetToSeq(Members(Staking.epoch)) \in Seq(Members(Staking.epoch))
    BY <1>1, MembersFinite, SetToSeqType
  <2> QED
    BY <1>1, <1>3, <2>1, AskType DEF Kept, EndInv
<1> QED
  BY <1>2, <1>3 DEF GetCertificationEpoch

LEMMA StatusAnswerType ==
  ASSUME Inv, Kept, phase = "status", NEW x \in Targets, NEW reply \in Replied,
         StatusAnswer(x, reply), UNCHANGED <<chain, certified>>
  PROVE  Kept'
<1>1. answers \in [Targets -> Replied] /\ [answers EXCEPT ![x] = reply] \in [Targets -> Replied]
  BY DEF Kept, AskedInv
<1>2. ASSUME NEW err \in Error, FailChoice(err), answers' \in [Targets -> Replied]
      PROVE  Kept'
  BY <1>2, FailType DEF FailChoice
<1>3. ASSUME NEW st \in Verified, StatusFound(st) PROVE Kept'
  <2>1. CASE Choose(st.epoch)
    <3>1. st \in Status
      BY DEF Verified
    <3>2. st.epoch \in Epoch
      BY <3>1, EpochType DEF Status, Reply, Certified
    <3> QED
      BY <2>1, <3>2, ChooseType
  <2>2. CASE (\/ FailChoice("BlobNotCertified") \/ FailChoice("BehindCurrentEpoch")
              \/ FailChoice("RequestFailed"))
             /\ UNCHANGED answers
    BY <1>1, <1>2, <2>2 DEF Error
  <2> QED
    BY <1>3, <2>1, <2>2 DEF StatusFound
<1>4. CASE Wait /\ answers' = [answers EXCEPT ![x] = reply]
  BY <1>1, <1>4, WaitType
<1>5. CASE /\ \/ FailChoice("NoVerifiedBlobStatus") \/ FailChoice("BlobNotCertified")
              \/ FailChoice("NoBlobStatusReceived")
           /\ answers' = answers \/ answers' = [answers EXCEPT ![x] = reply]
  BY <1>1, <1>2, <1>5 DEF Error
<1>6. \/ \E st \in Verified : StatusFound(st)
      \/ Wait /\ answers' = [answers EXCEPT ![x] = reply]
      \/ /\ \/ FailChoice("NoVerifiedBlobStatus") \/ FailChoice("BlobNotCertified")
            \/ FailChoice("NoBlobStatusReceived")
         /\ answers' = answers \/ answers' = [answers EXCEPT ![x] = reply]
  BY DEF StatusAnswer
<1> QED
  BY <1>3, <1>4, <1>5, <1>6

LEMMA MetadataAnswerType ==
  ASSUME Inv, Kept, phase = "metadata", NEW x \in Targets, NEW reply \in Replied,
         MetadataAnswer(x, reply)
  PROVE  Kept'
<1> DEFINE now == [answers EXCEPT ![x] = reply]
<1>1. now \in [Targets -> Replied]
  BY DEF Kept, AskedInv
<1>2. ASSUME NEW err \in Error, FailRead(err), answers' = now PROVE Kept'
  BY <1>1, <1>2, FailType DEF FailRead
<1>3. CASE Wait /\ answers' = now
  BY <1>1, <1>3, WaitType
<1>4. CASE /\ Ask("slivers", readCommittee.epoch, ShardOrders[readCommittee.epoch])
           /\ UNCHANGED <<attempt, result>>
  <2>1. readCommittee.epoch \in Epoch
    BY DEF Inv, AsksChosen, StateInv
  <2>2. ShardOrders[readCommittee.epoch]
          \subseteq Seq(Members(readCommittee.epoch)) \cup Seq(Shard)
    BY <2>1, ShardOrdersType
  <2> QED
    BY <1>4, <2>1, <2>2, AskType DEF Kept, EndInv
<1>5. CASE /\ FailRead("RangeError") \/ FailRead("NoBlobMetadata") \/ FailRead(DeniedError(now))
           /\ answers' = now
  <2>1. {"RangeError", "NoBlobMetadata", DeniedError(now)} \subseteq Error
    BY DeniedErrorType DEF Error
  <2> QED
    BY <1>2, <1>5, <2>1
<1> QED
  BY <1>3, <1>4, <1>5 DEF MetadataAnswer

LEMMA SliverAnswerType ==
  ASSUME Inv, Kept, phase = "slivers", NEW x \in Targets, NEW reply \in Replied,
         SliverAnswer(x, reply)
  PROVE  Kept'
<1> DEFINE now == [answers EXCEPT ![x] = reply]
           passed == [y \in Targets |-> IF y \in PassedOver(now, x) THEN Reply("skipped")
                                                                  ELSE now[y]]
<1>1. answers \in [Targets -> Replied] /\ now \in [Targets -> Replied]
  BY DEF Kept, AskedInv
<1>2. passed \in [Targets -> Replied]
  <2>1. Reply("skipped") \in Replied
    BY ReplyType DEF Tag
  <2> HIDE DEF now
  <2> QED
    BY <1>1, <2>1
<1>3. ASSUME NEW err \in Error, FailRead(err), answers' \in [Targets -> Replied] PROVE Kept'
  BY <1>3, FailType DEF FailRead
<1>4. CASE Decoded /\ UNCHANGED answers
  <2>1. CASE FailRead("InconsistentBlob")
    BY <1>1, <1>3, <1>4, <2>1 DEF Error
  <2>2. CASE /\ result' = [at |-> phase, error |-> ""]
             /\ UNCHANGED <<attempt, committee, order>>
    <3>1. EndInv'
      BY <2>2 DEF Kept, EndInv, Results, Inv, StateInv
    <3> QED
      BY <1>1, <1>4, <2>2, <3>1, AnswerType DEF Kept
  <2> QED
    BY <1>4, <2>1, <2>2 DEF Decoded
<1>5. CASE answers' = now /\ FailRead(DeniedError(now))
  <2>1. DeniedError(now) \in Error
    BY DeniedErrorType DEF Error
  <2> QED
    BY <1>1, <1>3, <1>5, <2>1
<1>6. CASE answers' = passed /\ (FailRead("NotEnoughSlivers") \/ Wait)
  BY <1>2, <1>3, <1>6, WaitType DEF Error
<1> QED
  BY <1>4, <1>5, <1>6 DEF SliverAnswer

LEMMA UserAbortType == ASSUME Inv, Kept, UserAbort PROVE Kept'
<1>1. answers' \in [Targets -> Replied]
  <2>1. answers \in [Targets -> Replied] /\ Reply("other") \in Replied
    BY ReplyType DEF Kept, AskedInv, Tag
  <2>2. UNCHANGED answers \/ answers' = [answers EXCEPT ![order[1]] = Reply("other")]
    BY DEF UserAbort
  <2> QED
    BY <2>1, <2>2
<1>2. Fail("UserAbort") \/ Fail("RangeError") \/ Wait
  BY DEF UserAbort, FailChoice, FailRead
<1> QED
  BY <1>1, <1>2, FailType, WaitType DEF Error

LEMMA ChainRequestFailsType == ASSUME Inv, Kept, ChainRequestFails PROVE Kept'
<1>1. answers' \in [Targets -> Replied]
  BY DEF ChainRequestFails, Kept, AskedInv
<1>2. Fail("RequestFailed")
  BY DEF ChainRequestFails, FailChoice, FailRead
<1> QED
  BY <1>1, <1>2, FailType DEF Error

LEMMA NextType == ASSUME Inv, Kept, [Next]_vars PROVE Kept'
<1>1. ASSUME UNCHANGED <<attempt, asked, result>> PROVE Kept'
  BY <1>1, AnswerType DEF asked, Kept, AskedInv, EndInv
<1>2. CASE StartRead
  <2>1. attempt' = 1 /\ result' = [at |-> "none", error |-> ""]
    BY <1>2 DEF StartRead
  <2>2. EndInv'
    <3>1. [at |-> "none", error |-> ""] \in Results
      BY DEF Results
    <3>2. attempt' \in 0..2 /\ result' \in Results
      BY <2>1, <3>1, Attempts
    <3> QED
      BY <3>2, EndIsEnough
  <2>3. answers \in [Targets -> Replied] /\ UNCHANGED asked
    BY <1>2 DEF StartRead, Kept, AskedInv
  <2> QED
    BY <2>2, <2>3, AnswerType DEF Kept, asked
<1>3. ASSUME NEW x, Answer(x) PROVE Kept'
  <2>1. x \in InFlight /\ phase \in {"status", "metadata", "slivers"}
        /\ UNCHANGED <<chain, certified>>
    BY <1>3 DEF Answer, InFlight, chainVars
  <2>2. x \in Targets
    <3>1. Unanswered \subseteq Targets
      BY DEF Unanswered, With
    <3>2. \A I \in SUBSET DOMAIN order : Heads(I) \subseteq Targets
      BY <3>1 DEF Heads
    <3>3. order \in Seq(Members(committee)) \cup Seq(Shard)
      BY DEF Kept, AskedInv
    <3>4. 2..Len(order) \subseteq DOMAIN order
      BY <3>3
    <3> QED
      BY <2>1, <3>1, <3>2, <3>4 DEF InFlight
  <2>3. PICK reply \in Replies(x) :
          \/ phase = "status" /\ StatusAnswer(x, reply)
          \/ phase = "metadata" /\ MetadataAnswer(x, reply)
          \/ phase = "slivers" /\ SliverAnswer(x, reply)
    BY <1>3, <2>1 DEF Answer
  <2>4. reply \in Replied
    BY <2>1, <2>3, RepliesType
  <2> QED
    BY <2>1, <2>2, <2>3, <2>4, StatusAnswerType, MetadataAnswerType, SliverAnswerType
<1>4. CASE ForceGetReadCommittee \/ Reset \/ EpochChange \/ UNCHANGED vars
  BY <1>1, <1>4 DEF ForceGetReadCommittee, Reset, EpochChange, vars
<1> QED
  BY <1>2, <1>3, <1>4, GetReadCommitteeType, GetCertificationEpochType,
     ChainRequestFailsType, UserAbortType DEF Next, Step

LEMMA CountsStay == ASSUME CountInv, [Next]_vars PROVE CountInv'
<1>1. MaxReads \in Nat /\ MaxResets \in Nat
  BY Committees
<1>2. CASE StartRead
  <2>1. reads < MaxReads /\ reads' = reads + 1 /\ resets' = resets
    BY <1>2 DEF StartRead
  <2> QED
    BY <1>1, <2>1 DEF CountInv
<1>3. CASE Reset
  BY <1>1, <1>3 DEF Reset, CountInv
<1>4. CASE Step
  BY <1>4 DEF Step, GetReadCommittee, ForceGetReadCommittee, GetCertificationEpoch,
              ChainRequestFails, Answer, CountInv
<1>5. CASE UserAbort \/ EpochChange \/ UNCHANGED vars
  BY <1>5 DEF UserAbort, EpochChange, vars, CountInv
<1> QED
  BY <1>2, <1>3, <1>4, <1>5 DEF Next

LEMMA InitType == Init => Kept /\ CountInv
<1> SUFFICES ASSUME Init PROVE Kept /\ CountInv
  OBVIOUS
<1>1. CountInv /\ EndInv
  <2>1. reads = 0 /\ resets = 0 /\ MaxReads \in Nat /\ MaxResets \in Nat
    BY Committees DEF Init
  <2>2. attempt = 0 /\ result = [at |-> "none", error |-> ""]
    BY DEF Init
  <2>3. result \in Results
    BY <2>2 DEF Results
  <2>4. CountInv
    BY <2>1 DEF CountInv
  <2>5. attempt \in 0..2
    BY <2>2, Attempts
  <2> QED
    BY <2>3, <2>4, <2>5 DEF EndInv
<1>2. order = <<>> /\ answers = <<>>
  BY DEF Init
<1>3. Targets = {}
  BY <1>2 DEF Targets, ToSet
<1>4. order \in Seq(Members(committee)) /\ answers \in [Targets -> Replied]
  BY <1>2, <1>3
<1> QED
  BY <1>1, <1>4 DEF Kept, AskedInv

(* The client keeps what the code expects: the committee, the order of the *)
(* requests to its nodes or for its shards, one answer for each of them,   *)
(* and an error of a known kind, whatever is asked, answered and reset.    *)
THEOREM TypeCorrect == Spec => []TypeOK
<1>1. Inv /\ Kept /\ CountInv => TypeOK
  <2> SUFFICES ASSUME Inv, Kept, CountInv PROVE TypeOK
    OBVIOUS
  <2>1. States \subseteq [epoch : Epoch, sync : BOOLEAN]
    BY EpochType DEF States
  <2>2. readCommittee \in {Unset} \cup {Resolved(e) : e \in Epoch} \cup {Rejected(e) : e \in Error}
    BY DEF Inv, StateInv
  <2>3. {staking, snapshot} \subseteq [epoch : Epoch, sync : BOOLEAN] \cup {Unknown}
    BY <2>1 DEF Inv, StateInv
  <2>4. chain \in [epoch : Epoch, sync : BOOLEAN] /\ certified \in Epoch /\ phase \in Phase
        /\ committee \in Epoch
    BY <2>1 DEF Inv, StateInv
  <2> QED
    BY <2>2, <2>3, <2>4 DEF Kept, AskedInv, EndInv, CountInv, Replied, Results, TypeOK
<1>2. Inv /\ Kept /\ CountInv /\ [Next]_vars => (Kept /\ CountInv)'
  BY NextType, CountsStay
<1> QED
  BY <1>1, <1>2, InitType, SpecInv, PTL DEF Spec
=============================================================================
