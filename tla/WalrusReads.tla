----------------------------- MODULE WalrusReads -----------------------------
(***************************************************************************)
(* WalrusClient.readBlob: the choice of the committee that serves the read *)
(* (with the blob status read from the nodes while the epoch changes), the *)
(* metadata, the slivers, and one more attempt after a retryable error.    *)
(* One client, one read at a time; the epoch changes and reset() is called *)
(* at any moment.  A shard is a value, a node's weight is the number of    *)
(* shards it owns, and the contents of metadata and slivers are left out.  *)
(***************************************************************************)
EXTENDS WalrusQuorum, Sequences, SequencesExt, FiniteSetsExt

CONSTANTS Node, Shard,
          Owner,     \* epoch -> shard -> node
          MaxEpoch,
          CertifiedIn,   \* the epochs in which the blob may be certified
          Faulty,    \* nodes that may give any answer; the others tell what they know
          ConcurrencyLimit,      \* #blobMetadataConcurrencyLimit
          MaxReads, MaxResets    \* bounds: calls of readBlob, and of reset by the user

Epoch == 0..MaxEpoch

n == Cardinality(Shard)

(* The shards that committee e assigns to the nodes of S.                  *)
ShardsOf(e, S) == {s \in Shard : Owner[e][s] \in S}

Members(e) == {Owner[e][s] : s \in Shard}

ASSUMPTION Committees ==
  /\ IsFiniteSet(Shard) /\ Shard # {} /\ Node \cap Shard = {}
  /\ MaxEpoch \in Nat \ {0} /\ Owner \in [Epoch -> [Shard -> Node]]
  /\ CertifiedIn \subseteq Epoch /\ Faulty \subseteq Node
  /\ \A e \in Epoch : Cardinality(ShardsOf(e, Faulty)) <= MaxFaulty(n)
  /\ ConcurrencyLimit \in Nat \ {0} /\ MaxReads \in Nat /\ MaxResets \in Nat

VARIABLES
  chain,         \* external: [epoch, sync], sync during EpochChangeSync
  certified,     \* external: the epoch in which the blob is certified
  staking,       \* the cached staking state: what chain was, or Unknown
  readCommittee, \* #readCommittee: [kind, epoch, error]
  phase, attempt,
  snapshot,      \* stakingState of #forceGetReadCommittee
  committee,     \* the epoch of the committee that is being asked
  order,         \* the nodes or shards to ask, in the client's order
  answers,       \* what each of them has answered: [tag, epoch]
  result,        \* how readBlob ended: [at, error], no error for the blob
  reads, resets

chainVars == <<chain, certified>>
asked == <<committee, order, answers>>
vars == <<chainVars, staking, readCommittee, phase, attempt, snapshot, asked, result,
          reads, resets>>

(* What a node answers, and what is noted for a target that has none.      *)
Tag == {"none", "skipped", "ok", "notFound", "blocked", "other",
        "nonexistent", "registered", "certified", "invalid"}
Reply(tag) == [tag |-> tag, epoch |-> 0]
Certified(e) == [tag |-> "certified", epoch |-> e]

StatusTag == {"nonexistent", "registered", "certified", "invalid"}
Status == {Reply(tag) : tag \in StatusTag \ {"certified"}} \cup {Certified(e) : e \in Epoch}
Failure == {Reply("notFound"), Reply("blocked"), Reply("other")}

(* Registered and certified are both a BlobStatus of type permanent, one   *)
(* without a certified epoch.                                              *)
LifecycleRank(tag) ==
  CASE tag = "nonexistent" -> 0
    [] tag \in {"registered", "certified"} -> 2
    [] tag = "invalid" -> 3

Error == {"UserAbort", "BlobNotCertified", "BlobBlocked", "NoBlobStatusReceived",
          "NoVerifiedBlobStatus", "BehindCurrentEpoch", "NoBlobMetadata",
          "NotEnoughSlivers", "InconsistentBlob", "RangeError",
          "RequestFailed"}

Retryable == {"BlobNotCertified", "BehindCurrentEpoch", "NoBlobMetadata", "NotEnoughSlivers"}

Phase == {"idle", "begin", "choose", "certify", "status", "metadata", "slivers"}

Unset == [kind |-> "unset", epoch |-> 0, error |-> ""]
Resolved(e) == [kind |-> "committee", epoch |-> e, error |-> ""]
Rejected(err) == [kind |-> "rejected", epoch |-> 0, error |-> err]

Unknown == [epoch |-> -1, sync |-> FALSE]

Staking == IF staking = Unknown THEN chain ELSE staking

(* The committee that holds the slivers when the staking state is s.       *)
Holder(s) == IF s.sync /\ certified < s.epoch THEN s.epoch - 1 ELSE s.epoch

Init ==
  /\ chain = [epoch |-> 1, sync |-> TRUE] /\ certified \in CertifiedIn
  /\ staking = Unknown /\ readCommittee = Unset
  /\ phase = "idle" /\ attempt = 0 /\ snapshot = Unknown
  /\ committee = 0 /\ order = <<>> /\ answers = <<>>
  /\ result = [at |-> "none", error |-> ""] /\ reads = 0 /\ resets = 0
-----------------------------------------------------------------------------
(* The requests under way: With(a, tags) are the targets that answered so  *)
(* in a, and Weight is the number of shards that they stand for.           *)
Targets == ToSet(order)

With(a, tags) == {x \in Targets : a[x].tag \in tags}

Unanswered == With(answers, {"none"})

FailedTagAnswered == {"notFound", "blocked", "other"}

FailedTag == {"notFound", "blocked", "other", "skipped"}

NodeOf(x) == IF x \in Shard THEN Owner[committee][x] ELSE x

Weight(S) == Cardinality((S \cap Shard) \cup ShardsOf(committee, S \ Shard))

DeniedByNode(a) ==
  MapThenSumSet(LAMBDA x : Cardinality(ShardsOf(committee, {NodeOf(x)})),
                With(a, {"notFound", "blocked"}))

Denied(a) == Weight(With(a, {"notFound", "blocked"}))

(* After the first node, metadata is asked for in chunks, one at a time in *)
(* each; slivers go down the columns of a table that has MinSymbols(n).    *)
ChunkSize == (Len(order) - 1) \div ConcurrencyLimit

Lane(i) == IF phase = "metadata" THEN (i - 2) \div ChunkSize ELSE i % MinSymbols(n)

(* The first unanswered target of each lane.                               *)
Heads(I) == {order[i] : i \in {j \in I :
               /\ order[j] \in Unanswered
               /\ \A k \in I : k < j /\ Lane(k) = Lane(j) => order[k] \notin Unanswered}}

InFlight ==
  CASE phase = "status" -> Unanswered
    [] phase = "metadata" /\ order[1] \in Unanswered -> {order[1]}
    [] phase = "metadata" /\ order[1] \notin Unanswered -> Heads(2..Len(order))
    [] phase = "slivers" -> Heads(DOMAIN order)
    [] OTHER -> {}

(* The table has run out with just enough slivers and the promise is still *)
(* pending: whether they are enough is looked at when one more arrives.    *)
Starved == phase = "slivers" /\ InFlight = {}

(* The nodes in some order, and their shards next to each other.           *)
NodeOrders == [e \in Epoch |-> SetToSeqs(Members(e))]

ShardOrders == [e \in Epoch |->
                 {FlattenSeq([i \in DOMAIN o |-> SetToSeq(ShardsOf(e, {o[i]}))]) :
                    o \in NodeOrders[e]}]

Ask(p, e, orders) ==
  /\ phase' = p /\ committee' = e /\ order' \in orders
  /\ answers' = [x \in ToSet(order') |-> Reply("none")]

Wait == UNCHANGED <<phase, attempt, staking, readCommittee, snapshot, committee, order, result>>

FailTriesAgain(err) ==
  /\ attempt' = attempt + 1 /\ phase' = "begin" /\ staking' = Unknown
  /\ snapshot' = Unknown
  /\ UNCHANGED <<result, committee, order>>

(* An error of one attempt: reset() and another one, or the end.           *)
Fail(err) ==
  /\ IF err \in Retryable /\ attempt = 1
     THEN /\ attempt' = 2 /\ phase' = "begin" /\ staking' = Unknown
          /\ UNCHANGED result
     ELSE /\ phase' = "idle" /\ result' = [at |-> phase, error |-> err]
          /\ UNCHANGED <<attempt, staking>>
  /\ snapshot' = Unknown
  /\ UNCHANGED <<committee, order>>

(* An error while the committee is chosen stays in the cached promise.     *)
FailChoice(err) == readCommittee' = Rejected(err) /\ Fail(err)

FailRead(err) == UNCHANGED readCommittee /\ Fail(err)

DeniedError(a) == IF Weight(With(a, {"notFound"})) > Weight(With(a, {"blocked"}))
                  THEN "BlobNotCertified" ELSE "BlobBlocked"
-----------------------------------------------------------------------------
StartRead ==
  /\ phase = "idle" /\ reads < MaxReads
  /\ reads' = reads + 1 /\ phase' = "begin" /\ attempt' = 1
  /\ result' = [at |-> "none", error |-> ""]
  /\ UNCHANGED <<chainVars, staking, readCommittee, snapshot, asked, resets>>

GetReadCommittee ==
  /\ phase = "begin"
  /\ \/ /\ readCommittee.kind = "unset"
        /\ phase' = "choose"
        /\ UNCHANGED <<attempt, staking, readCommittee, snapshot, asked, result>>
     \/ /\ readCommittee.kind = "rejected"
        /\ FailRead(readCommittee.error) /\ UNCHANGED answers
     \/ /\ readCommittee.kind = "committee"
        /\ Ask("metadata", readCommittee.epoch, NodeOrders[readCommittee.epoch])
        /\ UNCHANGED <<attempt, staking, readCommittee, snapshot, result>>
  /\ UNCHANGED <<chainVars, reads, resets>>

ForceGetReadCommittee ==
  /\ phase = "choose"
  /\ snapshot' = Staking /\ staking' = Staking /\ phase' = "certify"
  /\ UNCHANGED <<chainVars, readCommittee, attempt, asked, result, reads, resets>>

(* The certification epoch is known: the committee is chosen and asked.    *)
Choose(certificationEpoch) ==
  LET e == IF snapshot.sync /\ certificationEpoch < snapshot.epoch
           THEN snapshot.epoch - 1 ELSE Staking.epoch
  IN  /\ readCommittee' = Resolved(e) /\ staking' = Staking
      /\ Ask("metadata", e, NodeOrders[e])
      /\ snapshot' = Unknown /\ UNCHANGED <<attempt, result>>

GetCertificationEpoch ==
  /\ phase = "certify"
  /\ \/ /\ Staking.sync
        /\ Ask("status", Staking.epoch, {SetToSeq(Members(Staking.epoch))})
        /\ staking' = Staking
        /\ UNCHANGED <<attempt, readCommittee, snapshot, result>>
     \/ ~Staking.sync /\ Choose(Staking.epoch)
  /\ UNCHANGED <<chainVars, reads, resets>>

(* The latest of the statuses that enough weight has reported: which of    *)
(* two that rank equal depends on the order they came in.                  *)
Verified ==
  LET Verifiable == {st \in Status :
                       IsAboveValidity(Weight({x \in Targets : answers[x] = st}), n)}
  IN  {st \in Verifiable : \A other \in Verifiable :
         LifecycleRank(other.tag) <= LifecycleRank(st.tag)}

StatusFound(st) ==
  \/ st.tag # "certified" /\ FailChoice("BlobNotCertified") /\ UNCHANGED answers
  \/ /\ st.tag = "certified" /\ st.epoch > committee
     /\ FailChoice("BehindCurrentEpoch") /\ UNCHANGED answers
  \/ /\ st.tag = "certified" /\ st.epoch <= committee
     /\ Choose(st.epoch) \/ (FailChoice("RequestFailed") /\ UNCHANGED answers)

(* A request to the chain fails: for the system or staking state where it  *)
(* is not cached, or for the nodes of a committee, here and in StatusFound.*)
ChainRequestFails ==
  /\ \/ phase = "begin" /\ staking = Unknown /\ FailRead("RequestFailed")
     \/ phase = "choose" /\ staking = Unknown /\ FailChoice("RequestFailed")
     \/ phase = "certify" /\ FailChoice("RequestFailed")
  /\ UNCHANGED <<chainVars, answers, reads, resets>>

(* One more answer of getVerifiedBlobStatus.  A status that comes when the *)
(* others are a quorum ends the read and is not counted itself.            *)
StatusAnswer(x, reply) ==
  LET enough == IsQuorum(Weight(With(answers, StatusTag)), n)
      now == [answers EXCEPT ![x] = reply]
      denied == IsQuorum(Weight(With(now, {"notFound"})), n)
  IN  \/ /\ reply.tag \in StatusTag /\ enough
         /\ \/ \E st \in Verified : StatusFound(st)
            \/ Verified = {} /\ FailChoice("NoVerifiedBlobStatus") /\ UNCHANGED answers
      \/ /\ ~(reply.tag \in StatusTag /\ enough)
         /\ answers' = now
         /\ IF denied THEN FailChoice("BlobNotCertified")
            ELSE IF Unanswered = {x} THEN FailChoice("NoBlobStatusReceived")
            ELSE Wait

(* The chunks of the other nodes cannot be made if their size is 0; of no  *)
(* nodes no chunk is made, and nothing settles the promise any more.       *)
ChunksFail == ChunkSize = 0 /\ Len(order) > 1

MetadataAnswer(x, reply) ==
  LET now == [answers EXCEPT ![x] = reply]
      errors == Cardinality(With(now, FailedTag))
  IN  \/ /\ reply.tag = "ok"
         /\ Ask("slivers", readCommittee.epoch, ShardOrders[readCommittee.epoch])
         /\ UNCHANGED <<attempt, staking, readCommittee, snapshot, result>>
      \/ /\ reply.tag # "ok" /\ answers' = now
         /\ IF x = order[1]
            THEN IF ChunksFail THEN FailRead("RangeError") ELSE Wait
            ELSE IF IsQuorum(Denied(now), n) THEN FailRead(DeniedError(now))
            ELSE IF errors = Len(order) - 1 THEN FailRead("NoBlobMetadata")
            ELSE Wait

(* The rows after x in its column that are passed over at once, because    *)
(* their node has failed before.                                           *)
PassedOver(a, x) ==
  LET i == CHOOSE j \in DOMAIN order : order[j] = x
      failedNodes == {NodeOf(y) : y \in With(a, FailedTag)}
  IN  {order[j] : j \in {k \in DOMAIN order : /\ k > i /\ Lane(k) = Lane(i)
         /\ \A m \in (i + 1)..k : Lane(m) = Lane(i) => NodeOf(order[m]) \in failedNodes}}

(* The slivers are decoded and the blob id is computed again.              *)
Decoded ==
  \/ /\ phase' = "idle" /\ result' = [at |-> phase, error |-> ""]
     /\ UNCHANGED <<attempt, staking, readCommittee, snapshot, committee, order>>
  \/ /\ \E x \in With(answers, {"ok"}) : NodeOf(x) \in Faulty
     /\ FailRead("InconsistentBlob")

SliverAnswer(x, reply) ==
  LET now == [answers EXCEPT ![x] = reply]
      passed == [y \in Targets |-> IF y \in PassedOver(now, x) THEN Reply("skipped") ELSE now[y]]
      enough == reply.tag = "ok" /\ Cardinality(With(answers, {"ok"})) = MinSymbols(n)
  IN  \/ enough /\ Decoded /\ UNCHANGED answers
      \/ ~enough /\ IsQuorum(Denied(now), n) /\ answers' = now /\ FailRead(DeniedError(now))
      \/ /\ ~enough /\ ~IsQuorum(Denied(now), n) /\ answers' = passed
         /\ IF n - Cardinality(With(passed, FailedTag)) < MinSymbols(n)
            THEN FailRead("NotEnoughSlivers") ELSE Wait

(* What a node may answer: a faulty one anything, the others what they     *)
(* know, which may be late, and what they hold, or nothing in time.        *)
KnownStatus == {Reply("registered")} \cup
               {Certified(e) : e \in {certified} \cap 0..chain.epoch}

Replies(x) ==
  CASE phase = "status" -> Failure \cup (IF x \in Faulty THEN Status ELSE KnownStatus)
    [] phase # "status" /\ NodeOf(x) \in Faulty -> Failure \cup {Reply("ok")}
    [] phase # "status" /\ NodeOf(x) \notin Faulty ->
         {Reply("ok"), Reply("other")}
           \cup (IF committee = Holder(chain) THEN {} ELSE {Reply("notFound")})

Answer(x) ==
  /\ x \in InFlight
  /\ \E reply \in Replies(x) :
       CASE phase = "status" -> StatusAnswer(x, reply)
         [] phase = "metadata" -> MetadataAnswer(x, reply)
         [] phase = "slivers" -> SliverAnswer(x, reply)
  /\ UNCHANGED <<chainVars, reads, resets>>

(* The caller's signal, which only requests under way or to come look at.  *)
(* The first request for metadata is followed by the chunks all the same,  *)
(* where the error of the abort comes up again if there is one.            *)
UserAbort ==
  /\ InFlight # {}
  /\ LET first == phase = "metadata" /\ order[1] \in InFlight
     IN  IF first /\ Len(order) = 1
         THEN answers' = [answers EXCEPT ![order[1]] = Reply("other")] /\ Wait
         ELSE /\ \/ phase = "status" /\ FailChoice("UserAbort")
                 \/ /\ phase # "status"
                    /\ FailRead(IF first /\ ChunksFail THEN "RangeError" ELSE "UserAbort")
              /\ UNCHANGED answers
  /\ UNCHANGED <<chainVars, reads, resets>>

ResetAll ==
  /\ resets < MaxResets /\ staking # Unknown
  /\ staking' = Unknown /\ readCommittee' = Unset /\ resets' = resets + 1
  /\ UNCHANGED <<chainVars, phase, attempt, snapshot, asked, result, reads>>

Reset ==
  /\ resets < MaxResets /\ staking # Unknown
  /\ staking' = Unknown /\ resets' = resets + 1
  /\ UNCHANGED <<chainVars, readCommittee, phase, attempt, snapshot, asked, result, reads>>

EpochChange ==
  /\ \/ chain.sync /\ chain' = [chain EXCEPT !.sync = FALSE]
     \/ /\ ~chain.sync /\ chain.epoch < MaxEpoch
        /\ chain' = [epoch |-> chain.epoch + 1, sync |-> TRUE]
  /\ UNCHANGED <<certified, staking, readCommittee, phase, attempt, snapshot, asked, result,
                 reads, resets>>

Step == \/ GetReadCommittee \/ ForceGetReadCommittee \/ GetCertificationEpoch
        \/ ChainRequestFails
        \/ \E x \in Node \cup Shard : Answer(x)

Next == StartRead \/ Step \/ UserAbort \/ Reset \/ EpochChange

Spec == Init /\ [][Next]_vars

(* Every request ends: by an answer or by the timeout of the node client.  *)
FairSpec == Spec /\ WF_vars(Step)
-----------------------------------------------------------------------------
TypeOK ==
  /\ chain \in [epoch : Epoch, sync : BOOLEAN] /\ certified \in Epoch
  /\ {staking, snapshot} \subseteq [epoch : Epoch, sync : BOOLEAN] \cup {Unknown}
  /\ readCommittee \in {Unset} \cup {Resolved(e) : e \in Epoch} \cup {Rejected(e) : e \in Error}
  /\ phase \in Phase /\ attempt \in 0..2
  /\ committee \in Epoch
  /\ order \in Seq(Members(committee)) \cup Seq(Shard)
  /\ answers \in [Targets -> [tag : Tag, epoch : Epoch]]
  /\ result \in [at : Phase \cup {"none"}, error : Error \cup {""}]
  /\ reads \in 0..MaxReads /\ resets \in 0..MaxResets

(* A read that ends with BlobNotCertified or BlobBlocked while it asks for *)
(* metadata or slivers has it from more nodes than may be faulty: nodes    *)
(* of more than f shards (f slivers) that tell what they know have said    *)
(* so, whatever the order of answers and however slivers are passed over.  *)
DenialHasWitness ==
  result.at \in {"metadata", "slivers"} /\ result.error \in {"BlobNotCertified", "BlobBlocked"} =>
    IsAboveValidity(Weight({x \in With(answers, {"notFound", "blocked"}) :
                              NodeOf(x) \notin Faulty}), n)

(* The committee that is chosen is the one that holds the blob as of the   *)
(* staking state that was read, by what the nodes say of its certification *)
(* (the comment on #getReadCommittee): faulty and late nodes cannot steer  *)
(* the choice.  A reset in the middle of it cannot either, unless the      *)
(* epoch has moved on as well, so that the staking state that is read anew *)
(* is another one.                                                         *)
ServedByHolders ==
  [][readCommittee' # readCommittee /\ readCommittee'.kind = "committee" /\ Staking = snapshot
       => readCommittee'.epoch = Holder(snapshot)]_vars

(* Slivers are decoded against metadata of the same committee, although    *)
(* the epoch may change and the client be reset between the two requests.  *)
OneCommittee ==
  [][phase = "metadata" /\ phase' = "slivers" => committee' = committee]_vars

(* A read ends, with the blob or an error, unless it starves; then it has  *)
(* exactly the slivers that decoding takes.                                *)
Settles ==
  phase # "idle" ~> \/ phase = "idle"
                    \/ Starved /\ Cardinality(With(answers, {"ok"})) = MinSymbols(n)

(* README of the package: data of the client that an epoch change has made *)
(* invalid is reset before the read is repeated.  So the second attempt of *)
(* readBlob finds no committee or error from before, unless that committee *)
(* is the one that holds the blob now.                                     *)
RetryStartsAfresh ==
  [][attempt = 1 /\ attempt' = 2
       => readCommittee'.kind = "unset" \/ readCommittee' = Resolved(Holder(chain))]_vars
=============================================================================
