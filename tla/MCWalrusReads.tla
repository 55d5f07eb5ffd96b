---------------------------- MODULE MCWalrusReads ----------------------------
(* Four shards, of which one may be on a faulty node, c, and is.  When      *)
(* epoch 2 begins two of a's shards move; the committee before is too small *)
(* for the concurrency limit.                                               *)
EXTENDS WalrusReads

CONSTANTS a, b, c, d

Nodes == {a, b, c, d}

Shards == {"s1", "s2", "s3", "s4"}

Owners == [e \in 0..2 |-> [s \in Shards |->
             CASE s = "s1" -> a
               [] s = "s2" -> IF e = 2 THEN b ELSE a
               [] s = "s3" -> IF e = 2 THEN d ELSE a
               [] s = "s4" -> c]]

EarlyOrLate == {0, 2}

FaultyNodes == {c}
=============================================================================
