---------------------------- MODULE MCSeqRegistry ----------------------------
(* An instance of SeqRegistry for TLC; see MCSeqRegistry.cfg.              *)
EXTENDS SeqRegistry
CONSTANTS q1, q2
MCQueries == {q1, q2}
MCAsks == [q \in MCQueries |-> IF q = q1 THEN {"clients"} ELSE {"ports", "queues", "subs", "info"}]
=============================================================================
