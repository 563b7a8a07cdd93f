-------------------------- MODULE MCSeqUserClient --------------------------
(* Instances of SeqUserClient for TLC; see the MCSeqUserClient*.cfg files. *)
EXTENDS SeqUserClient
=============================================================================
