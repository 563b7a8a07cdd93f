----------------------------- MODULE MCSeqEvent -----------------------------
(* Instances of SeqEvent for TLC; see the MCSeqEvent*.cfg files.           *)
EXTENDS SeqEvent, TLC

\* Neither places for events nor heap blocks are told apart.
Symmetry == Permutations(Events) \cup Permutations(Blocks)
=============================================================================
