------------------------- MODULE MCRawmidiStreamPair -------------------------
(* An instance of RawmidiStreamPair for TLC; see MCRawmidiStreamPair.cfg.   *)
EXTENDS RawmidiStreamPair
=============================================================================
