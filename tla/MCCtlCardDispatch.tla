------------------------- MODULE MCCtlCardDispatch -------------------------
(* Instances of CtlCardDispatch for TLC; see MCCtlCardDispatch*.cfg.       *)
EXTENDS CtlCardDispatch
============================================================================
