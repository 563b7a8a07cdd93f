--------------------------- MODULE MCCtlElemList ---------------------------
(* Instances of CtlElemList for TLC; see MCCtlElemList*.cfg.               *)
EXTENDS CtlElemList
============================================================================
