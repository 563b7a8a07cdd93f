----------------------------- MODULE MCCtlCard -----------------------------
(* Instances of CtlCard for TLC; see the MCCtlCard*.cfg files.             *)
EXTENDS CtlCard
============================================================================
