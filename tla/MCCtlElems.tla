----------------------------- MODULE MCCtlElems -----------------------------
(* An instance of CtlElems for TLC; see MCCtlElems.cfg.                    *)
EXTENDS CtlElems, TLC
MCKernelSpec == [type |-> "INTEGER", items |-> 0, access |-> {"READ"}]
MCSpecs == {[type |-> "INTEGER", items |-> 0, access |-> {"READ", "WRITE"}],
            [type |-> "ENUMERATED", items |-> 2, access |-> {"READ", "WRITE"}]}
Symmetry == Permutations(Cards)
=============================================================================
