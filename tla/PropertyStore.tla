---- MODULE PropertyStore ----
(***************************************************************************)
(* What a data object of the libraries promises: its properties are        *)
(* independent values.  A call says which values it was given, by the user *)
(* or by the kernel; each of these is answered from then on, and no other  *)
(* property changes but those the call is documented to share storage      *)
(* with.  What the kernel is handed is what the properties say.            *)
(***************************************************************************)

VARIABLES
  store,      \* property -> value
  sent,       \* the values handed to the kernel by the last such call
  op          \* the last call: values given, properties it may disturb

\* Every property starts as what the object was constructed with, or zero.
Init == \A p \in DOMAIN store : p \in DOMAIN op.args /\ store[p] = op.args[p]

Assign ==
  /\ DOMAIN store' = DOMAIN store
  /\ \A p \in DOMAIN store :
       /\ p \in DOMAIN op'.args => store'[p] = op'.args[p]
       /\ p \notin DOMAIN op'.args /\ p \notin op'.disturbs => store'[p] = store[p]

Set == Assign /\ ~op'.sends /\ sent' = sent

Send == Assign /\ op'.sends /\ sent' = <<store'>>

Spec == Init /\ [][Set \/ Send]_<<store, sent, op>>
====
