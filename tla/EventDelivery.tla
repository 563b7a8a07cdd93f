--------------------------- MODULE EventDelivery ---------------------------
(***************************************************************************)
(* What a source of card events promises: the events that the kernel       *)
(* queues for the card reach the handlers of the signal once each, in the  *)
(* order in which they occurred, and all of them while the card is there.  *)
(***************************************************************************)
EXTENDS Naturals, Sequences

CONSTANT MaxEvents     \* bound on the events that occur

VARIABLES posted,      \* events that occurred, numbered 1..posted
          emitted,     \* events handed to the handlers, in order
          connected

vars == <<posted, emitted, connected>>

Init == posted = 0 /\ emitted = <<>> /\ connected = TRUE

Post ==
    /\ connected /\ posted < MaxEvents
    /\ posted' = posted + 1
    /\ UNCHANGED <<emitted, connected>>

Emit ==
    /\ Len(emitted) < posted
    /\ emitted' = Append(emitted, Len(emitted) + 1)
    /\ UNCHANGED <<posted, connected>>

Disconnect ==
    /\ connected
    /\ connected' = FALSE
    /\ UNCHANGED <<posted, emitted>>

Next == Post \/ Emit \/ Disconnect

Spec == Init /\ [][Next]_vars /\ WF_vars(connected /\ Emit)
============================================================================
