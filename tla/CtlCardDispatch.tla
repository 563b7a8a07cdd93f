-------------------------- MODULE CtlCardDispatch --------------------------
(***************************************************************************)
(* The event path of ALSACtlCard (src/ctl/card.c): the check and dispatch  *)
(* functions of the GSources of one open card, attached to one main        *)
(* context, from the kernel's event queue to the handlers of the signals.  *)
(*                                                                         *)
(* Every source reads the descriptor of the card into a page of its own.   *)
(* g_source_set_can_recurse(TRUE) lets a handler iterate the context       *)
(* again, which dispatches the source whose events the outer loop is still *)
(* walking through.  An iteration is a frame of a stack; the innermost     *)
(* one runs.                                                               *)
(*                                                                         *)
(* External: the main context (what it polls and when it calls check and   *)
(* dispatch) and the kernel's queue.  An event is its number in the order  *)
(* of occurrence: its id and mask are handed through.  The descriptor      *)
(* stays valid (see CtlCard for its life).                                 *)
(***************************************************************************)
EXTENDS Naturals, Sequences, FiniteSets

CONSTANTS Sources,     \* sources attached to the context
          NoSource,    \* not one of them
          BufEvents,   \* events a page holds: buf_len / sizeof(*ev)
          MaxEvents,   \* bound on the events that occur
          MaxDepth     \* bound on nested iterations

ASSUME DispatchAssumption ==
    /\ IsFiniteSet(Sources) /\ NoSource \notin Sources
    /\ BufEvents \in Nat \ {0} /\ MaxEvents \in Nat /\ MaxDepth \in Nat \ {0}

VARIABLES nonblock,    \* was the card opened with O_NONBLOCK?
          iterates,    \* do handlers iterate the context?
          posted,      \* events that occurred so far
          kqueue,      \* the kernel's queue of events
          connected,   \* the sound card is still there
          attached,    \* sources the context polls
          revents,     \* conditions of each source in the last poll
          buf,         \* src->buf: the events in its page
          stack,       \* iterations of the context, the innermost last
          emitted,     \* events of handle-elem-event, in order
          announced    \* sources that emitted handle-disconnection

vars == <<nonblock, iterates, posted, kqueue, connected, attached, revents, buf, stack,
          emitted, announced>>
kernelVars == <<nonblock, iterates, posted, kqueue, connected>>

(***************************************************************************)
(* A frame: the sources still to dispatch in the iteration, the one being  *)
(* dispatched and where: "ready" before the call, "read" before read(2),   *)
(* "walk" in the loop over the events (at: index of the next one, left:    *)
(* how many are left), "bye" in the handlers of handle-disconnection.      *)
(***************************************************************************)
Frame == [todo : SUBSET Sources, s : Sources \cup {NoSource},
          pc : {"ready", "read", "walk", "bye"},
          at : 1..BufEvents + 1, left : 0..BufEvents]

NewFrame(S) == [todo |-> S, s |-> NoSource, pc |-> "ready", at |-> 1, left |-> 0]
Depth == Len(stack)
Top == stack[Depth]
SetTop(f) == stack' = [stack EXCEPT ![Depth] = f]
Done(f) == NewFrame(f.todo)          \* dispatch returned

\* External: poll(2) reports IN for queued events, and ERR for a card that
\* is gone, whatever is queued.
Poll == IF connected THEN (IF kqueue # <<>> THEN {"IN"} ELSE {}) ELSE {"ERR"}

\* Mutants of ctl_card_check_src: without ERR; without a look at the condition.
check_src_no_err(cond) == "IN" \in cond
check_src_always(cond) == TRUE

\* ctl_card_check_src(): go on to dispatch for IN and for ERR.
ctl_card_check_src(cond) == cond \cap {"IN", "ERR"} # {}

\* g_source_set_can_recurse(TRUE): a source is polled even while it is being
\* dispatched in an outer iteration.
Polled == attached

\* A handler of a signal is running in the innermost iteration.
InHandler == Depth > 0 /\ (Top.pc = "bye" \/ (Top.pc = "walk" /\ Top.at > 1))
----------------------------------------------------------------------------
Init ==
    /\ nonblock \in BOOLEAN
    /\ iterates \in BOOLEAN
    /\ posted = 0
    /\ kqueue = <<>>
    /\ connected = TRUE
    /\ attached \in SUBSET Sources \ {{}}
    /\ revents = [s \in Sources |-> {}]
    /\ buf = [s \in Sources |-> <<>>]
    /\ stack = <<>>
    /\ emitted = <<>>
    /\ announced = {}

\* An event occurs for an element.
Post ==
    /\ connected /\ posted < MaxEvents
    /\ posted' = posted + 1
    /\ kqueue' = Append(kqueue, posted')
    /\ UNCHANGED <<nonblock, iterates, connected, attached, revents, buf, stack, emitted,
                   announced>>

\* The card is unplugged, or its driver unbound.
Disconnect ==
    /\ connected
    /\ connected' = FALSE
    /\ UNCHANGED <<nonblock, iterates, posted, kqueue, attached, revents, buf, stack, emitted,
                   announced>>

\* One iteration of the context begins, from the main loop or from a handler.
Iterate ==
    /\ Depth = 0 \/ (iterates /\ InHandler /\ Depth < MaxDepth)
    /\ revents' = [s \in Sources |-> IF s \in Polled THEN Poll ELSE revents[s]]
    /\ LET ready == {s \in Polled : ctl_card_check_src(revents'[s])} IN
          /\ ready # {}
          /\ stack' = Append(stack, NewFrame(ready))
    /\ UNCHANGED <<kernelVars, attached, buf, emitted, announced>>

\* The last source of the iteration was dispatched.
IterationEnds ==
    /\ Depth > 0 /\ Top.pc = "ready" /\ Top.todo = {}
    /\ stack' = SubSeq(stack, 1, Depth - 1)
    /\ UNCHANGED <<kernelVars, attached, revents, buf, emitted, announced>>

(***************************************************************************)
(* ctl_card_dispatch_src() up to read(2): with ERR in the condition the    *)
(* source emits handle-disconnection, and is removed once the handlers     *)
(* returned.  A source removed meanwhile is not dispatched.                *)
(***************************************************************************)
Dispatch(s) ==
    /\ Depth > 0 /\ Top.pc = "ready" /\ s \in Top.todo
    /\ LET f == [Top EXCEPT !.todo = @ \ {s}] IN
       \/ /\ s \notin attached
          /\ SetTop(f)
          /\ UNCHANGED announced
       \/ /\ s \in attached /\ "ERR" \in revents[s]
          /\ announced' = announced \cup {s}
          /\ SetTop([f EXCEPT !.s = s, !.pc = "bye"])
       \/ /\ s \in attached /\ "ERR" \notin revents[s]
          /\ SetTop([f EXCEPT !.s = s, !.pc = "read"])
          /\ UNCHANGED announced
    /\ UNCHANGED <<kernelVars, attached, revents, buf, emitted>>

\* dispatch returns G_SOURCE_REMOVE, after handle-disconnection.
RemoveAnnounced ==
    /\ Depth > 0 /\ Top.pc = "bye"
    /\ attached' = attached \ {Top.s}
    /\ SetTop(Done(Top))
    /\ UNCHANGED <<kernelVars, revents, buf, emitted, announced>>

\* As many queued events as the page has room for.
ReadCount == IF Len(kqueue) < BufEvents THEN Len(kqueue) ELSE BufEvents

(***************************************************************************)
(* read(2) of ctl_card_dispatch_src().  Queued events fill the page from   *)
(* its start, what was behind them stays.  Without any the call answers    *)
(* EAGAIN, or waits in the blocking mode.  It fails when the card is gone, *)
(* and dispatch then removes the source.                                   *)
(***************************************************************************)
Read ==
    /\ Depth > 0 /\ Top.pc = "read"
    /\ \/ /\ connected /\ kqueue # <<>>
          /\ LET n == ReadCount
                 old == buf[Top.s] IN
             /\ buf' = [buf EXCEPT ![Top.s] =
                           SubSeq(kqueue, 1, n) \o SubSeq(old, n + 1, Len(old))]
             /\ kqueue' = SubSeq(kqueue, n + 1, Len(kqueue))
             /\ SetTop([Top EXCEPT !.pc = "walk", !.left = n])
          /\ UNCHANGED attached
       \/ /\ connected /\ kqueue = <<>> /\ nonblock
          /\ SetTop(Done(Top))
          /\ UNCHANGED <<kqueue, buf, attached>>
       \/ /\ ~connected
          /\ attached' = attached \ {Top.s}
          /\ SetTop(Done(Top))
          /\ UNCHANGED <<kqueue, buf>>
    /\ UNCHANGED <<nonblock, iterates, posted, connected, revents, emitted, announced>>

\* Mutant of MoreEvents: len > sizeof(*ev).
MoreEventsStrict(f) == f.left > 1

\* The condition of the loop: len >= sizeof(*ev).
MoreEvents(f) == f.left > 0

\* One turn of the loop over the events: handle_elem_event() emits the signal
\* for the event that the page holds now at the position of the loop.
EmitEvent ==
    /\ Depth > 0 /\ Top.pc = "walk" /\ MoreEvents(Top)
    /\ emitted' = Append(emitted, buf[Top.s][Top.at])
    /\ SetTop([Top EXCEPT !.at = @ + 1, !.left = @ - 1])
    /\ UNCHANGED <<kernelVars, attached, revents, buf, announced>>

\* The end of the loop: dispatch returns G_SOURCE_CONTINUE.
DispatchContinues ==
    /\ Depth > 0 /\ Top.pc = "walk" /\ ~MoreEvents(Top)
    /\ SetTop(Done(Top))
    /\ UNCHANGED <<kernelVars, attached, revents, buf, emitted, announced>>

\* What the thread of the main loop does next, unless a handler iterates.
Step ==
    \/ IterationEnds
    \/ \E s \in Sources : Dispatch(s)
    \/ RemoveAnnounced
    \/ Read
    \/ EmitEvent
    \/ DispatchContinues

Next == Post \/ Disconnect \/ Iterate \/ Step

\* The application runs its main loop, and its handlers return.
Spec == Init /\ [][Next]_vars /\ WF_vars(Step) /\ WF_vars(Depth = 0 /\ Iterate)
----------------------------------------------------------------------------
(***************************************************************************)
(* The card promises what EventDelivery says, with as many sources as one  *)
(* likes on its one descriptor, and so long as handlers do not iterate     *)
(* the context.                                                            *)
(***************************************************************************)
Delivery == INSTANCE EventDelivery WITH
    MaxEvents <- MaxEvents,
    posted <- IF iterates THEN 0 ELSE posted,
    emitted <- IF iterates THEN <<>> ELSE emitted,
    connected <- connected \/ iterates
DeliversEvents == Delivery!Spec

(***************************************************************************)
(* "Emitted when event occurs for any element" (signal handle-elem-event): *)
(* when the loop is idle and the queue empty, there was a signal for every *)
(* event that occurred.  A handler that iterates the context lets a nested *)
(* dispatch overwrite the page its outer loop walks through, so that the   *)
(* signals may then repeat one event and miss another.                     *)
(***************************************************************************)
EveryEventEmitted ==
    (connected /\ Depth = 0 /\ kqueue = <<>>) =>
        /\ Len(emitted) = posted
        /\ \A n \in 1..posted : iterates \/ \E i \in 1..Len(emitted) : emitted[i] = n

(***************************************************************************)
(* A dispatch waits in read(2), and the main loop with it, only on a       *)
(* blocking descriptor that several sources read: poll(2) promised an      *)
(* event, which another source took.                                       *)
(***************************************************************************)
NeverWaits ==
    (Depth > 0 /\ Top.pc = "read" /\ connected /\ kqueue = <<>> /\ ~nonblock) =>
        Cardinality(attached) > 1

\* No source outlives the card: each one is removed after a disconnection,
\* also when a dispatch is under way or waits in read(2).
EventuallyRemoved == ~connected ~> attached = {}
============================================================================
