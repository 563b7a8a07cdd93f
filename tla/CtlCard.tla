------------------------------ MODULE CtlCard ------------------------------
(***************************************************************************)
(* ALSACtlCard (src/ctl/card.c): the life of one card object, of the file  *)
(* descriptor and the devnode string it owns, and of the GSources created  *)
(* from it, as seen by several threads.                                    *)
(*                                                                         *)
(* A thread is inside at most one call.  The calls are cut where another   *)
(* thread can see the difference: between open(2) and the PVERSION ioctl,  *)
(* between the atomic update of priv->subscribers and the                  *)
(* SUBSCRIBE_EVENTS ioctl that goes with it, and before the last           *)
(* g_object_unref() of a source.  The kernel side of a descriptor is       *)
(* external: whether it is open, and whether events are subscribed on it.  *)
(*                                                                         *)
(* A file descriptor, and the devnode string that open() allocates with    *)
(* it, are both named by the number of the call that made them.            *)
(***************************************************************************)
EXTENDS Naturals, FiniteSets

CONSTANTS Threads,     \* threads of the application, the main loops included
          Sources,     \* GSources that may be created
          NoSource,    \* not one of them
          MaxOpens,    \* bound on the calls of alsactl_card_open()
          ReopenOpened \* does the application open a card that is open?

ASSUME ConstantsAssumption ==
    /\ IsFiniteSet(Sources)
    /\ NoSource \notin Sources
    /\ MaxOpens \in Nat
    /\ ReopenOpened \in BOOLEAN

VARIABLES fd,          \* priv->fd
          devnode,     \* priv->devnode
          subscribers, \* priv->subscribers, a g_atomic_int
          ref,         \* reference count of the object
          owned,       \* does the application still hold its reference?
          src,         \* state of each source
          pc,          \* the call each thread is in, and how far
          on,          \* the source that call works on
          opens,       \* calls of open(2) so far
          kopen,       \* descriptors the kernel has open
          ksub,        \* descriptors with events subscribed
          heap,        \* devnode strings that are allocated
          connected    \* the sound card is still there

privVars == <<fd, devnode, subscribers, ref, owned>>
kernelVars == <<kopen, ksub, connected>>
vars == <<fd, devnode, subscribers, ref, owned, src, pc, on, opens, kopen,
          ksub, heap, connected>>

Fds == 1..MaxOpens
NoFd == 0       \* -1 in the code, for priv->fd; NULL, for priv->devnode

(***************************************************************************)
(* A source is "live" from the increment of priv->subscribers that goes    *)
(* with it to the decrement, "finalizing" from there to the g_object_unref *)
(* at the end of ctl_card_finalize_src(), and then "gone".                 *)
(***************************************************************************)
SrcStates == {"none", "live", "finalizing", "gone"}
CallStates == {"idle", "pversion", "subscribe", "finalize", "unsubscribe",
               "unref"}

Live == {s \in Sources : src[s] = "live"}
Held == {s \in Sources : src[s] \in {"live", "finalizing"}}

\* Thread t goes to a place in a call that works on s; returns from its call.
Goto(t, place, s) == /\ pc' = [pc EXCEPT ![t] = place]
                     /\ on' = [on EXCEPT ![t] = s]
Return(t) == Goto(t, "idle", NoSource)

\* The application calls a method, which takes a reference it holds.
Calls(t) == pc[t] = "idle" /\ owned

\* Is a thread inside open() or create_source()?  While it is, the caller
\* keeps its reference; nothing else is called before open() returned.
Opening == \E t \in Threads : pc[t] = "pversion"
Creating == \E t \in Threads : pc[t] = "subscribe"

\* A thread is creating or finalizing source s.
InHand(s) == \E t \in Threads : on[t] = s

----------------------------------------------------------------------------
\* alsactl_card_new(): the descriptor is -1 until open().
Init ==
    /\ fd = NoFd
    /\ devnode = NoFd
    /\ subscribers = 0
    /\ ref = 1
    /\ owned = TRUE
    /\ src = [s \in Sources |-> "none"]
    /\ pc = [t \in Threads |-> "idle"]
    /\ on = [t \in Threads |-> NoSource]
    /\ opens = 0
    /\ kopen = {}
    /\ ksub = {}
    /\ heap = {}
    /\ connected = TRUE

(***************************************************************************)
(* alsactl_card_open(): the lookup of the devnode may fail, and nothing    *)
(* changes; else open(2) overwrites priv->fd whatever it held.  When it    *)
(* fails priv->fd is left negative and the devnode string that the call    *)
(* allocated is freed.                                                     *)
(***************************************************************************)
OpenDevice(t) ==
    LET n == opens + 1 IN
    /\ Calls(t) /\ ~Opening
    /\ opens < MaxOpens
    /\ ReopenOpened \/ fd = NoFd
    /\ opens' = n
    /\ \/ /\ connected
          /\ fd' = n
          /\ kopen' = kopen \cup {n}
          /\ heap' = heap \cup {n}
          /\ Goto(t, "pversion", NoSource)
       \/ /\ fd' \in {fd, NoFd}     \* the lookup failed, or open(2) did
          /\ UNCHANGED <<kopen, heap, pc, on>>
    /\ UNCHANGED <<devnode, subscribers, ref, owned, src, ksub, connected>>

\* Mutant of OpenFailed: returns without closing the descriptor.
OpenFailedNoClose ==
    /\ fd' = NoFd
    /\ heap' = heap \ {fd}
    /\ UNCHANGED kopen

\* close(priv->fd); priv->fd = -1; g_free(devnode).
OpenFailed ==
    /\ kopen' = kopen \ {fd}
    /\ fd' = NoFd
    /\ heap' = heap \ {fd}

(***************************************************************************)
(* The PVERSION ioctl of alsactl_card_open().  On success the devnode      *)
(* replaces the one priv held.  On failure the descriptor is closed and    *)
(* the new devnode freed; priv->devnode is not touched.                    *)
(***************************************************************************)
OpenVersion(t) ==
    /\ pc[t] = "pversion"
    /\ \/ /\ connected
          /\ devnode' = fd
          /\ UNCHANGED <<fd, kopen, heap>>
       \/ OpenFailed /\ UNCHANGED devnode
    /\ ksub' = ksub \cap kopen'
    /\ Return(t)
    /\ UNCHANGED <<subscribers, ref, owned, src, opens, connected>>

\* Mutant of TakeRef: src->self = self.
TakeNoRef == UNCHANGED ref

\* src->self = g_object_ref(self).
TakeRef == ref' = ref + 1

(***************************************************************************)
(* alsactl_card_create_source(), up to the increment of priv->subscribers: *)
(* the source takes a reference of the card.                               *)
(***************************************************************************)
CreateSource(t, s) ==
    /\ Calls(t) /\ ~Opening
    /\ fd # NoFd
    /\ src[s] = "none"
    /\ TakeRef
    /\ subscribers' = subscribers + 1
    /\ src' = [src EXCEPT ![s] = "live"]
    /\ Goto(t, "subscribe", s)
    /\ UNCHANGED <<fd, devnode, owned, opens, heap, kernelVars>>

(***************************************************************************)
(* The SUBSCRIBE_EVENTS ioctl of create_source().  It fails when the card  *)
(* is gone or for want of a descriptor; g_source_unref() then drops the    *)
(* last reference of the source, whose finalize runs in this thread.       *)
(***************************************************************************)
Subscribe(t) ==
    LET s == on[t] IN
    /\ pc[t] = "subscribe"
    /\ \/ /\ connected /\ fd \in kopen
          /\ ksub' = ksub \cup {fd}
          /\ Return(t)
       \/ /\ ~connected \/ fd \notin kopen
          /\ Goto(t, "finalize", s)
          /\ UNCHANGED ksub
    /\ UNCHANGED <<privVars, src, opens, heap, kopen, connected>>

(***************************************************************************)
(* The last reference of a source is dropped: by the application, or by a  *)
(* main context once dispatch answered G_SOURCE_REMOVE.                    *)
(***************************************************************************)
DropSource(t, s) ==
    /\ pc[t] = "idle"
    /\ src[s] = "live"
    /\ ~InHand(s)
    /\ Goto(t, "finalize", s)
    /\ UNCHANGED <<privVars, src, opens, heap, kernelVars>>

\* What follows g_atomic_int_dec_and_test(&priv->subscribers), which left n.
AfterDec(n) == IF n = 0 THEN "unsubscribe" ELSE "unref"

\* g_atomic_int_dec_and_test(&priv->subscribers).
DecSubscribers == subscribers' = subscribers - 1

\* ctl_card_finalize_src(), up to the test of the decremented counter.
FinalizeSource(t) ==
    LET s == on[t] IN
    /\ pc[t] = "finalize"
    /\ DecSubscribers
    /\ src' = [src EXCEPT ![s] = "finalizing"]
    /\ Goto(t, AfterDec(subscribers'), s)
    /\ UNCHANGED <<fd, devnode, ref, owned, opens, heap, kernelVars>>

\* The ioctl that unsubscribes, on the descriptor priv holds by now; what it
\* returns is ignored.
Unsubscribe(t) ==
    /\ pc[t] = "unsubscribe"
    /\ ksub' = IF connected THEN ksub \ {fd} ELSE ksub
    /\ Goto(t, "unref", on[t])
    /\ UNCHANGED <<privVars, src, opens, heap, kopen, connected>>

\* Does this g_object_unref() finalize the object?
LastRef == ref = 1

\* Mutant of Unref: ctl_card_finalize() does not close the descriptor.
UnrefNoClose ==
    /\ ref' = ref - 1
    /\ heap' = IF LastRef /\ fd # NoFd THEN heap \ {devnode} ELSE heap
    /\ UNCHANGED <<kopen, ksub, fd, devnode, subscribers, opens, connected>>

(***************************************************************************)
(* g_object_unref().  The one that drops the last reference runs           *)
(* ctl_card_finalize(): the descriptor is closed and the devnode freed,    *)
(* both only if priv->fd is valid.                                         *)
(***************************************************************************)
Unref ==
    /\ ref' = ref - 1
    /\ IF LastRef /\ fd # NoFd
       THEN /\ kopen' = kopen \ {fd}
            /\ ksub' = ksub \ {fd}
            /\ heap' = heap \ {devnode}
       ELSE UNCHANGED <<kopen, ksub, heap>>
    /\ UNCHANGED <<fd, devnode, subscribers, opens, connected>>

\* g_object_unref(src->self), the end of ctl_card_finalize_src().
UnrefFromSource(t) ==
    /\ pc[t] = "unref"
    /\ src' = [src EXCEPT ![on[t]] = "gone"]
    /\ Return(t)
    /\ Unref
    /\ UNCHANGED owned

\* The application drops its own reference, outside of any call.
UnrefFromOwner(t) ==
    /\ Calls(t) /\ ~Opening /\ ~Creating
    /\ owned' = FALSE
    /\ Unref
    /\ UNCHANGED <<src, pc, on>>

\* The card is unplugged, or its driver unbound.
Disconnect ==
    /\ connected
    /\ connected' = FALSE
    /\ UNCHANGED <<privVars, src, pc, on, opens, heap, kopen, ksub>>

\* The steps of a call that is under way.
Continue(t) ==
    \/ OpenVersion(t)
    \/ Subscribe(t)
    \/ FinalizeSource(t)
    \/ Unsubscribe(t)
    \/ UnrefFromSource(t)

Next ==
    \/ \E t \in Threads :
          \/ OpenDevice(t)
          \/ \E s \in Sources : CreateSource(t, s) \/ DropSource(t, s)
          \/ Continue(t)
          \/ UnrefFromOwner(t)
    \/ Disconnect

\* A thread inside a call goes on with it.  When the application creates
\* and drops sources is its own affair.
Fairness == \A t \in Threads : WF_vars(Continue(t))

Spec == Init /\ [][Next]_vars /\ Fairness
----------------------------------------------------------------------------
TypeOK ==
    /\ fd \in Fds \cup {NoFd}
    /\ devnode \in Fds \cup {NoFd}
    /\ subscribers \in Nat
    /\ ref \in Nat
    /\ owned \in BOOLEAN
    /\ src \in [Sources -> SrcStates]
    /\ pc \in [Threads -> CallStates]
    /\ on \in [Threads -> Sources \cup {NoSource}]
    /\ opens \in 0..MaxOpens
    /\ kopen \subseteq Fds
    /\ ksub \subseteq kopen
    /\ heap \subseteq Fds
    /\ connected \in BOOLEAN

\* No call is under way: what holds then is what the caller can rely on.
Quiet == \A t \in Threads : pc[t] = "idle"

(***************************************************************************)
(* The object is never finalized under a source that may still be          *)
(* dispatched, nor under a thread inside one of its methods or inside the  *)
(* finalize of one of its sources, which all use priv.                     *)
(***************************************************************************)
NoUseAfterFinalize ==
    /\ Live # {} => ref > 0
    /\ \A t \in Threads : pc[t] # "idle" => ref > 0

\* priv->subscribers counts the sources that are alive, in every
\* interleaving and also when create_source() fails half way.
SubscribersCounted == subscribers = Cardinality(Live)

(***************************************************************************)
(* Once the last source is finalized the kernel no longer queues events    *)
(* for the card: the ioctl that unsubscribes is never overtaken for good   *)
(* by one that subscribes.                                                 *)
(***************************************************************************)
NoStraySubscription ==
    (Quiet /\ connected /\ subscribers = 0) => ksub = {}

(***************************************************************************)
(* The "subscribed" property, which answers priv->subscribers > 0, is      *)
(* documented as "Whether to be subscribed for event.": when it is true,   *)
(* events are subscribed on the descriptor of the card.                    *)
(***************************************************************************)
SubscribedIsSubscribed ==
    (Quiet /\ connected /\ subscribers > 0) => fd \in ksub

(***************************************************************************)
(* A finalized object leaves behind neither an open descriptor nor an      *)
(* allocated devnode, whatever failed in the calls of open() before.       *)
(***************************************************************************)
NothingLeaked == ref = 0 => kopen = {} /\ heap = {}

(***************************************************************************)
(* "After the call of open for the numeric ID of sound card, the object    *)
(* maintains file descriptor till object destruction": a step that does    *)
(* not destroy the object keeps the descriptor of a successful open().     *)
(***************************************************************************)
FdMaintained ==
    [][(devnode # NoFd /\ ref' > 0) => (fd' = fd /\ fd \in kopen')]_vars

\* When the application has dropped its reference and every source, the
\* descriptor ends up closed and the devnode freed.
EventuallyReleased ==
    (~owned /\ \A s \in Live : InHand(s)) ~> (kopen = {} /\ heap = {})
============================================================================
