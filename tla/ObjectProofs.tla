---------------------------- MODULE ObjectProofs ----------------------------
(***************************************************************************)
(* Proofs about the life of objects: ALSACtlCard with its sources and      *)
(* threads, and the data objects with what they keep in their structures.  *)
(***************************************************************************)
EXTENDS CtlCard, DataObjects, FiniteSetTheorems, TLAPS

(***************************************************************************)
(* CtlCard, for any set of threads, any finite set of sources and any number *)
(* of calls of open().                                                     *)
(***************************************************************************)

\* Each live or finalizing source holds one reference, the owner another.
RefsCounted == ref = Cardinality(Held) + (IF owned THEN 1 ELSE 0)

\* A source that is being created or finalized is in the hands of one thread,
\* in the state that the place of that thread tells.
PlacesOK ==
    /\ \A t \in Threads :
          /\ pc[t] \in {"idle", "pversion"} <=> on[t] = NoSource
          /\ pc[t] \in {"subscribe", "finalize"} => src[on[t]] = "live"
          /\ pc[t] \in {"unsubscribe", "unref"} => src[on[t]] = "finalizing"
          /\ pc[t] \in {"pversion", "subscribe"} => owned
    /\ \A t, u \in Threads : on[t] = on[u] /\ on[t] # NoSource => t = u

(***************************************************************************)
(* What holds besides when no card is opened twice: a live object owns     *)
(* exactly the descriptor and the string of its one successful open(); a   *)
(* subscription has a subscriber, or a thread about to remove it.          *)
(***************************************************************************)
OnceInv ==
    /\ heap = kopen
    /\ kopen = IF ref > 0 THEN {fd} \ {NoFd} ELSE {}
    /\ ~Opening => devnode = fd
    /\ Opening => devnode = NoFd /\ fd # NoFd
    /\ \A t, u \in Threads : pc[t] = "pversion" /\ pc[u] = "pversion" => t = u
    /\ Live # {} => devnode # NoFd
    /\ (connected /\ ksub # {}) =>
          subscribers > 0 \/ \E t \in Threads : pc[t] = "unsubscribe"

(***************************************************************************)
(* What holds besides in a program with one thread: nothing comes between  *)
(* the decrement to zero and the ioctl that unsubscribes, so that every    *)
(* source whose creation is over finds the events subscribed.              *)
(***************************************************************************)
SerialInv ==
    /\ \A t \in Threads : pc[t] = "unsubscribe" => subscribers = 0
    /\ connected => \A s \in Live :
          fd \in ksub \/ \E t \in Threads : pc[t] = "subscribe" /\ on[t] = s

OpenedOnce == ~ReopenOpened
OneThread == \A t, u \in Threads : t = u

\* The inductive invariant that needs no assumption on the application.
CoreInv == TypeOK /\ SubscribersCounted /\ RefsCounted /\ PlacesOK
----------------------------------------------------------------------------
\* How the sets of sources that are counted change with one source's state.
LEMMA LiveHeldFinite ==
    ASSUME ConstantsAssumption
    PROVE  /\ IsFiniteSet(Live) /\ IsFiniteSet(Held)
           /\ Cardinality(Live) \in Nat /\ Cardinality(Held) \in Nat
           /\ (Cardinality(Live) = 0 <=> Live = {})
           /\ (Cardinality(Held) = 0 <=> Held = {})
<1>1. Live \subseteq Sources /\ Held \subseteq Sources
  BY DEF Live, Held
<1>2. IsFiniteSet(Live) /\ IsFiniteSet(Held)
  BY <1>1, ConstantsAssumption, FS_Subset DEF ConstantsAssumption
<1> QED
  BY <1>2, FS_CardinalityType, FS_EmptySet

LEMMA InitCore == Init => CoreInv
<1> SUFFICES ASSUME Init PROVE CoreInv
  OBVIOUS
<1> USE DEF Init
<1>1. TypeOK
  BY ConstantsAssumption DEF ConstantsAssumption, TypeOK, Fds, NoFd, SrcStates, CallStates
<1>2. Live = {} /\ Held = {}
  BY DEF Live, Held
<1>3. SubscribersCounted /\ RefsCounted
  BY <1>2, FS_EmptySet DEF SubscribersCounted, RefsCounted
<1>4. PlacesOK
  BY DEF PlacesOK
<1> QED
  BY <1>1, <1>3, <1>4 DEF CoreInv

----------------------------------------------------------------------------
LEMMA TypeInductive == CoreInv /\ [Next]_vars => TypeOK'
<1> SUFFICES ASSUME CoreInv, [Next]_vars PROVE TypeOK'
  OBVIOUS
<1> USE ConstantsAssumption
    DEF ConstantsAssumption, CoreInv, TypeOK, Fds, NoFd, SrcStates, CallStates,
        privVars, kernelVars, Goto, Return
<1>0. CASE UNCHANGED vars
  BY <1>0 DEF vars
<1>1. ASSUME NEW t \in Threads, OpenDevice(t) PROVE TypeOK'
  <2>1. opens + 1 \in Fds /\ opens' = opens + 1
    BY <1>1 DEF OpenDevice
  <2>2. pc' \in [Threads -> CallStates] /\ on' \in [Threads -> Sources \cup {NoSource}]
    BY <1>1 DEF OpenDevice
  <2>3. fd' \in Fds \cup {NoFd} /\ kopen \subseteq kopen' /\ kopen' \subseteq Fds
        /\ heap' \subseteq Fds
    BY <1>1, <2>1 DEF OpenDevice
  <2> QED
    BY <1>1, <2>1, <2>2, <2>3 DEF OpenDevice
<1>2. ASSUME NEW t \in Threads, NEW s \in Sources, CreateSource(t, s) PROVE TypeOK'
  BY <1>2 DEF CreateSource, TakeRef
<1>3. ASSUME NEW t \in Threads, NEW s \in Sources, DropSource(t, s) PROVE TypeOK'
  BY <1>3 DEF DropSource
<1>4. ASSUME NEW t \in Threads, OpenVersion(t) PROVE TypeOK'
  BY <1>4 DEF OpenVersion, OpenFailed
<1>5. ASSUME NEW t \in Threads, Subscribe(t) PROVE TypeOK'
  BY <1>5 DEF Subscribe
<1>6. ASSUME NEW t \in Threads, FinalizeSource(t) PROVE TypeOK'
  <2>1. on[t] \in Live
    BY <1>6 DEF FinalizeSource, PlacesOK, Live
  <2>2. subscribers > 0
    BY <2>1, LiveHeldFinite DEF SubscribersCounted
  <2>3. subscribers' \in Nat
    BY <1>6, <2>2 DEF FinalizeSource, DecSubscribers
  <2>4. pc' \in [Threads -> CallStates] /\ on' \in [Threads -> Sources \cup {NoSource}]
    BY <1>6 DEF FinalizeSource, AfterDec
  <2>5. src' \in [Sources -> SrcStates]
    BY <1>6, <2>1 DEF FinalizeSource
  <2> QED
    BY <1>6, <2>3, <2>4, <2>5 DEF FinalizeSource
<1>7. ASSUME NEW t \in Threads, Unsubscribe(t) PROVE TypeOK'
  BY <1>7 DEF Unsubscribe
<1>8. ASSUME NEW t \in Threads, UnrefFromSource(t) PROVE TypeOK'
  <2>1. on[t] \in Held
    BY <1>8 DEF UnrefFromSource, PlacesOK, Held
  <2>2. ref > 0
    BY <2>1, LiveHeldFinite DEF RefsCounted
  <2>3. ref' \in Nat
    BY <1>8, <2>2 DEF UnrefFromSource, Unref
  <2>4. pc' \in [Threads -> CallStates] /\ on' \in [Threads -> Sources \cup {NoSource}]
    BY <1>8 DEF UnrefFromSource
  <2>5. src' \in [Sources -> SrcStates]
    BY <1>8, <2>1 DEF UnrefFromSource
  <2>6. kopen' \subseteq Fds /\ ksub' \subseteq kopen' /\ heap' \subseteq Fds
    BY <1>8 DEF UnrefFromSource, Unref
  <2> QED
    BY <1>8, <2>3, <2>4, <2>5, <2>6 DEF UnrefFromSource, Unref
<1>9. ASSUME NEW t \in Threads, UnrefFromOwner(t) PROVE TypeOK'
  <2>1. ref > 0
    BY <1>9, LiveHeldFinite DEF RefsCounted, UnrefFromOwner, Calls
  <2>2. ref' \in Nat
    BY <1>9, <2>1 DEF UnrefFromOwner, Unref
  <2>3. kopen' \subseteq Fds /\ ksub' \subseteq kopen' /\ heap' \subseteq Fds
    BY <1>9 DEF UnrefFromOwner, Unref
  <2> QED
    BY <1>9, <2>2, <2>3 DEF UnrefFromOwner, Unref
<1>10. CASE Disconnect
  BY <1>10 DEF Disconnect
<1> QED
  BY <1>0, <1>1, <1>2, <1>3, <1>4, <1>5, <1>6, <1>7, <1>8, <1>9, <1>10
  DEF Next, Continue

\* The counters move with the sets they count.
LEMMA CountInductive ==
    CoreInv /\ [Next]_vars => SubscribersCounted' /\ RefsCounted'
<1> SUFFICES ASSUME CoreInv, [Next]_vars
             PROVE  SubscribersCounted' /\ RefsCounted'
  OBVIOUS
<1> USE DEF CoreInv, SubscribersCounted, RefsCounted
<1>t. /\ TypeOK /\ ref \in Nat /\ subscribers \in Nat
      /\ src \in [Sources -> SrcStates] /\ owned \in BOOLEAN
  BY DEF TypeOK
<1>f. /\ IsFiniteSet(Live) /\ Cardinality(Live) \in Nat
      /\ IsFiniteSet(Held) /\ Cardinality(Held) \in Nat
  BY LiveHeldFinite, ConstantsAssumption
\* A step that changes no source, and none of the counters.
<1>u. ASSUME UNCHANGED <<src, subscribers, ref, owned>>
      PROVE  SubscribersCounted' /\ RefsCounted'
  <2>1. Live' = Live /\ Held' = Held
    BY <1>u DEF Live, Held
  <2> QED
    BY <1>u, <2>1
<1>0. CASE UNCHANGED vars
  BY <1>0, <1>u DEF vars
<1>1. ASSUME NEW t \in Threads, OpenDevice(t) PROVE SubscribersCounted' /\ RefsCounted'
  BY <1>1, <1>u DEF OpenDevice
<1>2. ASSUME NEW t \in Threads, NEW s \in Sources, CreateSource(t, s)
      PROVE  SubscribersCounted' /\ RefsCounted'
  <2>1. Live' = Live \cup {s} /\ Held' = Held \cup {s}
    BY <1>2, <1>t DEF CreateSource, Live, Held
  <2>2. s \notin Live /\ s \notin Held
    BY <1>2 DEF CreateSource, Live, Held
  <2>3. /\ Cardinality(Live') = Cardinality(Live) + 1
        /\ Cardinality(Held') = Cardinality(Held) + 1
    BY <2>1, <2>2, <1>f, FS_AddElement
  <2>4. subscribers' = subscribers + 1 /\ ref' = ref + 1 /\ owned' = owned
    BY <1>2 DEF CreateSource, TakeRef
  <2> QED
    BY <2>3, <2>4, <1>t, <1>f
<1>3. ASSUME NEW t \in Threads, NEW s \in Sources, DropSource(t, s)
      PROVE  SubscribersCounted' /\ RefsCounted'
  BY <1>3, <1>u DEF DropSource, privVars
<1>4. ASSUME NEW t \in Threads, OpenVersion(t) PROVE SubscribersCounted' /\ RefsCounted'
  BY <1>4, <1>u DEF OpenVersion
<1>5. ASSUME NEW t \in Threads, Subscribe(t) PROVE SubscribersCounted' /\ RefsCounted'
  BY <1>5, <1>u DEF Subscribe, privVars
<1>6. ASSUME NEW t \in Threads, FinalizeSource(t)
      PROVE  SubscribersCounted' /\ RefsCounted'
  <2>1. on[t] \in Live /\ on[t] \in Sources
    BY <1>6, ConstantsAssumption
    DEF FinalizeSource, PlacesOK, Live, TypeOK, ConstantsAssumption
  <2>2. Live' = Live \ {on[t]} /\ Held' = Held
    BY <1>6, <1>t, <2>1 DEF FinalizeSource, Live, Held
  <2>3. Cardinality(Live') = Cardinality(Live) - 1
    BY <2>1, <2>2, <1>f, FS_RemoveElement
  <2> QED
    BY <1>6, <2>2, <2>3 DEF FinalizeSource, DecSubscribers
<1>7. ASSUME NEW t \in Threads, Unsubscribe(t) PROVE SubscribersCounted' /\ RefsCounted'
  BY <1>7, <1>u DEF Unsubscribe, privVars
<1>8. ASSUME NEW t \in Threads, UnrefFromSource(t)
      PROVE  SubscribersCounted' /\ RefsCounted'
  <2>1. /\ on[t] \in Held /\ on[t] \in Sources /\ src[on[t]] = "finalizing"
    BY <1>8, ConstantsAssumption
    DEF UnrefFromSource, PlacesOK, Held, TypeOK, ConstantsAssumption
  <2>2. Live' = Live /\ Held' = Held \ {on[t]}
    BY <1>8, <1>t, <2>1 DEF UnrefFromSource, Live, Held
  <2>3. Cardinality(Held') = Cardinality(Held) - 1
    BY <2>1, <2>2, <1>f, FS_RemoveElement
  <2>4. ref' = ref - 1 /\ subscribers' = subscribers /\ owned' = owned
    BY <1>8 DEF UnrefFromSource, Unref
  <2> QED
    BY <2>2, <2>3, <2>4, <1>t, <1>f
<1>9. ASSUME NEW t \in Threads, UnrefFromOwner(t)
      PROVE  SubscribersCounted' /\ RefsCounted'
  <2>1. Live' = Live /\ Held' = Held
    BY <1>9 DEF UnrefFromOwner, Live, Held
  <2>2. ref' = ref - 1 /\ subscribers' = subscribers /\ owned /\ ~owned'
    BY <1>9 DEF UnrefFromOwner, Unref, Calls
  <2> QED
    BY <2>1, <2>2, <1>t, <1>f
<1>10. CASE Disconnect
  BY <1>10, <1>u DEF Disconnect, privVars
<1> QED
  BY <1>0, <1>1, <1>2, <1>3, <1>4, <1>5, <1>6, <1>7, <1>8, <1>9, <1>10
  DEF Next, Continue

LEMMA PlacesInductive == CoreInv /\ [Next]_vars => PlacesOK'
<1> SUFFICES ASSUME CoreInv, [Next]_vars PROVE PlacesOK'
  OBVIOUS
<1> USE DEF CoreInv, PlacesOK
<1>t. /\ src \in [Sources -> SrcStates] /\ owned \in BOOLEAN
      /\ pc \in [Threads -> CallStates]
      /\ on \in [Threads -> Sources \cup {NoSource}] /\ NoSource \notin Sources
  BY ConstantsAssumption DEF TypeOK, ConstantsAssumption
<1>0. CASE UNCHANGED vars
  BY <1>0 DEF vars
<1>1. ASSUME NEW t \in Threads, OpenDevice(t) PROVE PlacesOK'
  BY <1>1, <1>t DEF OpenDevice, Goto, Calls
<1>2. ASSUME NEW t \in Threads, NEW s \in Sources, CreateSource(t, s) PROVE PlacesOK'
  <2>1. \A u \in Threads : on[u] # s
    BY <1>2, <1>t DEF CreateSource, CallStates
  <2>2. /\ src'[s] = "live"
        /\ \A r \in Sources : r # s => src'[r] = src[r]
    BY <1>2, <1>t DEF CreateSource
  <2>3. /\ pc'[t] = "subscribe" /\ on'[t] = s /\ owned /\ owned'
        /\ \A u \in Threads : u # t => pc'[u] = pc[u] /\ on'[u] = on[u]
    BY <1>2, <1>t DEF CreateSource, Goto, Calls
  <2> QED
    BY <1>t, <2>1, <2>2, <2>3
<1>3. ASSUME NEW t \in Threads, NEW s \in Sources, DropSource(t, s) PROVE PlacesOK'
  BY <1>3, <1>t DEF DropSource, Goto, privVars, InHand
<1>4. ASSUME NEW t \in Threads, OpenVersion(t) PROVE PlacesOK'
  BY <1>4, <1>t DEF OpenVersion, Return, Goto
<1>5. ASSUME NEW t \in Threads, Subscribe(t) PROVE PlacesOK'
  BY <1>5, <1>t DEF Subscribe, Return, Goto, privVars
<1>6. ASSUME NEW t \in Threads, FinalizeSource(t) PROVE PlacesOK'
  BY <1>6, <1>t DEF FinalizeSource, Goto, AfterDec
<1>7. ASSUME NEW t \in Threads, Unsubscribe(t) PROVE PlacesOK'
  BY <1>7, <1>t DEF Unsubscribe, Goto, privVars
<1>8. ASSUME NEW t \in Threads, UnrefFromSource(t) PROVE PlacesOK'
  BY <1>8, <1>t DEF UnrefFromSource, Return, Goto
<1>9. ASSUME NEW t \in Threads, UnrefFromOwner(t) PROVE PlacesOK'
  BY <1>9, <1>t DEF UnrefFromOwner, Calls, Opening, Creating
<1>10. CASE Disconnect
  BY <1>10 DEF Disconnect, privVars
<1> QED
  BY <1>0, <1>1, <1>2, <1>3, <1>4, <1>5, <1>6, <1>7, <1>8, <1>9, <1>10
  DEF Next, Continue

LEMMA CoreInductive == CoreInv /\ [Next]_vars => CoreInv'
  BY TypeInductive, CountInductive, PlacesInductive DEF CoreInv

\* Whoever uses the object counts among its references.
LEMMA UsersAreCounted == CoreInv => NoUseAfterFinalize
<1> SUFFICES ASSUME CoreInv PROVE NoUseAfterFinalize
  OBVIOUS
<1> USE DEF CoreInv
<1>1. Cardinality(Held) \in Nat /\ (Cardinality(Held) = 0 <=> Held = {})
  BY LiveHeldFinite, ConstantsAssumption
<1>2. owned \/ Held # {} => ref > 0
  BY <1>1 DEF RefsCounted, TypeOK
<1>3. Live \subseteq Held
  BY DEF Live, Held
<1>4. ASSUME NEW t \in Threads, pc[t] # "idle" PROVE owned \/ Held # {}
  <2>1. CASE on[t] = NoSource
    BY <1>4, <2>1 DEF PlacesOK
  <2>2. CASE on[t] # NoSource
    <3>1. on[t] \in Sources
      BY <2>2 DEF TypeOK
    <3>2. pc[t] \in {"subscribe", "finalize", "unsubscribe", "unref"}
      BY <2>2, ConstantsAssumption DEF PlacesOK, TypeOK, CallStates
    <3> QED
      BY <3>1, <3>2 DEF PlacesOK, Held
  <2> QED
    BY <2>1, <2>2
<1> QED
  BY <1>2, <1>3, <1>4 DEF NoUseAfterFinalize

(***************************************************************************)
(* The state of card.c has its type, priv->subscribers is the number of    *)
(* sources between their increment and their decrement, and the object is  *)
(* not finalized while a source is alive or a thread is inside one of its  *)
(* functions: in every interleaving of any number of threads, sources and  *)
(* calls of open(), and also when the application opens a card twice.      *)
(***************************************************************************)
THEOREM CoreSafety ==
    Spec => [](TypeOK /\ SubscribersCounted /\ NoUseAfterFinalize)
<1>1. Init => CoreInv
  BY InitCore
<1>2. CoreInv /\ [Next]_vars => CoreInv'
  BY CoreInductive
<1>3. CoreInv => TypeOK /\ SubscribersCounted /\ NoUseAfterFinalize
  BY UsersAreCounted DEF CoreInv
<1> QED
  BY <1>1, <1>2, <1>3, PTL DEF Spec

----------------------------------------------------------------------------
LEMMA InitOnce == Init => OnceInv
  BY DEF Init, OnceInv, Opening, Live, NoFd

\* One thread at a time is inside open(), and none while a source is alive.
LEMMA OnceInductive ==
    ASSUME OpenedOnce
    PROVE  CoreInv /\ OnceInv /\ [Next]_vars => OnceInv'
<1> SUFFICES ASSUME CoreInv, OnceInv, [Next]_vars PROVE OnceInv'
  OBVIOUS
<1> USE OpenedOnce DEF OpenedOnce, OnceInv, Opening
<1>t. /\ TypeOK /\ SubscribersCounted /\ PlacesOK /\ NoSource \notin Sources
      /\ pc \in [Threads -> CallStates] /\ src \in [Sources -> SrcStates]
      /\ fd \in Nat /\ ref \in Nat /\ opens \in Nat /\ subscribers \in Nat
      /\ ksub \subseteq kopen
  BY ConstantsAssumption DEF CoreInv, TypeOK, ConstantsAssumption, Fds, NoFd
<1>r. NoUseAfterFinalize /\ (owned => ref > 0) /\ (owned /\ Held # {} => ref > 1)
  <2>1. Cardinality(Held) \in Nat /\ (Cardinality(Held) = 0 <=> Held = {})
    BY LiveHeldFinite, ConstantsAssumption
  <2> QED
    BY <2>1, UsersAreCounted DEF CoreInv, RefsCounted, TypeOK
<1>n. /\ subscribers > 0 <=> Live # {}
      /\ Live' # {} => ref' > 0
  <2>1. CoreInv' /\ NoUseAfterFinalize'
    <3>1. CoreInv'
      BY CoreInductive
    <3>2. (CoreInv => NoUseAfterFinalize)'
      BY UsersAreCounted, PTL
    <3> QED
      BY <3>1, <3>2
  <2> QED
    BY <1>t, <2>1, LiveHeldFinite, ConstantsAssumption
    DEF SubscribersCounted, NoUseAfterFinalize
<1>0. CASE UNCHANGED vars
  BY <1>0 DEF vars, Live
<1>1. ASSUME NEW t \in Threads, OpenDevice(t) PROVE OnceInv'
  BY <1>1, <1>t, <1>r DEF OpenDevice, Goto, Calls, NoFd, Live
<1>2. ASSUME NEW t \in Threads, NEW s \in Sources, CreateSource(t, s) PROVE OnceInv'
  BY <1>2, <1>t, <1>r DEF CreateSource, Goto, Calls, TakeRef, kernelVars, Live
<1>3. ASSUME NEW t \in Threads, NEW s \in Sources, DropSource(t, s) PROVE OnceInv'
  BY <1>3, <1>t DEF DropSource, Goto, privVars, kernelVars, Live
<1>4. ASSUME NEW t \in Threads, OpenVersion(t) PROVE OnceInv'
  BY <1>4, <1>t, <1>r DEF OpenVersion, OpenFailed, Return, Goto, Live,
                          NoUseAfterFinalize
<1>5. ASSUME NEW t \in Threads, Subscribe(t) PROVE OnceInv'
  <2>1. /\ UNCHANGED <<heap, kopen, ref, fd, devnode, subscribers, src, connected>>
        /\ Live' = Live
    BY <1>5 DEF Subscribe, privVars, Live
  <2>2. \A u \in Threads : pc'[u] = "pversion" <=> pc[u] = "pversion"
    BY <1>5, <1>t DEF Subscribe, Return, Goto
  <2>3. subscribers > 0
    <3>1. on[t] \in Live
      BY <1>5, <1>t DEF Subscribe, PlacesOK, Live, TypeOK
    <3> QED
      BY <3>1, <1>n
  <2> QED
    BY <2>1, <2>2, <2>3
<1>6. ASSUME NEW t \in Threads, FinalizeSource(t) PROVE OnceInv'
  BY <1>6, <1>t DEF FinalizeSource, Goto, AfterDec, DecSubscribers, kernelVars, Live
<1>7. ASSUME NEW t \in Threads, Unsubscribe(t) PROVE OnceInv'
  BY <1>7, <1>t DEF Unsubscribe, Goto, privVars, Live
<1>8. ASSUME NEW t \in Threads, UnrefFromSource(t) PROVE OnceInv'
  <2>1. /\ UNCHANGED <<fd, devnode, subscribers, connected>> /\ ref' = ref - 1
        /\ Live' = Live
    BY <1>8, <1>t DEF UnrefFromSource, Unref, Live, PlacesOK
  <2>2. \A u \in Threads : /\ pc'[u] = "pversion" <=> pc[u] = "pversion"
                           /\ pc'[u] = "unsubscribe" <=> pc[u] = "unsubscribe"
    BY <1>8, <1>t DEF UnrefFromSource, Return, Goto
  <2>3. ref = 1 => ~Opening
    <3>1. Held # {}
      BY <1>8, <1>t DEF UnrefFromSource, PlacesOK, Held, TypeOK
    <3> QED
      BY <1>r, <1>t, <3>1 DEF PlacesOK
  <2>4. heap' = kopen' /\ ksub' \subseteq ksub
        /\ kopen' = IF ref' > 0 THEN {fd} \ {NoFd} ELSE {}
    <3>1. ref > 0
      BY <1>8, <1>r DEF UnrefFromSource, NoUseAfterFinalize
    <3>2. CASE ref = 1 /\ fd # NoFd
      BY <1>8, <1>t, <2>1, <2>3, <3>2 DEF UnrefFromSource, Unref, LastRef
    <3>3. CASE ~(ref = 1 /\ fd # NoFd)
      BY <1>8, <1>t, <2>1, <3>1, <3>3 DEF UnrefFromSource, Unref, LastRef
    <3> QED
      BY <3>2, <3>3
  <2> QED
    BY <2>1, <2>2, <2>4
<1>9. ASSUME NEW t \in Threads, UnrefFromOwner(t) PROVE OnceInv'
  <2>1. /\ UNCHANGED <<fd, devnode, subscribers, connected, pc>> /\ ref' = ref - 1
        /\ Live' = Live /\ ~Opening
    BY <1>9 DEF UnrefFromOwner, Unref, Live
  <2>2. heap' = kopen' /\ ksub' \subseteq ksub
        /\ kopen' = IF ref' > 0 THEN {fd} \ {NoFd} ELSE {}
    BY <1>9, <1>t, <1>r, <2>1 DEF UnrefFromOwner, Unref, LastRef, Calls
  <2> QED
    BY <2>1, <2>2
<1>10. CASE Disconnect
  BY <1>10 DEF Disconnect, privVars, Live
<1> QED
  BY <1>0, <1>1, <1>2, <1>3, <1>4, <1>5, <1>6, <1>7, <1>8, <1>9, <1>10
  DEF Next, Continue

(***************************************************************************)
(* When no card is opened twice: after the last source is finalized the    *)
(* kernel is not left subscribed, a finalized object has closed its        *)
(* descriptor and freed its devnode, and the descriptor of a successful    *)
(* open() stays until then.  For any number of threads.                    *)
(***************************************************************************)
THEOREM OpenedOnceSafety ==
    OpenedOnce => (Spec => /\ [](NoStraySubscription /\ NothingLeaked)
                           /\ FdMaintained)
<1> SUFFICES ASSUME OpenedOnce
             PROVE  Spec => /\ [](NoStraySubscription /\ NothingLeaked)
                            /\ FdMaintained
  OBVIOUS
<1> DEFINE IInv == CoreInv /\ OnceInv
<1>1. Init => IInv
  BY InitCore, InitOnce
<1>2. IInv /\ [Next]_vars => IInv'
  BY CoreInductive, OnceInductive
<1>3. IInv => NoStraySubscription /\ NothingLeaked
  BY DEF CoreInv, TypeOK, OnceInv, NoStraySubscription, NothingLeaked, Quiet
<1>4. IInv /\ IInv' /\ [Next]_vars
        => [(devnode # NoFd /\ ref' > 0) => (fd' = fd /\ fd \in kopen')]_vars
  <2> SUFFICES ASSUME CoreInv, OnceInv, OnceInv', [Next]_vars, devnode # NoFd, ref' > 0
               PROVE  fd' = fd /\ fd \in kopen'
    OBVIOUS
  <2>1. devnode = fd /\ ~Opening
    BY DEF OnceInv
  <2>2. fd' = fd
    <3>1. ASSUME NEW t \in Threads, OpenDevice(t) PROVE FALSE
      BY <3>1, <2>1 DEF OpenDevice, OpenedOnce
    <3>2. ASSUME NEW t \in Threads, OpenVersion(t) PROVE FALSE
      BY <3>2, <2>1 DEF OpenVersion, Opening
    <3> QED
      BY <3>1, <3>2
      DEF Next, Continue, vars, privVars, CreateSource, DropSource, Subscribe,
          FinalizeSource, Unsubscribe, UnrefFromSource, UnrefFromOwner, Unref,
          Disconnect
  <2> QED
    BY <2>1, <2>2 DEF OnceInv
<1> QED
  BY <1>1, <1>2, <1>3, <1>4, PTL DEF Spec, FdMaintained

----------------------------------------------------------------------------
LEMMA SerialInductive ==
    ASSUME OpenedOnce, OneThread
    PROVE  CoreInv /\ OnceInv /\ SerialInv /\ [Next]_vars => SerialInv'
<1> SUFFICES ASSUME CoreInv, OnceInv, SerialInv, [Next]_vars PROVE SerialInv'
  OBVIOUS
<1> USE OpenedOnce, OneThread DEF OpenedOnce, OneThread, SerialInv
<1>t. /\ PlacesOK /\ NoSource \notin Sources
      /\ pc \in [Threads -> CallStates] /\ src \in [Sources -> SrcStates]
      /\ on \in [Threads -> Sources \cup {NoSource}]
      /\ subscribers \in Nat /\ ref \in Nat
  BY ConstantsAssumption DEF CoreInv, TypeOK, ConstantsAssumption
<1>n. /\ subscribers > 0 <=> Live # {}
      /\ Live' # {} => ref' > 0
  <2>1. CoreInv' /\ NoUseAfterFinalize'
    <3>1. CoreInv'
      BY CoreInductive
    <3>2. (CoreInv => NoUseAfterFinalize)'
      BY UsersAreCounted, PTL
    <3> QED
      BY <3>1, <3>2
  <2> QED
    BY <1>t, <2>1, LiveHeldFinite, ConstantsAssumption
    DEF CoreInv, SubscribersCounted, NoUseAfterFinalize
<1>0. CASE UNCHANGED vars
  BY <1>0 DEF vars, Live
<1>1. ASSUME NEW t \in Threads, OpenDevice(t) PROVE SerialInv'
  <2>1. Live = {} /\ Live' = Live
    BY <1>1 DEF OpenDevice, OnceInv, Live
  <2> QED
    BY <1>1, <1>t, <2>1 DEF OpenDevice, Goto, Calls
<1>2. ASSUME NEW t \in Threads, NEW s \in Sources, CreateSource(t, s) PROVE SerialInv'
  BY <1>2, <1>t DEF CreateSource, Goto, Calls, kernelVars, Live
<1>3. ASSUME NEW t \in Threads, NEW s \in Sources, DropSource(t, s) PROVE SerialInv'
  BY <1>3, <1>t DEF DropSource, Goto, privVars, kernelVars, Live
<1>4. ASSUME NEW t \in Threads, OpenVersion(t) PROVE SerialInv'
  <2>1. Live = {} /\ Live' = Live
    BY <1>4 DEF OpenVersion, OnceInv, Live, Opening
  <2> QED
    BY <1>4, <1>t, <2>1 DEF OpenVersion, Return, Goto
<1>5. ASSUME NEW t \in Threads, Subscribe(t) PROVE SerialInv'
  <2>1. fd \in kopen
    <3>1. on[t] \in Live
      BY <1>5, <1>t DEF Subscribe, PlacesOK, Live
    <3>2. ~Opening /\ ref > 0
      BY <1>5, <3>1, UsersAreCounted DEF Subscribe, Opening, NoUseAfterFinalize
    <3> QED
      BY <3>1, <3>2 DEF OnceInv
  <2> QED
    BY <1>5, <1>t, <2>1 DEF Subscribe, Return, Goto, privVars, Live
<1>6. ASSUME NEW t \in Threads, FinalizeSource(t) PROVE SerialInv'
  BY <1>6, <1>t DEF FinalizeSource, Goto, AfterDec, DecSubscribers, kernelVars, Live
<1>7. ASSUME NEW t \in Threads, Unsubscribe(t) PROVE SerialInv'
  <2>1. Live = {} /\ Live' = Live
    BY <1>7, <1>n, <1>t DEF Unsubscribe, Live
  <2> QED
    BY <1>7, <1>t, <2>1 DEF Unsubscribe, Goto, privVars
<1>8. ASSUME NEW t \in Threads, UnrefFromSource(t) PROVE SerialInv'
  <2>1. Live' = Live /\ connected' = connected /\ fd' = fd /\ subscribers' = subscribers
    BY <1>8, <1>t DEF UnrefFromSource, Unref, Live, PlacesOK
  <2>2. Live # {} => ksub' = ksub
    BY <1>8, <1>n, <1>t, <2>1 DEF UnrefFromSource, Unref, LastRef
  <2> QED
    BY <1>8, <1>t, <2>1, <2>2 DEF UnrefFromSource, Return, Goto
<1>9. ASSUME NEW t \in Threads, UnrefFromOwner(t) PROVE SerialInv'
  <2>1. Live' = Live /\ connected' = connected /\ fd' = fd /\ subscribers' = subscribers
    BY <1>9 DEF UnrefFromOwner, Unref, Live
  <2>2. Live # {} => ksub' = ksub
    BY <1>9, <1>n, <1>t, <2>1 DEF UnrefFromOwner, Unref, LastRef
  <2> QED
    BY <1>9, <2>1, <2>2 DEF UnrefFromOwner
<1>10. CASE Disconnect
  BY <1>10 DEF Disconnect, privVars, Live
<1> QED
  BY <1>0, <1>1, <1>2, <1>3, <1>4, <1>5, <1>6, <1>7, <1>8, <1>9, <1>10
  DEF Next, Continue

(***************************************************************************)
(* In a program with one thread, which opens no card twice, the events are *)
(* subscribed whenever the "subscribed" property of the card is true.      *)
(* With two threads they need not be.                                      *)
(***************************************************************************)
THEOREM SerialSubscription ==
    OpenedOnce /\ OneThread => (Spec => []SubscribedIsSubscribed)
<1> SUFFICES ASSUME OpenedOnce, OneThread PROVE Spec => []SubscribedIsSubscribed
  OBVIOUS
<1> DEFINE IInv == CoreInv /\ OnceInv /\ SerialInv
<1>1. Init => IInv
  BY InitCore, InitOnce DEF Init, SerialInv, Live
<1>2. IInv /\ [Next]_vars => IInv'
  BY CoreInductive, OnceInductive, SerialInductive
<1>3. IInv => SubscribedIsSubscribed
  <2>1. CoreInv => (subscribers > 0 => Live # {})
    BY LiveHeldFinite, ConstantsAssumption DEF CoreInv, SubscribersCounted, TypeOK
  <2> QED
    BY <2>1 DEF SerialInv, SubscribedIsSubscribed, Quiet
<1> QED
  BY <1>1, <1>2, <1>3, PTL DEF Spec

(***************************************************************************)
(* DataObjects: the references of an object of any class, for any number   *)
(* of calls.                                                               *)
(***************************************************************************)

\* What a call of the kernel does with the references, whatever its class: one
\* that makes the object gives it back when it fails.
Balanced(k) ==
    /\ k.makes => k.unrefs
    /\ k.unrefs /\ ~k.makes => k.class = "TimerDeviceStatus"

\* Every call of the libraries that hands an object to the kernel is of that
\* kind, but alsatimer_get_device_status.
LEMMA BalancedCalls == \A k \in KernelCalls : Balanced(k)
<1>1. \A c, f : Balanced(Sends(c, f)) /\ Balanced(Fetches(c, f)) /\ Balanced(Creates(c, f))
  BY DEF Balanced, Sends, Fetches, Creates, Call
<1>2. Balanced(alsatimer_get_device_status)
  BY DEF Balanced, alsatimer_get_device_status, Call
<1> HIDE DEF Balanced
<1>3. \A c \in EventClasses : Balanced(Received(c))
  BY <1>1 DEF Received
<1>4. \A c \in ElemInfoClasses : Balanced(alsactl_card_get_elem_info(c))
  BY <1>1 DEF alsactl_card_get_elem_info
<1>5. \A reads \in BOOLEAN : Balanced(fill_data_with_result(reads))
  BY <1>1 DEF fill_data_with_result
<1>6. QED
  BY <1>1, <1>2, <1>3, <1>4, <1>5, Zenon
  DEF KernelCalls,
      alsaseq_user_client_set_info, alsaseq_user_client_get_info,
      alsaseq_user_client_update_port, alsaseq_user_client_set_pool,
      alsaseq_user_client_get_pool, alsaseq_user_client_update_queue,
      alsaseq_user_client_set_queue_tempo, alsaseq_user_client_get_queue_tempo,
      alsaseq_user_client_set_queue_timer, alsaseq_user_client_get_queue_timer,
      alsaseq_user_client_remove_events, alsaseq_user_client_operate_subscription,
      alsaseq_get_system_info, alsaseq_get_client_info, alsaseq_get_port_info,
      alsaseq_get_client_pool, alsaseq_get_queue_info_by_id,
      alsaseq_get_queue_info_by_name, alsaseq_get_queue_status,
      alsactl_card_get_info, alsactl_card_write_elem_value,
      alsactl_card_read_elem_value,
      alsatimer_user_instance_get_info, alsatimer_user_instance_set_params,
      alsatimer_user_instance_get_status, alsatimer_get_device_info,
      alsatimer_set_device_params,
      alsarawmidi_stream_pair_get_substream_info,
      alsarawmidi_stream_pair_set_substream_params,
      alsarawmidi_stream_pair_get_substream_status,
      alsarawmidi_get_substream_info, alsahwdep_get_device_info

\* The inductive invariant.
RefsInv ==
    /\ cls \in DOMAIN Class
    /\ refs \in [own : Int, made : Int, given : Int]
    /\ RefsBalanced

\* A new object has one reference, the caller's.
LEMMA RefsInit == ObjectInit => RefsInv
  BY DEF ObjectInit, RefsInv, RefsBalanced

\* No call changes the balance, whether the ioctl succeeds or fails.
LEMMA RefsInductive == RefsInv /\ [ObjectNext]_objectVars => RefsInv'
<1> SUFFICES ASSUME RefsInv, [ObjectNext]_objectVars PROVE RefsInv'
  OBVIOUS
<1> USE DEF RefsInv, RefsBalanced
<1>0. CASE UNCHANGED objectVars
  BY <1>0 DEF objectVars
<1>1. ASSUME NEW i \in DOMAIN obj, NEW p \in DOMAIN Class[cls].spec, NEW v \in Values(cls, p),
             SetProperty(i, p, v)
      PROVE  RefsInv'
  BY <1>1 DEF SetProperty, Step
<1>2. ASSUME NEW types \in {{}, {0, 18}, {1}, {1, 9}}, SetEventFilter(types)
      PROVE  RefsInv'
  BY <1>2 DEF SetEventFilter, Step
<1>3. ASSUME NEW k \in CallsWith[cls] PROVE k.class = cls /\ Balanced(k)
  BY <1>3, BalancedCalls DEF CallsWith
<1>4. ASSUME NEW k \in CallsWith[cls], Send(k) PROVE RefsInv'
  BY <1>4 DEF Send, Step
<1>5. ASSUME NEW k \in CallsWith[cls], NEW s \in Answers[cls], Fetch(k, s) PROVE RefsInv'
  <2>1. /\ cls' = cls
        /\ refs' = IF k.makes THEN [refs EXCEPT !.made = @ + 1, !.given = @ + 1] ELSE refs
    BY <1>5, Zenon DEF Fetch, Step
  <2>2. CASE k.makes
    <3> DEFINE r == [refs EXCEPT !.made = @ + 1]
    <3>1. r \in [own : Int, made : Int, given : Int] /\ r.own = refs.own
          /\ r.made = refs.made + 1 /\ r.given = refs.given
      OBVIOUS
    <3>2. refs' = [r EXCEPT !.given = r.given + 1]
      BY <2>1, <2>2
    <3> HIDE DEF r
    <3>3. refs' \in [own : Int, made : Int, given : Int] /\ refs'.own = refs.own
          /\ refs'.made = refs.made + 1 /\ refs'.given = refs.given + 1
      BY <3>1, <3>2
    <3>4. QED
      BY <2>1, <3>3
  <2>3. CASE ~k.makes
    BY <2>1, <2>3
  <2>4. QED
    BY <2>2, <2>3
<1>6. ASSUME NEW k \in CallsWith[cls], FetchFails(k) PROVE RefsInv'
  BY <1>6, <1>3 DEF FetchFails, Step, Balanced
<1>7. QED
  BY <1>0, <1>1, <1>2, <1>4, <1>5, <1>6 DEF ObjectNext

\* Whatever calls succeed and fail, and in whatever order, an object that a call
\* made is in the caller's hands or gone, and the caller's own object keeps the
\* caller's reference; only a failing alsatimer_get_device_status takes it.
THEOREM ReferencesBalance == Behaviour => []RefsBalanced
<1>1. RefsInv => RefsBalanced
  BY DEF RefsInv
<1>2. QED
  BY <1>1, RefsInit, RefsInductive, PTL DEF Behaviour

(***************************************************************************)
(* DataObjects: what the accessors of a structure do, for members of any   *)
(* number and width, any bits and any values.                              *)
(***************************************************************************)

\* The values of a cell, and the place of a member in a union.
Cell == 0..Ones

Place == [from : Nat, count : Nat, width : Nat \ {0}]

\* Cell j of number k, counted from the first cell of the member.
LEMMA RowOfCell ==
  ASSUME NEW w \in Nat \ {0}, NEW k \in Nat, NEW j \in 1..w
  PROVE  (k * w + j - 1) \div w = k /\ (k * w + j - 1) % w = j - 1
<1> DEFINE x == k * w + (j - 1)
           q == x \div w
           r == x % w
<1>1. k * w \in Nat /\ x \in Nat /\ x = k * w + j - 1
  OBVIOUS
<1>2. q \in Nat /\ r \in Nat /\ r < w /\ x = q * w + r
  <2> HIDE DEF x
  <2> QED BY <1>1
<1>3. q = k
  <2> HIDE DEF q, r
  <2>1. ASSUME q < k PROVE FALSE
    <3>1. (q + 1) * w <= k * w
      BY <2>1, <1>2
    <3>2. (q + 1) * w = q * w + w /\ q * w \in Nat
      BY <1>2
    <3> QED
      BY <3>1, <3>2, <1>1, <1>2
  <2>2. ASSUME k < q PROVE FALSE
    <3>1. (k + 1) * w <= q * w
      BY <2>2, <1>2
    <3>2. (k + 1) * w = k * w + w /\ q * w \in Nat
      BY <1>2
    <3> QED
      BY <3>1, <3>2, <1>1, <1>2
  <2> QED
    BY <2>1, <2>2, <1>2
<1>4. r = j - 1
  <2> HIDE DEF q, r
  <2> QED
    BY <1>1, <1>2, <1>3
<1> QED
  <2> HIDE DEF q, r
  <2>1. (k * w + j - 1) \div w = q /\ (k * w + j - 1) % w = r
    BY <1>1 DEF q, r
  <2> QED
    BY <2>1, <1>3, <1>4

\* The bit of a type of event tells the type.
LEMMA BitmapRead ==
  ASSUME NEW types \in SUBSET Nat
  PROVE  FromBitmap(Bitmap(types)) = types \cap 0..(TypeBits * TypeBytes - 1)
<1>1. ASSUME NEW t \in Nat, NEW s \in Nat, t \div 8 = s \div 8, t % 8 = s % 8
      PROVE  t = s
  BY <1>1
<1>2. ASSUME NEW t \in Nat PROVE t \div 8 < 32 <=> t \in 0..255
  OBVIOUS
<1>3. QED
  BY <1>1, <1>2 DEF FromBitmap, Bitmap, TypeBits, TypeBytes

\* What has the domain of a sequence is one.
LEMMA OfSomeType ==
  ASSUME NEW n \in Nat, NEW t, t = [i \in 1..n |-> t[i]]
  PROVE  \E S : t \in Seq(S) /\ Len(t) = n
<1> DEFINE S == {t[i] : i \in 1..n}
<1>1. \A i \in 1..n : t[i] \in S
  OBVIOUS
<1> HIDE DEF S
<1>2. t \in Seq(S)
  BY <1>1
<1>3. QED
  BY <1>2

\* A part of a sequence, entry by entry.
LEMMA Segment ==
  ASSUME NEW S, NEW t \in Seq(S), NEW lo \in Nat \ {0}, NEW hi \in Nat, hi <= Len(t)
  PROVE  SubSeq(t, lo, hi) = [j \in 1..(hi - lo + 1) |-> t[lo + j - 1]]
  OBVIOUS

\* The cell j of the number k of a member that is given the numbers v.
CellOf(e, v, k, j) ==
    IF k <= Len(v) THEN Encoded(e.way, v[k], e.arg.width)[j] ELSE 0

\* The setter puts that cell in its place.
LEMMA CellWritten ==
  ASSUME NEW u \in Seq(Cell), NEW e, e.arg \in Place, NEW v,
         e.arg.from + e.arg.count * e.arg.width <= Len(u),
         NEW k \in 1..e.arg.count, NEW j \in 1..e.arg.width
  PROVE  LET c == e.arg.from + (k - 1) * e.arg.width + j
         IN  /\ c \in 1..Len(u) /\ c <= e.arg.from + k * e.arg.width
             /\ e.arg.from + k * e.arg.width <= Len(u)
             /\ WriteMember(u, e, v)[c] = CellOf(e, v, k, j)
<1> DEFINE from == e.arg.from
           w == e.arg.width
           n == e.arg.count
           p == (k - 1) * w
           c == from + p + j
<1>1. from \in Nat /\ w \in Nat \ {0} /\ n \in Nat /\ k \in Nat /\ j \in Nat /\ k - 1 \in Nat
  BY DEF Place
<1>2. p \in Nat /\ k * w = p + w /\ k * w <= n * w /\ n * w \in Nat
  <2> HIDE DEF from, w, n
  <2>1. (k - 1) * w \in Nat /\ k * w = (k - 1) * w + w
    BY <1>1
  <2>2. k * w <= n * w /\ n * w \in Nat
    <3>1. k <= n
      BY DEF n
    <3> QED
      BY <1>1, <3>1
  <2> QED
    BY <2>1, <2>2
<1>3. (p + j - 1) \div w = k - 1 /\ (p + j - 1) % w = j - 1
  BY <1>1, RowOfCell
<1>4. 1 <= j /\ j <= w /\ from + n * w <= Len(u) /\ Len(u) \in Nat /\ DOMAIN u = 1..Len(u)
  OBVIOUS
<1>5. c \in Nat /\ c - from - 1 = p + j - 1 /\ c > from /\ c <= from + k * w /\ from + k * w <= Len(u)
      /\ c <= from + n * w /\ c \in DOMAIN u
  <2> HIDE DEF from, w, n, p
  <2> QED
    BY <1>1, <1>2, <1>4
<1>6. WriteMember(u, e, v)[c] =
        IF ((c - from - 1) \div w) + 1 <= Len(v)
        THEN Encoded(e.way, v[((c - from - 1) \div w) + 1], w)[((c - from - 1) % w) + 1] ELSE 0
  <2>1. ~(c <= from \/ c > from + n * w)
    <3> HIDE DEF from, w, n, p
    <3> QED BY <1>1, <1>2, <1>5
  <2> HIDE DEF c
  <2> QED
    BY <1>5, <2>1, Zenon DEF WriteMember
<1>7. ((c - from - 1) \div w) + 1 = k /\ ((c - from - 1) % w) + 1 = j
  <2> HIDE DEF from, w, p, c
  <2>1. (c - from - 1) \div w = k - 1 /\ (c - from - 1) % w = j - 1
    BY <1>5, <1>3, Zenon
  <2> QED
    BY <2>1, <1>1
<1>8. QED
  BY <1>4, <1>5, <1>6, <1>7, Zenon DEF CellOf

\* So the getter finds the cells of a number together.
LEMMA NumberWritten ==
  ASSUME NEW u \in Seq(Cell), NEW e, e.arg \in Place, NEW v,
         e.arg.from + e.arg.count * e.arg.width <= Len(u),
         NEW k \in 1..e.arg.count
  PROVE  /\ Len(Number(WriteMember(u, e, v), e.arg, k)) = e.arg.width
         /\ Number(WriteMember(u, e, v), e.arg, k) =
              [j \in 1..e.arg.width |-> CellOf(e, v, k, j)]
<1> DEFINE from == e.arg.from
           w == e.arg.width
           t == WriteMember(u, e, v)
           lo == from + (k - 1) * w + 1
           hi == from + k * w
<1>1. from \in Nat /\ w \in Nat \ {0} /\ k \in Nat /\ k - 1 \in Nat
  BY DEF Place
<1>2. (k - 1) * w \in Nat /\ k * w = (k - 1) * w + w
  <2> HIDE DEF from, w
  <2> QED
    BY <1>1
<1>3. lo \in Nat /\ hi \in Nat /\ hi - lo + 1 = w /\ 1 <= lo
  <2> HIDE DEF from, w
  <2> QED
    BY <1>1, <1>2
<1>4. t = [c \in DOMAIN u |-> t[c]] /\ DOMAIN t = DOMAIN u
  BY DEF WriteMember
<1>5. (\E S : t \in Seq(S)) /\ hi <= Len(t)
  <2>1. (\E S : t \in Seq(S)) /\ Len(t) = Len(u)
    <3>1. Len(u) \in Nat /\ t = [c \in 1..Len(u) |-> t[c]]
      BY <1>4
    <3> HIDE DEF t
    <3> QED
      BY <3>1, OfSomeType
  <2>2. 1 \in 1..w
    BY <1>1
  <2>3. hi <= Len(u)
    BY <2>2, CellWritten, Zenon
  <2> QED
    BY <2>1, <2>3
<1>6. SubSeq(t, lo, hi) = [j \in 1..w |-> t[lo + j - 1]] /\ Len(SubSeq(t, lo, hi)) = w
  <2> HIDE DEF t, lo, hi, w
  <2>1. SubSeq(t, lo, hi) = [j \in 1..(hi - lo + 1) |-> t[lo + j - 1]]
    BY <1>3, <1>5, Segment
  <2> QED
    BY <2>1, <1>3, <1>1
<1>7. ASSUME NEW j \in 1..w
      PROVE  t[lo + j - 1] = CellOf(e, v, k, j)
  <2>1. lo + j - 1 = from + (k - 1) * w + j
    <3> HIDE DEF from, w
    <3> QED
      BY <1>1, <1>2
  <2>2. t[from + (k - 1) * w + j] = CellOf(e, v, k, j)
    BY CellWritten, Zenon
  <2> QED
    BY <2>1, <2>2, Zenon
<1>8. QED
  BY <1>6, <1>7, Zenon DEF Number

\* The numbers that a member takes, and what the array is filled up with.
Numbers(e) == CASE e.way = "bools" -> BOOLEAN
                [] e.way = "ints"  -> {n \in Seq(Cell) : Len(n) = 2}
                [] OTHER           -> {n \in Seq(Cell) : Len(n) = e.arg.width}

Blank(e) == CASE e.way = "bools" -> FALSE
              [] e.way = "ints"  -> Zeros(2)
              [] OTHER           -> Zeros(e.arg.width)

\* A gboolean or an int needs two cells; an int64 or a byte is taken as it is.
Takes(e) ==
    /\ e.arg \in Place
    /\ e.way \in {"bools", "ints", "raw"}
    /\ e.way # "raw" => e.arg.width >= 2

\* A number that is made wider keeps its cells.
LEMMA WidenedCells ==
  ASSUME NEW n \in Seq(Cell), Len(n) > 0, NEW w \in Nat, Len(n) <= w
  PROVE  /\ Widened(n, w) \in Seq(Cell) /\ Len(Widened(n, w)) = w
         /\ \A j \in 1..Len(n) : Widened(n, w)[j] = n[j]
         /\ ~Negative(n) => \A j \in (Len(n) + 1)..w : Widened(n, w)[j] = 0
<1> DEFINE x == IF Negative(n) THEN Ones ELSE 0
           m == [i \in 1..(w - Len(n)) |-> x]
<1>1. x \in Cell /\ w - Len(n) \in Nat
  BY DEF Cell, Ones
<1>2. m \in Seq(Cell) /\ Len(m) = w - Len(n) /\ \A i \in 1..(w - Len(n)) : m[i] = x
  <2> HIDE DEF x
  <2> QED
    BY <1>1
<1>3. Widened(n, w) = n \o m
  BY DEF Widened
<1>4. ~Negative(n) => x = 0
  OBVIOUS
<1> HIDE DEF m, x
<1>5. QED
  BY <1>1, <1>2, <1>3, <1>4

\* What one number becomes in the union and out of it.
LEMMA NumberReadBack ==
  ASSUME NEW e, Takes(e), NEW n \in Numbers(e)
  PROVE  Decoded(e.way, [j \in 1..e.arg.width |-> Encoded(e.way, n, e.arg.width)[j]]) = n
<1> DEFINE w == e.arg.width
           t == [j \in 1..w |-> Encoded(e.way, n, w)[j]]
<1>1. w \in Nat \ {0}
  BY DEF Takes, Place
<1>2. CASE e.way = "raw"
  <2>1. n \in Seq(Cell) /\ Len(n) = w /\ Encoded(e.way, n, w) = Widened(n, w)
    BY <1>2 DEF Numbers, Encoded
  <2>2. \A j \in 1..w : Encoded(e.way, n, w)[j] = n[j]
    <3> HIDE DEF w
    <3> QED
      BY <2>1, <1>1, WidenedCells
  <2>3. t = n
    <3>1. n = [j \in 1..w |-> n[j]]
      BY <2>1
    <3> QED
      BY <2>2, <3>1
  <2>4. Decoded(e.way, t) = t
    BY <1>2 DEF Decoded
  <2> QED
    BY <2>3, <2>4, Zenon
<1>3. CASE e.way = "ints"
  <2>1. n \in Seq(Cell) /\ Len(n) = 2 /\ Encoded(e.way, n, w) = Widened(n, w) /\ w >= 2
    BY <1>3 DEF Numbers, Encoded, Takes
  <2>2. Encoded(e.way, n, w)[1] = n[1] /\ Encoded(e.way, n, w)[2] = n[2]
    <3> HIDE DEF w
    <3>1. \A j \in 1..2 : Widened(n, w)[j] = n[j]
      BY <2>1, <1>1, WidenedCells
    <3> QED
      BY <2>1, <3>1
  <2>3. (\E S : t \in Seq(S)) /\ Len(t) = w /\ t[1] = n[1] /\ t[2] = n[2]
    <3>1. t[1] = n[1] /\ t[2] = n[2]
      BY <2>1, <2>2, <1>1
    <3>2. t = [j \in 1..w |-> t[j]]
      OBVIOUS
    <3> HIDE DEF t, w
    <3>3. (\E S : t \in Seq(S)) /\ Len(t) = w
      BY <3>2, <1>1, OfSomeType
    <3> QED
      BY <3>1, <3>3
  <2>4. SubSeq(t, 1, 2) = n
    <3> HIDE DEF t, w
    <3>1. SubSeq(t, 1, 2) = [j \in 1..2 |-> t[j]]
      <4>1. SubSeq(t, 1, 2) = [j \in 1..(2 - 1 + 1) |-> t[1 + j - 1]]
        BY <2>1, <2>3, Segment
      <4> QED
        BY <4>1
    <3>2. n = [j \in 1..2 |-> n[j]]
      BY <2>1
    <3> QED
      BY <2>3, <3>1, <3>2
  <2>5. Decoded(e.way, t) = SubSeq(t, 1, 2)
    BY <1>3 DEF Decoded
  <2> QED
    BY <2>4, <2>5, Zenon
<1>4. CASE e.way = "bools"
  <2> DEFINE b == IF n THEN <<1, 0>> ELSE <<0, 0>>
  <2>1. n \in BOOLEAN /\ Encoded(e.way, n, w) = Widened(b, w) /\ w >= 2
    BY <1>4 DEF Numbers, Encoded, FromBool, Takes
  <2>2. b \in Seq(Cell) /\ Len(b) = 2 /\ b[2] = 0 /\ ~Negative(b) /\ (n => b[1] = 1) /\ (~n => b[1] = 0)
    <3>1. CASE n
      BY <3>1 DEF Cell, Ones, Negative
    <3>2. CASE ~n
      BY <3>2 DEF Cell, Ones, Negative
    <3> QED
      BY <3>1, <3>2
  <2> HIDE DEF b
  <2>3. \A j \in 1..w : Encoded(e.way, n, w)[j] = IF j = 1 THEN b[1] ELSE 0
    <3> HIDE DEF w
    <3>1. /\ \A j \in 1..2 : Widened(b, w)[j] = b[j]
          /\ \A j \in 3..w : Widened(b, w)[j] = 0
      <4>1. w >= 2
        BY <2>1
      <4>2. b \in Seq(Cell) /\ Len(b) = 2 /\ ~Negative(b)
        BY <2>2
      <4>3. /\ \A j \in 1..Len(b) : Widened(b, w)[j] = b[j]
            /\ \A j \in (Len(b) + 1)..w : Widened(b, w)[j] = 0
        BY <4>1, <4>2, <1>1, WidenedCells
      <4> QED
        BY <4>2, <4>3
    <3>2. \A j \in 1..w : Widened(b, w)[j] = IF j = 1 THEN b[1] ELSE 0
      BY <3>1, <2>2, <1>1
    <3> QED
      BY <2>1, <3>2, Zenon
  <2>4. DOMAIN t = 1..w /\ \A j \in 1..w : t[j] = IF j = 1 THEN b[1] ELSE 0
    BY <2>3
  <2>5. Len(t) = w
    <3> HIDE DEF t, w
    <3> QED
      BY <2>4, <1>1
  <2>6. Positive(t) <=> n
    <3> HIDE DEF t, w
    <3> QED
      BY <2>1, <2>2, <2>4, <2>5, <1>1 DEF Positive, Negative, Ones
  <2>7. Decoded(e.way, t) = Positive(t)
    BY <1>4 DEF Decoded
  <2>8. Positive(t) \in BOOLEAN
    BY DEF Positive
  <2> QED
    BY <2>1, <2>6, <2>7, <2>8, Zenon
<1>5. QED
  BY <1>2, <1>3, <1>4 DEF Takes

\* What zeroed cells are read as.
LEMMA BlankReadBack ==
  ASSUME NEW e, Takes(e)
  PROVE  Decoded(e.way, [j \in 1..e.arg.width |-> 0]) = Blank(e)
<1> DEFINE w == e.arg.width
           t == [j \in 1..w |-> 0]
<1>1. w \in Nat \ {0} /\ t \in Seq({0}) /\ Len(t) = w /\ \A j \in 1..w : t[j] = 0
  <2>1. w \in Nat \ {0}
    BY DEF Takes, Place
  <2> HIDE DEF w
  <2> QED
    BY <2>1
<1>2. CASE e.way = "raw"
  BY <1>2 DEF Decoded, Blank, Zeros
<1>3. CASE e.way = "ints"
  <2>1. w >= 2
    BY <1>3 DEF Takes
  <2>2. Decoded(e.way, t) = SubSeq(t, 1, 2) /\ Blank(e) = [j \in 1..2 |-> 0]
    BY <1>3 DEF Decoded, Blank, Zeros
  <2>3. SubSeq(t, 1, 2) = [j \in 1..2 |-> 0]
    <3> HIDE DEF t, w
    <3>1. SubSeq(t, 1, 2) = [j \in 1..(2 - 1 + 1) |-> t[1 + j - 1]]
      BY <2>1, <1>1, Segment
    <3> QED
      BY <3>1, <2>1, <1>1
  <2> QED
    BY <2>2, <2>3, Zenon
<1>4. CASE e.way = "bools"
  <2>1. Decoded(e.way, t) = Positive(t) /\ Blank(e) = FALSE
    BY <1>4 DEF Decoded, Blank
  <2>2. ~Positive(t)
    <3>1. DOMAIN t = 1..w
      OBVIOUS
    <3> HIDE DEF t, w
    <3> QED
      BY <3>1, <1>1 DEF Positive
  <2>3. Positive(t) \in BOOLEAN
    BY DEF Positive
  <2> QED
    BY <2>1, <2>2, <2>3, Zenon
<1>5. QED
  BY <1>2, <1>3, <1>4 DEF Takes

\* The numbers of a member, one by one.
LEMMA MemberWritten ==
  ASSUME NEW e, Takes(e), NEW u \in Seq(Cell),
         e.arg.from + e.arg.count * e.arg.width <= Len(u),
         NEW v \in Seq(Numbers(e))
  PROVE  ReadMember(WriteMember(u, e, v), e) =
           [k \in 1..e.arg.count |-> IF k <= Len(v) THEN v[k] ELSE Blank(e)]
<1> DEFINE w == e.arg.width
           t == WriteMember(u, e, v)
           N(k) == Number(t, e.arg, k)
<1>1. ASSUME NEW k \in 1..e.arg.count
      PROVE  Decoded(e.way, N(k)) = IF k <= Len(v) THEN v[k] ELSE Blank(e)
  <2>1. N(k) = [j \in 1..w |-> CellOf(e, v, k, j)]
    <3>1. e.arg \in Place
      BY DEF Takes
    <3> QED
      BY <3>1, NumberWritten, Zenon
  <2>2. CASE k <= Len(v)
    <3>1. N(k) = [j \in 1..w |-> Encoded(e.way, v[k], w)[j]]
      BY <2>1, <2>2 DEF CellOf
    <3>2. v[k] \in Numbers(e)
      <4>1. k \in 1..Len(v)
        BY <2>2 DEF Takes, Place
      <4> QED
        BY <4>1
    <3>3. Decoded(e.way, N(k)) = v[k]
      BY <3>1, <3>2, NumberReadBack, Zenon
    <3> QED
      BY <2>2, <3>3, Zenon
  <2>3. CASE ~(k <= Len(v))
    <3>1. N(k) = [j \in 1..w |-> 0]
      BY <2>1, <2>3 DEF CellOf
    <3>2. Decoded(e.way, N(k)) = Blank(e)
      BY <3>1, BlankReadBack, Zenon
    <3> QED
      BY <2>3, <3>2, Zenon
  <2> QED
    BY <2>2, <2>3, Zenon
<1>2. ReadMember(t, e) = [k \in 1..e.arg.count |-> Decoded(e.way, N(k))]
  BY Zenon DEF ReadMember
<1> HIDE DEF N, t
<1>3. QED
  BY <1>1, <1>2, Zenon DEF t

\* alsactl_elem_value_set_<type>() and get_<type>(), and the other accessors of
\* a union: whatever number of values is given, as many as the member has are
\* answered as they were given, and the rest as zero.
THEOREM MemberReadBack ==
  ASSUME NEW e, e.type = "cells", Takes(e), NEW u \in Seq(Cell),
         e.arg.from + e.arg.count * e.arg.width <= Len(u),
         NEW v \in Seq(Numbers(e))
  PROVE  Fetched(Stored(u, e, v), e) =
           [k \in 1..e.arg.count |-> IF k <= Len(v) THEN v[k] ELSE Blank(e)]
<1>1. Stored(u, e, v) = WriteMember(u, e, v)
  BY DEF Stored, Takes
<1>2. Fetched(WriteMember(u, e, v), e) = ReadMember(WriteMember(u, e, v), e)
  BY DEF Fetched, Takes
<1>3. QED
  BY <1>1, <1>2, MemberWritten, Zenon

\* alsaseq_client_info_set_event_filter() and get_event_filter(): of any types
\* of event, those of a byte are answered and the others dropped.
THEOREM FilterReadBack ==
  ASSUME NEW e, e.type = "events", e.way = "bitmap", NEW old, NEW types \in SUBSET Nat
  PROVE  Fetched(Stored(old, e, types), e) = types \cap 0..255
<1>1. Stored(old, e, types) = Bitmap(types) /\ Fetched(Bitmap(types), e) = FromBitmap(Bitmap(types))
  BY Zenon DEF Stored, Fetched
<1>2. QED
  BY <1>1, BitmapRead DEF TypeBits, TypeBytes

\* A case of set_property() that writes some bits of a field.
OnBits(e, v) ==
    \/ e.way = "bit" /\ e.type = "boolean" /\ v \in BOOLEAN /\ e.arg # {}
    \/ e.way = "bit" /\ e.type = "enum" /\ v \in {0, 1} /\ e.arg # {}
    \/ e.way = "mask" /\ e.type = "flags" /\ v \subseteq e.arg

\* The flags that several properties of ALSASeqPortInfo, ALSASeqSubscribeData
\* and ALSASeqEvent keep in one field: each is answered as it was set.
THEOREM BitsReadBack ==
  ASSUME NEW e, NEW old, NEW v, OnBits(e, v)
  PROVE  Fetched(Stored(old, e, v), e) = v
<1>1. CASE e.way = "bit" /\ e.type = "boolean" /\ v \in BOOLEAN /\ e.arg # {}
  <2>1. Stored(old, e, v) = (IF v THEN old \cup e.arg ELSE old \ e.arg)
    BY <1>1, Zenon DEF Stored, True
  <2>2. \A x : Fetched(x, e) = (e.arg \subseteq x)
    BY <1>1, Zenon DEF Fetched
  <2>3. (e.arg \subseteq old \cup e.arg) /\ ~(e.arg \subseteq old \ e.arg)
    BY <1>1
  <2> QED
    BY <1>1, <2>1, <2>2, <2>3, Zenon
<1>2. CASE e.way = "bit" /\ e.type = "enum" /\ v \in {0, 1} /\ e.arg # {}
  <2>1. Stored(old, e, v) = (IF v # 0 THEN old \cup e.arg ELSE old \ e.arg)
    BY <1>2, Zenon DEF Stored, True
  <2>2. \A x : Fetched(x, e) = (IF e.arg \subseteq x THEN 1 ELSE 0)
    BY <1>2, Zenon DEF Fetched
  <2>3. (e.arg \subseteq old \cup e.arg) /\ ~(e.arg \subseteq old \ e.arg)
    BY <1>2
  <2>4. CASE v = 0
    BY <2>1, <2>2, <2>3, <2>4, Zenon
  <2>5. CASE v = 1
    <3>1. v # 0
      BY <2>5
    <3> QED
      BY <2>1, <2>2, <2>3, <2>5, <3>1, Zenon
  <2> QED
    BY <1>2, <2>4, <2>5
<1>3. CASE e.way = "mask" /\ e.type = "flags" /\ v \subseteq e.arg
  <2>1. Stored(old, e, v) = (old \ e.arg) \cup v
    BY <1>3, Zenon DEF Stored
  <2>2. \A x : Fetched(x, e) = x \cap e.arg
    BY <1>3, Zenon DEF Fetched
  <2>3. ((old \ e.arg) \cup v) \cap e.arg = v
    BY <1>3
  <2> QED
    BY <2>1, <2>2, <2>3, Zenon
<1>4. QED
  BY <1>1, <1>2, <1>3 DEF OnBits

\* Setting one of these properties leaves the others, whose bits are different
\* ones, as they were.
THEOREM BitsIndependent ==
  ASSUME NEW e, NEW old, NEW v, OnBits(e, v),
         NEW d, d.way \in {"bit", "mask"}, d.type # "cells", d.arg \cap e.arg = {}
  PROVE  Fetched(Stored(old, e, v), d) = Fetched(old, d)
<1> DEFINE x == Stored(old, e, v)
<1>1. \A b \in d.arg : b \in x <=> b \in old
  <2>1. CASE e.way = "bit" /\ e.type # "cells"
    <3>1. x = old \cup e.arg \/ x = old \ e.arg
      BY <2>1, Zenon DEF Stored
    <3> QED
      BY <3>1
  <2>2. CASE e.way = "mask" /\ e.type = "flags" /\ v \subseteq e.arg
    <3>1. x = (old \ e.arg) \cup v
      BY <2>2, Zenon DEF Stored
    <3> QED
      BY <3>1, <2>2
  <2> QED
    BY <2>1, <2>2 DEF OnBits
<1> HIDE DEF x
<1>2. (d.arg \subseteq x <=> d.arg \subseteq old) /\ x \cap d.arg = old \cap d.arg
  BY <1>1
<1>3. CASE d.way = "bit"
  <2>1. \A y : Fetched(y, d) = IF d.type = "boolean" THEN d.arg \subseteq y
                              ELSE IF d.arg \subseteq y THEN 1 ELSE 0
    BY <1>3, Zenon DEF Fetched
  <2> QED
    BY <1>2, <2>1, Zenon DEF x
<1>4. CASE d.way = "mask"
  <2>1. \A y : Fetched(y, d) = y \cap d.arg
    BY <1>4, Zenon DEF Fetched
  <2> QED
    BY <1>2, <2>1, Zenon DEF x
<1>5. QED
  BY <1>3, <1>4
=============================================================================
