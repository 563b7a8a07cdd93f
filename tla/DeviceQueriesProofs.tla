------------------------ MODULE DeviceQueriesProofs ------------------------
(***************************************************************************)
(* Proofs about the queries that look at nodes: for any nodes, any         *)
(* descriptors and any number of nodes that come and go.                   *)
(***************************************************************************)
EXTENDS DeviceQueries, FiniteSetTheorems, TLAPS

Calls == Lists \cup TimerCalls \cup ControlCalls \cup NameCalls \cup Pair \cup {"clock", "none"}

Steps == {"idle", "scan", "count", "fill", "lookup", "select", "open", "ioctl", "read",
          "close", "close failed", "version"}

Query == [call : Calls, node : Devices \cup {Timer}, pc : Steps,
          fd : Fds \cup {Bad}, ctl : Fds \cup {Bad},
          seen : SUBSET Devices, left : SUBSET Devices,
          count : Nat, list : Seq(Nat), set : BOOLEAN, ok : BOOLEAN]

Past == [moves : Nat, back : BOOLEAN, beyond : BOOLEAN, unset : BOOLEAN,
         stray : BOOLEAN, refused : BOOLEAN]

QueryType ==
  /\ devs \in SUBSET Devices
  /\ fds \in [Fds -> {"free", "query", "other"}]
  /\ q \in Query
  /\ past \in Past

\* Which call is at which step, and which of its descriptors are set there.
Control ==
  /\ q.pc \in {"scan", "count", "fill"} => q.call \in Lists
  /\ q.call \in Lists => q.pc \in {"idle", "scan", "count", "fill"}
  /\ q.pc \in {"select", "version"} => q.call \in Pair
  /\ q.pc \in {"ioctl", "read", "close failed"} => q.call \notin Pair
  /\ q.pc \in {"scan", "count", "fill", "lookup", "select"} =>
        q.fd = Bad /\ q.ctl = Bad /\ ~past.unset
  /\ q.pc = "open" => q.fd = Bad /\ ~past.unset
  /\ q.call \notin Pair => q.ctl = Bad
  /\ q.call \in Pair => ~past.unset /\ (q.pc = "close" => q.fd = Bad \/ q.fd # q.ctl)
  /\ q.pc = "version" => q.fd # Bad

\* The descriptors that the query has at its step.
Held ==
  IF q.pc = "idle" \/ past.unset THEN {}
  ELSE ({q.fd} \cup (IF q.pc = "version" THEN {} ELSE {q.ctl})) \ {Bad}

Queried == {f \in Fds : fds[f] = "query"}

\* They are open, they are its own, and it has no other.
Own ==
  /\ Held \subseteq Queried
  /\ ~past.refused => Queried \subseteq Held
  /\ past.stray => past.unset

OwnInv == QueryType /\ Control /\ Own

\* The nodes that exist are of the kinds that the call looks at.
Looked ==
  /\ q.pc # "idle" => \A d \in devs : Watched(d, q.call, q.node)
  /\ q.call \in Lists => /\ q.node \in Devices /\ q.node.kind = Kind[q.call]
                         /\ \A d \in q.seen : d.kind = q.node.kind
  /\ q.left \subseteq q.seen
  /\ past.back => past.moves > 0
  /\ q.pc \in {"count", "fill"} /\ past.moves = 0 => devs = q.seen
  /\ q.pc \in {"scan", "count"} => q.list = <<>>
  /\ q.pc = "scan" => q.count = 0
  /\ q.pc = "fill" => q.count # 0

Matches(d) == IsPrefix(QPrefix, SysName(d))

Num(d) == long_from_string(SysNum(d))

\* C are the nodes that the first pass counted.
Counting(C) ==
  /\ C \subseteq q.seen /\ IsFiniteSet(C) /\ Cardinality(C) = q.count
  /\ \A d \in C : Matches(d)
  /\ ~past.back => \A d \in devs : Matches(d) /\ d \in q.seen => d \in C \/ d \in q.left

\* C are the nodes that the first pass counted, F those that the second one
\* found there again, with their numbers in the array.
Filling(C, F) ==
  /\ IsFiniteSet(C) /\ Cardinality(C) = q.count
  /\ ~past.back => F \subseteq C /\ \A d \in devs : Matches(d) /\ d \in q.seen => d \in C
  /\ F \subseteq q.seen \ q.left /\ IsFiniteSet(F) /\ Cardinality(F) = Len(q.list)
  /\ \A d \in F : Matches(d)
  /\ past.moves = 0 => \A d \in q.seen : Matches(d) => d \in F \/ d \in q.left
  /\ Range(q.list) = {Num(d) : d \in F}
  /\ (\A d, e \in F : Num(d) = Num(e) => d = e) => IsInjective(q.list)

ScanSound ==
  /\ q.pc = "count" => \E C \in SUBSET Devices : Counting(C) /\ C \cap q.left = {}
  /\ q.pc = "fill" => \E C, F \in SUBSET Devices : Filling(C, F)
  /\ WithinArray
  /\ ListExact

QueryInv == OwnInv /\ Looked /\ ScanSound
----------------------------------------------------------------------------
(* Descriptors. *)

\* A set of natural numbers that is not empty has a least member.
LEMMA LeastNumber ==
    ASSUME NEW T \in SUBSET Nat, T # {}
    PROVE  \E x \in T : \A y \in T : x <= y
<1> DEFINE R == {ss \in Nat \X Nat : ss[1] < ss[2]}
<1>1. IsWellFoundedOn(R, Nat)
  BY NatLessThanWellFounded, Zenon DEF OpToRel
<1>2. R = {ss \in Nat \X Nat : ss[1] < ss[2]}
  OBVIOUS
<1> HIDE DEF R
<1>3. PICK x \in T : \A y \in T : ~(<<y, x>> \in R)
  BY <1>1, WFMin
<1>4. ASSUME NEW y \in T PROVE x <= y
  <2>1. ~(y < x)
    BY <1>2, <1>3
  <2>2. QED
    BY <2>1
<1>5. QED
  BY <1>3, <1>4

\* open(2) answers a descriptor that was free.
LEMMA LowestIsFree ==
    ASSUME Free # {}
    PROVE  LowestFree \in Fds /\ fds[LowestFree] = "free" /\ LowestFree # Bad
<1>1. Free \in SUBSET Nat
  BY DeviceQueriesAssumption DEF Free
<1>2. \E f \in Free : \A g \in Free : f <= g
  BY <1>1, LeastNumber
<1>3. LowestFree \in Free
  BY <1>2, Zenon DEF LowestFree
<1>4. QED
  BY <1>3, DeviceQueriesAssumption DEF Free, Bad

FdType == fds \in [Fds -> {"free", "query", "other"}]

LEMMA QueryOpens ==
    ASSUME FdType, Free # {}, fds' = [fds EXCEPT ![LowestFree] = "query"]
    PROVE  /\ FdType' /\ LowestFree \in Fds /\ LowestFree # Bad /\ LowestFree \notin Queried
           /\ Queried' = Queried \cup {LowestFree}
BY LowestIsFree DEF FdType, Queried

LEMMA FdClosed ==
    ASSUME FdType, NEW fd \in Fds \cup {Bad}, fds' = Closed(fd)
    PROVE  /\ FdType' /\ Queried' = Queried \ {fd}
           /\ Stray(fd) => fd \in Fds /\ fd \notin Queried
<1>0. Bad \notin Fds
  BY DeviceQueriesAssumption DEF Bad
<1>1. CASE fd \in Fds
  BY <1>1 DEF FdType, Queried, Closed, Stray
<1>2. CASE fd \notin Fds
  BY <1>0, <1>2 DEF FdType, Queried, Closed, Stray
<1>3. QED
  BY <1>1, <1>2

LEMMA FdsKept ==
    ASSUME FdType, UNCHANGED fds
    PROVE  FdType' /\ Queried' = Queried
BY DEF FdType, Queried
----------------------------------------------------------------------------
(* Steps of the query that scan no nodes. *)

\* The query goes on at pc with these descriptors.
Stepped(pc, fd, ctl) ==
    /\ q' \in Query /\ q'.pc = pc /\ q'.fd = fd /\ q'.ctl = ctl
    /\ q'.call = q.call /\ q'.node = q.node /\ q'.seen = q.seen /\ q'.left = q.left

\* What happened to the nodes stays as it was.
Noted(unset, stray, refused) ==
    /\ past' \in Past
    /\ past'.moves = past.moves /\ past'.back = past.back /\ past'.beyond = past.beyond
    /\ past'.unset = unset /\ past'.stray = stray /\ past'.refused = refused

LEMMA Goes ==
    ASSUME q \in Query, NEW pc \in Steps, Goto(pc)
    PROVE  Stepped(pc, q.fd, q.ctl)
<1>1. q' = [q EXCEPT !.pc = pc]
  BY DEF Goto
<1>2. q' \in Query
  BY <1>1 DEF Query
<1>3. QED
  BY <1>1, <1>2 DEF Stepped, Query

LEMMA Returns ==
    ASSUME q \in Query, NEW ok \in BOOLEAN, NEW set \in BOOLEAN, Return(ok, set)
    PROVE  Stepped("idle", q.fd, q.ctl) /\ q'.ok = ok
<1>1. q' = [q EXCEPT !.pc = "idle", !.ok = ok, !.set = set]
  BY DEF Return
<1>2. q' \in Query
  BY <1>1 DEF Query, Steps
<1>3. QED
  BY <1>1, <1>2 DEF Stepped, Query

LEMMA GoesWith ==
    ASSUME q \in Query, NEW pc \in Steps, NEW fd \in Fds \cup {Bad},
           q' = [q EXCEPT !.pc = pc, !.fd = fd]
    PROVE  Stepped(pc, fd, q.ctl)
<1>1. q' \in Query
  BY DEF Query
<1>2. QED
  BY <1>1 DEF Stepped, Query

LEMMA PastSame ==
    ASSUME past \in Past, UNCHANGED past
    PROVE  Noted(past.unset, past.stray, past.refused)
BY DEF Noted, Past

LEMMA PastUnset ==
    ASSUME past \in Past, past' = [past EXCEPT !.unset = TRUE]
    PROVE  Noted(TRUE, past.stray, past.refused)
<1>1. past' \in Past
  BY DEF Past
<1>2. QED
  BY <1>1 DEF Noted, Past

LEMMA PastRefused ==
    ASSUME past \in Past, past' = [past EXCEPT !.refused = TRUE]
    PROVE  Noted(past.unset, past.stray, TRUE)
<1>1. past' \in Past
  BY DEF Past
<1>2. QED
  BY <1>1 DEF Noted, Past

LEMMA PastStray ==
    ASSUME past \in Past, NEW fd, past' = [past EXCEPT !.stray = @ \/ Stray(fd)]
    PROVE  Noted(past.unset, past.stray \/ Stray(fd), past.refused)
<1>1. (past.stray \/ Stray(fd)) \in BOOLEAN
  BY DEF Stray
<1> DEFINE stray == past.stray \/ Stray(fd)
<1>2. past' = [past EXCEPT !.stray = stray]
  OBVIOUS
<1> HIDE DEF stray
<1>3. stray \in BOOLEAN
  BY <1>1 DEF stray
<1>4. past' \in Past
  BY <1>2, <1>3 DEF Past
<1>5. past'.stray = stray
  BY <1>2 DEF Past
<1>6. past'.stray = (past.stray \/ Stray(fd))
  BY <1>5 DEF stray
<1>7. /\ past'.moves = past.moves /\ past'.back = past.back /\ past'.beyond = past.beyond
      /\ past'.unset = past.unset /\ past'.refused = past.refused
  BY <1>2 DEF Past
<1>8. QED
  BY <1>4, <1>6, <1>7, Zenon DEF Noted

\* Such a step says nothing about nodes and lists.
LEMMA QuietKeeps ==
    ASSUME QueryInv, UNCHANGED devs, q.call \notin Lists, q.pc # "idle",
           NEW pc \in Steps \ {"scan", "count", "fill"}, NEW fd, NEW ctl, Stepped(pc, fd, ctl),
           NEW unset, NEW stray, NEW refused, Noted(unset, stray, refused)
    PROVE  Looked' /\ ScanSound'
<1>1. Looked'
  <2>1. past'.moves = past.moves /\ past'.back = past.back
    BY DEF Noted
  <2>2. /\ q'.call \notin Lists /\ q'.pc \notin {"scan", "count", "fill"}
        /\ q'.call = q.call /\ q'.node = q.node /\ q'.left = q.left /\ q'.seen = q.seen
    BY DEF Stepped
  <2>3. \A d \in devs' : Watched(d, q'.call, q'.node)
    BY <2>2 DEF QueryInv, Looked
  <2>4. QED
    BY <2>1, <2>2, <2>3 DEF QueryInv, Looked
<1>2. WithinArray'
  BY DEF QueryInv, ScanSound, WithinArray, Noted
<1>3. ListExact'
  BY DEF ListExact, Stepped
<1>4. q'.pc # "count" /\ q'.pc # "fill"
  BY DEF Stepped
<1>5. QED
  BY <1>1, <1>2, <1>3, <1>4, Zenon DEF ScanSound

\* The parts of the invariant that such a step has to keep.
LEMMA OwnKept ==
    ASSUME QueryInv, UNCHANGED devs, q.call \notin Lists, q.pc # "idle",
           NEW pc \in Steps \ {"scan", "count", "fill"}, NEW fd, NEW ctl, Stepped(pc, fd, ctl),
           NEW unset, NEW stray, NEW refused, Noted(unset, stray, refused),
           FdType', Control', Own'
    PROVE  QueryInv'
<1>1. Looked' /\ ScanSound'
  BY QuietKeeps
<1>2. QueryType'
  BY DEF QueryInv, OwnInv, QueryType, FdType, Stepped, Noted
<1>3. QED
  BY <1>1, <1>2 DEF QueryInv, OwnInv

LEMMA TypeGives ==
    ASSUME QueryInv
    PROVE  /\ FdType /\ q \in Query /\ past \in Past /\ Control /\ Own
           /\ q.fd \in Fds \cup {Bad} /\ q.ctl \in Fds \cup {Bad}
           /\ past.unset \in BOOLEAN /\ past.stray \in BOOLEAN /\ past.refused \in BOOLEAN
BY DEF QueryInv, OwnInv, QueryType, FdType, Query, Past

\* The call ends while it has no descriptor.
LEMMA EndsWithout ==
    ASSUME QueryInv, UNCHANGED <<devs, fds>>, q.call \notin Lists, q.pc # "idle",
           q.fd = Bad, q.ctl = Bad,
           Stepped("idle", q.fd, q.ctl), Noted(past.unset, past.stray, past.refused)
    PROVE  QueryInv'
<1>1. FdType' /\ Queried' = Queried
  BY TypeGives, FdsKept
<1>2. Control'
  BY TypeGives DEF Control, Stepped, Noted
<1>3. Held = {} /\ Held' = {}
  BY DEF Held, Stepped
<1>4. Own'
  BY TypeGives, <1>1, <1>3 DEF Own, Noted
<1>5. "idle" \in Steps \ {"scan", "count", "fill"}
  BY DEF Steps
<1>6. QED
  BY <1>1, <1>2, <1>4, <1>5, OwnKept

\* It goes on with what it has.
LEMMA GoesOn ==
    ASSUME QueryInv, UNCHANGED <<devs, fds>>, q.call \notin Lists, q.pc # "idle",
           q.pc # "version",
           NEW pc \in Steps \ {"scan", "count", "fill", "idle", "version"},
           Stepped(pc, q.fd, q.ctl), Noted(past.unset, past.stray, past.refused), Control'
    PROVE  QueryInv'
<1>1. FdType' /\ Queried' = Queried
  BY TypeGives, FdsKept
<1>2. Held' = Held
  BY DEF Held, Stepped, Noted
<1>3. Own'
  BY TypeGives, <1>1, <1>2 DEF Own, Noted
<1>4. QED
  BY <1>1, <1>3, OwnKept

\* It opens its first descriptor.
LEMMA OpensOne ==
    ASSUME QueryInv, UNCHANGED devs, q.call \notin Lists, q.pc # "idle", ~past.unset,
           q.fd = Bad, q.ctl = Bad, Free # {}, fds' = [fds EXCEPT ![LowestFree] = "query"],
           NEW pc \in Steps \ {"scan", "count", "fill", "idle", "version"},
           NEW fd, NEW ctl, {fd, ctl} = {Bad, LowestFree},
           Stepped(pc, fd, ctl), Noted(past.unset, past.stray, past.refused), Control'
    PROVE  QueryInv'
<1>1. /\ FdType' /\ LowestFree # Bad
      /\ Queried' = Queried \cup {LowestFree}
  BY TypeGives, QueryOpens
<1>2. Held = {}
  BY DEF Held
<1>3. Held' = {LowestFree}
  <2>1. Held' = {fd, ctl} \ {Bad}
    BY DEF Held, Stepped, Noted
  <2>2. QED
    BY <2>1, <1>1
<1>4. Own'
  BY TypeGives, <1>1, <1>2, <1>3 DEF Own, Noted
<1>5. QED
  BY <1>1, <1>4, OwnKept
----------------------------------------------------------------------------
(* One lemma for each action. *)

LEMMA LookupNameKeeps ==
    ASSUME QueryInv, LookupName
    PROVE  QueryInv'
<1>1. /\ q.call \notin Lists /\ q.pc = "lookup" /\ q.fd = Bad /\ q.ctl = Bad
      /\ UNCHANGED <<devs, fds, past>>
  BY TypeGives DEF LookupName, At, NameCalls, Lists, Control
<1>2. Stepped("idle", q.fd, q.ctl)
  BY TypeGives, Returns DEF LookupName
<1>3. Noted(past.unset, past.stray, past.refused)
  BY <1>1, TypeGives, PastSame
<1>4. QED
  BY <1>1, <1>2, <1>3, EndsWithout

\* A lookup that found no name leaves the descriptor to chance.
LEMMA LeftUnset ==
    ASSUME QueryInv, UNCHANGED <<devs, fds>>, q.pc = "lookup",
           q.call \in TimerCalls \cup ControlCalls,
           NEW fd \in Uninitialised, NEW pc \in {"ioctl", "close failed"},
           q' = [q EXCEPT !.pc = pc, !.fd = fd], past' = [past EXCEPT !.unset = TRUE]
    PROVE  QueryInv'
<1>0. fd \in Fds \cup {Bad} /\ pc \in Steps \ {"scan", "count", "fill"}
  BY DEF Uninitialised, Steps
<1>1. q.call \notin Lists /\ q.call \notin Pair
  BY DEF TimerCalls, ControlCalls, Lists, Pair
<1>2. q.fd = Bad /\ q.ctl = Bad /\ ~past.unset
  BY TypeGives DEF Control
<1>3. Stepped(pc, fd, q.ctl)
  BY <1>0, TypeGives, GoesWith
<1>4. Noted(TRUE, past.stray, past.refused)
  BY TypeGives, PastUnset
<1>5. FdType' /\ Queried' = Queried
  BY TypeGives, FdsKept
<1>6. Control'
  BY <1>1, <1>2, <1>3, <1>4, TypeGives DEF Control, Stepped, Noted
<1>7. Held = {} /\ Held' = {}
  BY <1>2, <1>4 DEF Held, Noted
<1>8. Own'
  BY <1>4, <1>5, <1>7, TypeGives DEF Own, Noted
<1>9. QED
  BY <1>0, <1>1, <1>3, <1>4, <1>5, <1>6, <1>8, OwnKept

\* A lookup that found the name goes on to open the node.
LEMMA GoesToOpen ==
    ASSUME QueryInv, UNCHANGED <<devs, fds, past>>, q.pc = "lookup", q.call \notin Lists,
           NEW pc \in {"open", "select"}, Goto(pc), pc = "select" => q.call \in Pair
    PROVE  QueryInv'
<1>0. pc \in Steps \ {"scan", "count", "fill", "idle", "version"}
  BY DEF Steps
<1>1. Stepped(pc, q.fd, q.ctl)
  BY <1>0, TypeGives, Goes
<1>2. Noted(past.unset, past.stray, past.refused)
  BY TypeGives, PastSame
<1>3. Control'
  BY <1>1, <1>2, TypeGives DEF Control, Stepped, Noted
<1>4. QED
  BY <1>0, <1>1, <1>2, <1>3, GoesOn

LEMMA LookupTimerKeeps ==
    ASSUME QueryInv, LookupTimer
    PROVE  QueryInv'
<1>1. q.pc = "lookup" /\ q.call \in TimerCalls /\ UNCHANGED <<devs, fds>> /\ q.call \notin Lists
  BY DEF LookupTimer, At, TimerCalls, Lists
<1>2. CASE q.node \in devs
  BY <1>1, <1>2, GoesToOpen DEF LookupTimer
<1>3. CASE q.node \notin devs
  BY <1>1, <1>3, LeftUnset DEF LookupTimer
<1>4. QED
  BY <1>2, <1>3

LEMMA LookupControlKeeps ==
    ASSUME QueryInv, LookupControl
    PROVE  QueryInv'
<1>1. q.pc = "lookup" /\ q.call \in ControlCalls /\ UNCHANGED <<devs, fds>> /\ q.call \notin Lists
  BY DEF LookupControl, At, ControlCalls, Lists
<1>2. CASE q.node \in devs
  BY <1>1, <1>2, GoesToOpen DEF LookupControl
<1>3. CASE q.node \notin devs
  BY <1>1, <1>3, LeftUnset DEF LookupControl
<1>4. QED
  BY <1>2, <1>3

LEMMA LookupMidiKeeps ==
    ASSUME QueryInv, LookupMidi
    PROVE  QueryInv'
<1>1. /\ q.pc = "lookup" /\ q.call \in Pair /\ UNCHANGED <<devs, fds, past>>
      /\ q.call \notin Lists /\ q.fd = Bad /\ q.ctl = Bad
  BY TypeGives DEF LookupMidi, At, Pair, Lists, Control
<1>2. CASE q.node \in devs
  BY <1>1, <1>2, GoesToOpen DEF LookupMidi
<1>3. CASE q.node \notin devs
  <2>1. Stepped("idle", q.fd, q.ctl)
    BY <1>3, TypeGives, Returns DEF LookupMidi
  <2>2. Noted(past.unset, past.stray, past.refused)
    BY <1>1, TypeGives, PastSame
  <2>3. QED
    BY <1>1, <2>1, <2>2, EndsWithout
<1>4. QED
  BY <1>2, <1>3

\* open(2) by a call that has no descriptor, into fd.
LEMMA OpenKeeps ==
    ASSUME QueryInv, UNCHANGED <<devs, past>>, q.pc = "open", q.call \notin Pair, Free # {},
           q.call \notin Lists,
           fds' = [fds EXCEPT ![LowestFree] = "query"],
           NEW pc \in {"ioctl", "read", "close", "close failed"},
           q' = [q EXCEPT !.pc = pc, !.fd = LowestFree]
    PROVE  QueryInv'
<1>0. pc \in Steps \ {"scan", "count", "fill", "idle", "version"}
  BY DEF Steps
<1>1. LowestFree \in Fds \cup {Bad}
  BY LowestIsFree
<1>2. q.fd = Bad /\ q.ctl = Bad /\ ~past.unset
  BY TypeGives DEF Control
<1>3. Stepped(pc, LowestFree, q.ctl)
  BY <1>0, <1>1, TypeGives, GoesWith
<1>4. Noted(past.unset, past.stray, past.refused)
  BY TypeGives, PastSame
<1>5. Control'
  BY <1>2, <1>3, <1>4, TypeGives DEF Control, Stepped, Noted
<1>6. {LowestFree, q.ctl} = {Bad, LowestFree}
  BY <1>2
<1>7. QED
  BY <1>0, <1>2, <1>3, <1>4, <1>5, <1>6, OpensOne

\* A call that fails to open its first descriptor ends.
LEMMA OpenFails ==
    ASSUME QueryInv, UNCHANGED <<devs, fds, past>>, q.pc \in {"open", "select"},
           q.pc = "open" => q.call \notin Pair, q.call \notin Lists, Return(FALSE, FALSE)
    PROVE  QueryInv'
<1>1. q.fd = Bad /\ q.ctl = Bad
  BY TypeGives DEF Control
<1>2. Stepped("idle", q.fd, q.ctl)
  BY TypeGives, Returns
<1>3. Noted(past.unset, past.stray, past.refused)
  BY TypeGives, PastSame
<1>4. QED
  BY <1>1, <1>2, <1>3, EndsWithout

LEMMA OpenTimerKeeps ==
    ASSUME QueryInv, OpenTimer
    PROVE  QueryInv'
<1>1. /\ q.pc = "open" /\ q.call \notin Lists /\ q.call \notin Pair /\ UNCHANGED <<devs, past>>
  BY DEF OpenTimer, At, TimerCalls, Lists, Pair
<1>2. CASE /\ Opens(q.node) /\ q' = [q EXCEPT !.pc = "ioctl", !.fd = LowestFree]
           /\ fds' = [fds EXCEPT ![LowestFree] = "query"]
  BY <1>1, <1>2, OpenKeeps DEF Opens
<1>3. CASE Return(FALSE, FALSE) /\ UNCHANGED fds
  BY <1>1, <1>3, OpenFails
<1>4. QED
  BY <1>2, <1>3 DEF OpenTimer

LEMMA OpenParameterKeeps ==
    ASSUME QueryInv, OpenParameter
    PROVE  QueryInv'
<1>1. /\ q.pc = "open" /\ q.call \notin Lists /\ q.call \notin Pair /\ UNCHANGED <<devs, past>>
  BY DEF OpenParameter, At, Lists, Pair
<1>2. CASE /\ Free # {} /\ q' = [q EXCEPT !.pc = "read", !.fd = LowestFree]
           /\ fds' = [fds EXCEPT ![LowestFree] = "query"]
  BY <1>1, <1>2, OpenKeeps
<1>3. CASE Return(FALSE, FALSE) /\ UNCHANGED fds
  BY <1>1, <1>3, OpenFails
<1>4. QED
  BY <1>2, <1>3 DEF OpenParameter

\* A call that has at most one descriptor goes on to use or to close it.
LEMMA GoesToClose ==
    ASSUME QueryInv, UNCHANGED <<devs, fds, past>>, q.pc \in {"open", "ioctl", "read"},
           q.call \notin Lists, q.call \notin Pair,
           NEW pc \in {"ioctl", "close", "close failed"}, Stepped(pc, q.fd, q.ctl)
    PROVE  QueryInv'
<1>0. pc \in Steps \ {"scan", "count", "fill", "idle", "version"}
  BY DEF Steps
<1>1. Noted(past.unset, past.stray, past.refused)
  BY TypeGives, PastSame
<1>2. Control'
  BY <1>1, TypeGives DEF Control, Stepped, Noted
<1>3. QED
  BY <1>0, <1>1, <1>2, GoesOn

LEMMA OpenControlKeeps ==
    ASSUME QueryInv, OpenControl
    PROVE  QueryInv'
<1>1. /\ q.pc = "open" /\ q.call \notin Lists /\ q.call \notin Pair /\ UNCHANGED <<devs, past>>
  BY DEF OpenControl, At, ControlCalls, Lists, Pair
<1>2. CASE /\ Opens(q.node)
           /\ \E pc \in {"close", "close failed"} : q' = [q EXCEPT !.pc = pc, !.fd = LowestFree]
           /\ fds' = [fds EXCEPT ![LowestFree] = "query"]
  BY <1>1, <1>2, OpenKeeps DEF Opens
<1>3. CASE Goto("close failed") /\ UNCHANGED fds
  <2>1. Stepped("close failed", q.fd, q.ctl)
    BY <1>3, TypeGives, Goes DEF Steps
  <2>2. QED
    BY <1>1, <1>3, <2>1, GoesToClose
<1>4. QED
  BY <1>2, <1>3 DEF OpenControl

LEMMA IoctlKeeps ==
    ASSUME QueryInv, Ioctl
    PROVE  QueryInv'
<1>1. /\ q.pc = "ioctl" /\ q.call \notin Lists /\ q.call \notin Pair
      /\ UNCHANGED <<devs, fds, past>>
  BY TypeGives DEF Ioctl, Control
<1>2. CASE \E pc \in {"close", "close failed"} : Goto(pc)
  <2>1. PICK pc \in {"close", "close failed"} : Goto(pc)
    BY <1>2
  <2>2. Stepped(pc, q.fd, q.ctl)
    BY <2>1, TypeGives, Goes DEF Steps
  <2>3. QED
    BY <1>1, <2>2, GoesToClose
<1>3. CASE q' = [q EXCEPT !.list = Append(@, Len(@))]
  <2>1. Append(q.list, Len(q.list)) \in Seq(Nat)
    BY TypeGives DEF Query
  <2>2. q' \in Query
    BY <1>3, <2>1, TypeGives DEF Query
  <2>3. Stepped("ioctl", q.fd, q.ctl)
    BY <1>1, <1>3, <2>2, TypeGives DEF Stepped, Query
  <2>4. QED
    BY <1>1, <2>3, GoesToClose
<1>4. QED
  BY <1>2, <1>3 DEF Ioctl

LEMMA ReadParameterKeeps ==
    ASSUME QueryInv, ReadParameter
    PROVE  QueryInv'
<1>1. /\ q.pc = "read" /\ q.call \notin Lists /\ q.call \notin Pair
      /\ UNCHANGED <<devs, fds, past>>
  BY TypeGives DEF ReadParameter, Control
<1>2. PICK pc \in {"close", "close failed"} : Goto(pc)
  BY DEF ReadParameter
<1>3. Stepped(pc, q.fd, q.ctl)
  BY <1>2, TypeGives, Goes DEF Steps
<1>4. QED
  BY <1>1, <1>3, GoesToClose

LEMMA CloseKeeps ==
    ASSUME QueryInv, Close
    PROVE  QueryInv'
<1>1. /\ q.pc \in {"close", "close failed"} /\ q.call \notin Lists /\ q.call \notin Pair
      /\ q.ctl = Bad /\ UNCHANGED devs
  BY TypeGives DEF Close, Control, Pair
<1>2. FdType' /\ Queried' = Queried \ {q.fd} /\ (Stray(q.fd) => q.fd \in Fds /\ q.fd \notin Queried)
  BY TypeGives, FdClosed DEF Close
<1>3. Noted(past.unset, past.stray \/ Stray(q.fd), past.refused)
  BY TypeGives, PastStray DEF Close
<1>4. Stepped("idle", q.fd, q.ctl)
  <2>1. (q.pc = "close") \in BOOLEAN
    OBVIOUS
  <2>2. QED
    BY <2>1, TypeGives, Returns DEF Close
<1>5. Held = (IF past.unset THEN {} ELSE {q.fd} \ {Bad}) /\ Held' = {}
  BY <1>1, <1>4 DEF Held, Stepped
<1>6. Stray(q.fd) => past.unset
  BY <1>2, <1>5, TypeGives, DeviceQueriesAssumption DEF Own, Bad
<1>7. ~past.refused => Queried' = {}
  BY <1>2, <1>5, TypeGives DEF Own
<1>8. Own'
  BY <1>3, <1>5, <1>6, <1>7, TypeGives DEF Own, Noted
<1>9. Control'
  BY <1>1, <1>3, <1>4, TypeGives DEF Control, Stepped, Noted
<1>10. "idle" \in Steps \ {"scan", "count", "fill"}
  BY DEF Steps
<1>11. QED
  BY <1>1, <1>2, <1>3, <1>4, <1>8, <1>9, <1>10, OwnKept

LEMMA SelectSubdeviceKeeps ==
    ASSUME QueryInv, SelectSubdevice
    PROVE  QueryInv'
<1>1. /\ q.pc = "select" /\ q.call \notin Lists /\ q.call \in Pair /\ UNCHANGED devs
      /\ q.fd = Bad /\ q.ctl = Bad /\ ~past.unset
  BY TypeGives DEF SelectSubdevice, At, Pair, Lists, Control
<1>2. CASE Return(FALSE, FALSE) /\ UNCHANGED <<fds, past>>
  BY <1>1, <1>2, OpenFails
<1>3. ASSUME Free # {}, fds' = [fds EXCEPT ![LowestFree] = "query"],
             q' = [q EXCEPT !.pc = "open", !.ctl = LowestFree], UNCHANGED past
      PROVE  QueryInv'
  <2>0. "open" \in Steps \ {"scan", "count", "fill", "idle", "version"}
    BY DEF Steps
  <2>1. q' \in Query
    BY <1>3, <2>0, LowestIsFree, TypeGives DEF Query
  <2>2. Stepped("open", q.fd, LowestFree)
    BY <1>3, <2>1, TypeGives DEF Stepped, Query
  <2>3. Noted(past.unset, past.stray, past.refused)
    BY <1>3, TypeGives, PastSame
  <2>4. Control'
    BY <1>1, <2>2, <2>3, TypeGives DEF Control, Stepped, Noted
  <2>5. {q.fd, LowestFree} = {Bad, LowestFree}
    BY <1>1
  <2>6. QED
    BY <1>1, <1>3, <2>0, <2>2, <2>3, <2>4, <2>5, OpensOne
<1>4. ASSUME Free # {}, fds' = [fds EXCEPT ![LowestFree] = "query"],
             Return(FALSE, FALSE), past' = [past EXCEPT !.refused = TRUE]
      PROVE  QueryInv'
  <2>0. "idle" \in Steps \ {"scan", "count", "fill"}
    BY DEF Steps
  <2>1. FdType'
    BY <1>4, TypeGives, QueryOpens
  <2>2. Stepped("idle", q.fd, q.ctl)
    BY <1>4, TypeGives, Returns
  <2>3. Noted(past.unset, past.stray, TRUE)
    BY <1>4, TypeGives, PastRefused
  <2>4. Control'
    BY <1>1, <2>2, <2>3, TypeGives DEF Control, Stepped, Noted
  <2>5. Held' = {}
    BY <2>2 DEF Held, Stepped
  <2>6. Own'
    BY <2>3, <2>5, TypeGives DEF Own, Noted
  <2>7. QED
    BY <1>1, <2>0, <2>1, <2>2, <2>3, <2>4, <2>6, OwnKept
<1>5. QED
  BY <1>2, <1>3, <1>4 DEF SelectSubdevice, Opens

LEMMA OpenMidiKeeps ==
    ASSUME QueryInv, OpenMidi
    PROVE  QueryInv'
<1>0. "close" \in Steps \ {"scan", "count", "fill", "idle", "version"}
  BY DEF Steps
<1>1. /\ q.pc = "open" /\ q.call \notin Lists /\ q.call \in Pair /\ UNCHANGED <<devs, past>>
      /\ q.fd = Bad /\ ~past.unset
  BY TypeGives DEF OpenMidi, At, Pair, Lists, Control
<1>2. Noted(past.unset, past.stray, past.refused)
  BY <1>1, TypeGives, PastSame
<1>3. ASSUME Free # {}, fds' = [fds EXCEPT ![LowestFree] = "query"],
             q' = [q EXCEPT !.pc = "close", !.fd = LowestFree]
      PROVE  QueryInv'
  <2>1. /\ FdType' /\ LowestFree # Bad /\ LowestFree \in Fds \cup {Bad} /\ LowestFree \notin Queried
        /\ Queried' = Queried \cup {LowestFree}
    BY <1>3, TypeGives, QueryOpens
  <2>2. Stepped("close", LowestFree, q.ctl)
    BY <1>0, <1>3, <2>1, TypeGives, GoesWith
  <2>3. Held = {q.ctl} \ {Bad} /\ Held' = {LowestFree, q.ctl} \ {Bad}
    BY <1>1, <1>2, <2>2 DEF Held, Stepped, Noted
  <2>4. LowestFree # q.ctl
    BY <2>1, <2>3, TypeGives DEF Own
  <2>5. Control'
    BY <1>1, <1>2, <2>2, <2>4, TypeGives DEF Control, Stepped, Noted
  <2>6. Own'
    BY <1>2, <2>1, <2>3, TypeGives DEF Own, Noted
  <2>7. QED
    BY <1>0, <1>1, <1>2, <2>1, <2>2, <2>5, <2>6, OwnKept
<1>4. ASSUME Goto("close"), UNCHANGED fds
      PROVE  QueryInv'
  <2>1. Stepped("close", q.fd, q.ctl)
    BY <1>0, <1>4, TypeGives, Goes
  <2>2. Control'
    BY <1>1, <1>2, <2>1, TypeGives DEF Control, Stepped, Noted
  <2>3. QED
    BY <1>0, <1>1, <1>2, <1>4, <2>1, <2>2, GoesOn
<1>5. QED
  BY <1>3, <1>4 DEF OpenMidi, Opens

LEMMA CloseControlKeeps ==
    ASSUME QueryInv, CloseControl
    PROVE  QueryInv'
<1>0. Bad \notin Fds
  BY DeviceQueriesAssumption DEF Bad
<1>1. /\ q.pc = "close" /\ q.call \notin Lists /\ q.call \in Pair /\ UNCHANGED devs
      /\ ~past.unset /\ (q.fd = Bad \/ q.fd # q.ctl)
  BY TypeGives DEF CloseControl, At, Pair, Lists, Control
<1>2. /\ FdType' /\ Queried' = Queried \ {q.ctl}
      /\ Stray(q.ctl) => q.ctl \in Fds /\ q.ctl \notin Queried
  BY TypeGives, FdClosed DEF CloseControl
<1>3. Noted(past.unset, past.stray \/ Stray(q.ctl), past.refused)
  BY TypeGives, PastStray DEF CloseControl
<1>4. Held = {q.fd, q.ctl} \ {Bad}
  BY <1>1 DEF Held
<1>5. ~Stray(q.ctl)
  BY <1>0, <1>2, <1>4, TypeGives DEF Own
<1>6. CASE q.fd = Bad
  <2>1. Stepped("idle", q.fd, q.ctl)
    BY <1>6, TypeGives, Returns DEF CloseControl
  <2>2. Held' = {}
    BY <2>1 DEF Held, Stepped
  <2>3. Own'
    BY <1>2, <1>3, <1>4, <1>5, <1>6, <2>2, TypeGives DEF Own, Noted
  <2>4. Control'
    BY <1>1, <1>3, <1>6, <2>1, TypeGives DEF Control, Stepped, Noted
  <2>5. "idle" \in Steps \ {"scan", "count", "fill"}
    BY DEF Steps
  <2>6. QED
    BY <1>1, <1>2, <1>3, <2>1, <2>3, <2>4, <2>5, OwnKept
<1>7. CASE q.fd # Bad
  <2>0. "version" \in Steps \ {"scan", "count", "fill"}
    BY DEF Steps
  <2>1. Stepped("version", q.fd, q.ctl)
    BY <1>7, <2>0, TypeGives, Goes DEF CloseControl
  <2>2. Held' = {q.fd}
    BY <1>1, <1>3, <1>7, <2>1 DEF Held, Stepped, Noted
  <2>3. Own'
    BY <1>1, <1>2, <1>3, <1>4, <1>5, <1>7, <2>2, TypeGives DEF Own, Noted
  <2>4. Control'
    BY <1>1, <1>3, <1>7, <2>1, TypeGives DEF Control, Stepped, Noted
  <2>5. QED
    BY <1>1, <1>2, <1>3, <2>0, <2>1, <2>3, <2>4, OwnKept
<1>8. QED
  BY <1>6, <1>7

LEMMA VersionKeeps ==
    ASSUME QueryInv, Version
    PROVE  QueryInv'
<1>0. "idle" \in Steps \ {"scan", "count", "fill"}
  BY DEF Steps
<1>1. /\ q.pc = "version" /\ q.call \notin Lists /\ q.call \in Pair /\ UNCHANGED <<devs, past>>
      /\ ~past.unset /\ q.fd # Bad
  BY TypeGives DEF Version, Pair, Lists, Control
<1>2. Noted(past.unset, past.stray, past.refused)
  BY <1>1, TypeGives, PastSame
<1>3. Stepped("idle", q.fd, q.ctl)
  BY TypeGives, Returns DEF Version
<1>4. FdType' /\ Queried' = Queried \ {q.fd}
  <2>1. CASE fds' = [fds EXCEPT ![q.fd] = "other"]
    BY <1>1, <2>1, TypeGives DEF FdType, Queried
  <2>2. CASE fds' = Closed(q.fd)
    BY <2>2, TypeGives, FdClosed
  <2>3. QED
    BY <2>1, <2>2 DEF Version
<1>5. Held = {q.fd} /\ Held' = {}
  BY <1>1, <1>3 DEF Held, Stepped
<1>6. Own'
  BY <1>2, <1>4, <1>5, TypeGives DEF Own, Noted
<1>7. Control'
  BY <1>1, <1>2, <1>3, TypeGives DEF Control, Stepped, Noted
<1>8. QED
  BY <1>0, <1>1, <1>2, <1>3, <1>4, <1>6, <1>7, OwnKept

\* Nothing about nodes changes for the query.
LEMMA ScanUnchanged ==
    ASSUME QueryInv, UNCHANGED <<devs, q, past>>
    PROVE  Looked' /\ ScanSound' /\ Control' /\ Held' = Held
<1>1. Looked' /\ Control' /\ Held' = Held
  BY DEF QueryInv, OwnInv, Looked, Watched, Control, Held
<1>2. WithinArray' /\ ListExact'
  BY DEF QueryInv, ScanSound, WithinArray, ListExact, Longer, Asked
<1>3. ASSUME NEW C PROVE Counting(C)' = Counting(C)
  BY DEF Counting, Matches, QPrefix
<1>4. ASSUME NEW C, NEW F PROVE Filling(C, F)' = Filling(C, F)
  BY DEF Filling, Matches, QPrefix, Num
<1>5. QED
  BY <1>1, <1>2, <1>3, <1>4, Zenon DEF QueryInv, ScanSound

LEMMA OtherFdsKeep ==
    ASSUME QueryInv, UNCHANGED <<devs, q, past>>, FdType', Queried' = Queried
    PROVE  QueryInv'
<1>1. Looked' /\ ScanSound' /\ Control' /\ Held' = Held
  BY ScanUnchanged
<1>2. Own'
  BY <1>1, TypeGives DEF Own
<1>3. QueryType'
  BY DEF QueryInv, OwnInv, QueryType, FdType
<1>4. QED
  BY <1>1, <1>2, <1>3 DEF QueryInv, OwnInv

LEMMA OtherOpensKeeps ==
    ASSUME QueryInv, OtherOpens
    PROVE  QueryInv'
<1>1. FdType' /\ Queried' = Queried
  BY TypeGives, LowestIsFree DEF OtherOpens, FdType, Queried
<1>2. QED
  BY <1>1, OtherFdsKeep DEF OtherOpens

LEMMA OtherClosesKeeps ==
    ASSUME QueryInv, NEW f \in Fds, OtherCloses(f)
    PROVE  QueryInv'
<1>1. FdType' /\ Queried' = Queried
  BY TypeGives DEF OtherCloses, FdType, Queried
<1>2. QED
  BY <1>1, OtherFdsKeep DEF OtherCloses

LEMMA StutterKeeps ==
    ASSUME QueryInv, UNCHANGED vars
    PROVE  QueryInv'
<1>1. FdType' /\ Queried' = Queried
  BY TypeGives, FdsKept DEF vars
<1>2. QED
  BY <1>1, OtherFdsKeep DEF vars

LEMMA BeginKeeps ==
    ASSUME QueryInv, NEW call \in Calls, NEW node \in Devices \cup {Timer},
           NEW pc \in {"lookup", "scan", "open"}, Begin(call, node, pc),
           pc = "scan" <=> call \in Lists, pc = "open" => call \notin Pair,
           call \in Lists => node \in Devices /\ node.kind = Kind[call]
    PROVE  QueryInv'
<1>1. /\ q.pc = "idle" /\ UNCHANGED fds
      /\ q' = [Idle EXCEPT !.call = call, !.node = node, !.pc = pc]
      /\ past' = [NoPast EXCEPT !.refused = past.refused]
      /\ devs' \in SUBSET {d \in Devices : Watched(d, call, node)}
  BY DEF Begin
<1>2. /\ q'.call = call /\ q'.node = node /\ q'.pc = pc /\ q'.fd = Bad /\ q'.ctl = Bad
      /\ q'.seen = {} /\ q'.left = {} /\ q'.count = 0 /\ q'.list = <<>>
  BY <1>1 DEF Idle
<1>3. /\ past'.moves = 0 /\ past'.back = FALSE /\ past'.beyond = FALSE /\ past'.unset = FALSE
      /\ past'.stray = FALSE /\ past'.refused = past.refused
  BY <1>1 DEF NoPast
<1>4. QueryType'
  <2>1. q' \in Query
    <3>1. pc \in Steps
      BY DEF Steps
    <3>2. Idle.set \in BOOLEAN /\ Idle.ok \in BOOLEAN
      BY DEF Idle
    <3>3. q' = [call |-> call, node |-> node, pc |-> pc, fd |-> Bad, ctl |-> Bad, seen |-> {},
                left |-> {}, count |-> 0, list |-> <<>>, set |-> FALSE, ok |-> FALSE]
      BY <1>1 DEF Idle
    <3>4. <<>> \in Seq(Nat)
      OBVIOUS
    <3>5. QED
      BY <3>1, <3>3, <3>4 DEF Query
  <2>2. past' \in Past
    BY <1>1, TypeGives DEF NoPast, Past
  <2>3. devs' \in SUBSET Devices /\ FdType'
    BY <1>1, TypeGives, FdsKept
  <2>4. QED
    BY <2>1, <2>2, <2>3 DEF QueryType, FdType
<1>5. Control'
  <2>1. pc \notin {"select", "version", "ioctl", "read", "close failed", "close", "count", "fill", "idle"}
    OBVIOUS
  <2>2. QED
    BY <1>2, <1>3, <2>1 DEF Control
<1>6. Own'
  <2>1. Held = {} /\ Held' = {} /\ Queried' = Queried
    BY <1>1, <1>2 DEF Held, Queried
  <2>2. QED
    BY <1>3, <2>1, TypeGives DEF Own
<1>7. Looked'
  <2>1. \A d \in devs' : Watched(d, call, node)
    BY <1>1
  <2>2. QED
    BY <1>2, <1>3, <2>1 DEF Looked
<1>8. ScanSound'
  BY <1>2, <1>3 DEF ScanSound, WithinArray, ListExact
<1>9. QED
  BY <1>4, <1>5, <1>6, <1>7, <1>8 DEF QueryInv, OwnInv

LEMMA CallKeeps ==
    ASSUME QueryInv, Call
    PROVE  QueryInv'
<1>1. ASSUME NEW kind, Name(kind) PROVE QueryInv'
  BY <1>1, BeginKeeps DEF Name, Calls, NameCalls, Lists
<1>2. ASSUME NEW call \in Lists, List(call) PROVE QueryInv'
  BY <1>2, BeginKeeps DEF List, Calls
<1>3. CASE alsahwdep_device_common_open
  BY <1>3, BeginKeeps DEF alsahwdep_device_common_open, Calls, NameCalls, Lists
<1>4. CASE alsarawmidi_get_subdevice_id_list
  BY <1>4, BeginKeeps DEF alsarawmidi_get_subdevice_id_list, Calls, ControlCalls, Lists
<1>5. CASE alsatimer_get_device_info
  BY <1>5, BeginKeeps DEF alsatimer_get_device_info, Calls, TimerCalls, Lists
<1>6. CASE alsatimer_get_device_id_list
  BY <1>6, BeginKeeps DEF alsatimer_get_device_id_list, Calls, TimerCalls, Lists
<1>7. CASE alsatimer_get_real_time_clock_id
  BY <1>7, BeginKeeps DEF alsatimer_get_real_time_clock_id, Calls, Lists, Pair
<1>8. CASE alsarawmidi_stream_pair_open
  BY <1>8, BeginKeeps DEF alsarawmidi_stream_pair_open, Calls, Lists, Pair
<1>9. QED
  BY <1>1, <1>2, <1>3, <1>4, <1>5, <1>6, <1>7, <1>8
     DEF Call, alsactl_get_card_sysname, alsactl_get_control_devnode,
         alsarawmidi_get_rawmidi_devnode, alsahwdep_get_hwdep_devnode, alsatimer_get_devnode,
         alsaseq_get_seq_devnode, alsactl_get_card_id_list, alsarawmidi_get_device_id_list,
         alsahwdep_get_device_id_list, Lists

\* A node comes or goes: back is set if the scan had seen the one that comes.
LEMMA MoveKeeps ==
    ASSUME QueryInv, NEW d \in Devices, Move(d),
           devs' = devs \cup {d} \/ devs' = devs \ {d},
           NEW back \in BOOLEAN, past.back => back,
           ~back => devs' \cap q.seen \subseteq devs,
           past' = [past EXCEPT !.moves = @ + 1, !.back = back]
    PROVE  QueryInv'
<1>1. q.pc # "idle" /\ Watched(d, q.call, q.node) /\ UNCHANGED <<fds, q>>
  BY DEF Move
<1>2. past.moves \in Nat /\ past.moves + 1 \in Nat
  BY TypeGives DEF Past
<1>3. past' \in Past
  BY <1>2, TypeGives DEF Past
<1>4. /\ past'.moves = past.moves + 1 /\ past'.back = back /\ past'.beyond = past.beyond
      /\ past'.unset = past.unset /\ past'.stray = past.stray /\ past'.refused = past.refused
  BY TypeGives DEF Past
<1>5. past'.moves > 0 /\ past'.moves # 0
  BY <1>2, <1>4
<1>6. QueryType'
  <2>1. devs' \in SUBSET Devices
    BY DEF QueryInv, OwnInv, QueryType
  <2>2. QED
    BY <1>1, <1>3, <2>1, TypeGives DEF QueryType, FdType
<1>7. Control' /\ Own'
  <2>1. Held' = Held /\ Queried' = Queried
    BY <1>1, <1>4 DEF Held, Queried
  <2>2. Control'
    BY <1>1, <1>4, TypeGives DEF Control
  <2>3. QED
    BY <1>4, <2>1, <2>2, TypeGives DEF Own
<1>8. Looked'
  <2>1. \A e \in devs' : Watched(e, q.call, q.node)
    BY <1>1 DEF QueryInv, Looked
  <2>2. QED
    BY <1>1, <1>4, <1>5, <2>1 DEF QueryInv, Looked
<1>9. ScanSound'
  <2>1. \A e : Matches(e)' = Matches(e)
    BY <1>1 DEF Matches, QPrefix
  <2>2. ASSUME NEW C, Counting(C) PROVE Counting(C)'
    <3>1. /\ C \subseteq q'.seen /\ IsFiniteSet(C) /\ Cardinality(C) = q'.count
          /\ \A e \in C : Matches(e)'
      BY <1>1, <2>1, <2>2 DEF Counting
    <3>2. ASSUME ~back, NEW e \in devs', Matches(e)', e \in q.seen
          PROVE  e \in C \/ e \in q.left
      BY <2>1, <2>2, <3>2 DEF Counting
    <3>3. QED
      BY <1>1, <1>4, <3>1, <3>2 DEF Counting
  <2>3. ASSUME NEW C, NEW F, Filling(C, F) PROVE Filling(C, F)'
    <3>1. /\ IsFiniteSet(C) /\ Cardinality(C) = q'.count
          /\ F \subseteq q'.seen \ q'.left /\ IsFiniteSet(F) /\ Cardinality(F) = Len(q'.list)
          /\ \A e \in F : Matches(e)'
          /\ Range(q'.list) = {Num(e) : e \in F}
          /\ (\A e1, e2 \in F : Num(e1) = Num(e2) => e1 = e2) => IsInjective(q'.list)
      BY <1>1, <2>1, <2>3 DEF Filling
    <3>2. ASSUME ~back
          PROVE  F \subseteq C /\ \A e \in devs' : Matches(e)' /\ e \in q.seen => e \in C
      BY <2>1, <2>3, <3>2 DEF Filling
    <3>3. QED
      BY <1>1, <1>4, <1>5, <3>1, <3>2 DEF Filling, Num
  <2>4. WithinArray'
    BY <1>4 DEF QueryInv, ScanSound, WithinArray
  <2>5. ListExact'
    BY <1>1 DEF ListExact
  <2>6. QED
    BY <1>1, <2>2, <2>3, <2>4, <2>5 DEF QueryInv, ScanSound
<1>10. QED
  BY <1>6, <1>7, <1>8, <1>9 DEF QueryInv, OwnInv

LEMMA PlugKeeps ==
    ASSUME QueryInv, NEW d \in Devices, Plug(d)
    PROVE  QueryInv'
<1> DEFINE back == past.back \/ d \in q.seen
<1>1. back \in BOOLEAN /\ (past.back => back) /\ past' = [past EXCEPT !.moves = @ + 1, !.back = back]
  BY DEF Plug
<1>2. Move(d) /\ devs' = devs \cup {d} /\ (~back => devs' \cap q.seen \subseteq devs)
  BY DEF Plug
<1> HIDE DEF back
<1>3. QED
  BY <1>1, <1>2, MoveKeeps

LEMMA UnplugKeeps ==
    ASSUME QueryInv, NEW d \in Devices, Unplug(d)
    PROVE  QueryInv'
<1>1. /\ past \in Past /\ past.back \in BOOLEAN
      /\ Move(d) /\ devs' = devs \ {d} /\ devs' \cap q.seen \subseteq devs
  BY TypeGives DEF Unplug, Past
<1>2. past' = [past EXCEPT !.moves = @ + 1, !.back = past.back]
  BY <1>1 DEF Unplug, Past
<1>3. QED
  BY <1>1, <1>2, MoveKeeps
----------------------------------------------------------------------------
(* Sorting. *)

\* Where an entry goes among those in order.
LEMMA Place ==
    ASSUME NEW n \in Nat, NEW v \in [1..n -> Nat], NEW x \in Nat,
           \A i, j \in 1..n : i < j => v[i] <= v[j]
    PROVE  \E k \in 1..(n + 1) : \A i \in 1..n : /\ i < k => v[i] <= x
                                                 /\ k <= i => x < v[i]
<1> DEFINE K == {k \in 1..(n + 1) : \A i \in 1..n : k <= i => x < v[i]}
<1>1. n + 1 \in K /\ K \in SUBSET Nat
  OBVIOUS
<1>2. PICK k \in K : \A y \in K : k <= y
  <2> HIDE DEF K
  <2>1. QED
    BY <1>1, LeastNumber
<1>3. k \in 1..(n + 1) /\ \A i \in 1..n : k <= i => x < v[i]
  BY <1>2
<1>4. ASSUME NEW j \in 1..n, j < k PROVE v[j] <= x
  <2>1. k - 1 \in 1..(n + 1) /\ k - 1 \in 1..n /\ ~(k <= k - 1)
    BY <1>3, <1>4
  <2>2. k - 1 \notin K
    BY <1>2, <2>1
  <2>3. PICK i \in 1..n : k - 1 <= i /\ ~(x < v[i])
    BY <2>1, <2>2
  <2>4. ~(k <= i)
    BY <1>3, <2>3
  <2>5. i = k - 1
    BY <1>3, <2>3, <2>4
  <2>6. v[i] \in Nat /\ v[j] \in Nat /\ v[i] <= x
    BY <2>3
  <2>7. j = i \/ j < i
    BY <1>3, <1>4, <2>5
  <2>8. v[j] <= v[i]
    BY <2>6, <2>7
  <2>9. QED
    BY <2>6, <2>8
<1>5. QED
  BY <1>3, <1>4

\* Some order of the places of a list sorts it, by putting the last entry in
\* its place among the others.
LEMMA SortsInsert ==
    ASSUME NEW n \in Nat, NEW list, \A i \in 1..(n + 1) : list[i] \in Nat,
           NEW p \in [1..n -> 1..n], IsInjective(p),
           \A i, j \in 1..n : i < j => list[p[i]] <= list[p[j]]
    PROVE  \E r \in [1..(n + 1) -> 1..(n + 1)] :
              /\ IsInjective(r)
              /\ \A i, j \in 1..(n + 1) : i < j => list[r[i]] <= list[r[j]]
<1> DEFINE x == list[n + 1]
           v == [i \in 1..n |-> list[p[i]]]
<1>0. \A i \in 1..n : p[i] \in 1..n /\ p[i] \in 1..(n + 1) /\ p[i] # n + 1
  OBVIOUS
<1>1. x \in Nat /\ v \in [1..n -> Nat] /\ \A i, j \in 1..n : i < j => v[i] <= v[j]
  BY <1>0
<1>2. \A i \in 1..n : list[p[i]] = v[i]
  OBVIOUS
<1>3. list[n + 1] = x
  OBVIOUS
<1> HIDE DEF x, v
<1>4. PICK k \in 1..(n + 1) : \A i \in 1..n : /\ i < k => v[i] <= x
                                              /\ k <= i => x < v[i]
  BY <1>1, Place
<1> DEFINE r == [i \in 1..(n + 1) |-> IF i < k THEN p[i] ELSE IF i = k THEN n + 1 ELSE p[i - 1]]
<1>5. ASSUME NEW i \in 1..(n + 1)
      PROVE  /\ i < k => i \in 1..n /\ r[i] = p[i]
             /\ i = k => r[i] = n + 1
             /\ i > k => i - 1 \in 1..n /\ r[i] = p[i - 1]
  BY <1>4
<1>6. ASSUME NEW i \in 1..(n + 1) PROVE i < k \/ i = k \/ i > k
  BY <1>4
<1>7. r \in [1..(n + 1) -> 1..(n + 1)]
  <2>1. ASSUME NEW i \in 1..(n + 1) PROVE r[i] \in 1..(n + 1)
    <3> n + 1 \in 1..(n + 1)
      OBVIOUS
    <3> HIDE DEF r
    <3>1. QED
      BY <1>0, <1>5, <1>6
  <2>2. QED
    BY <2>1
<1> HIDE DEF r
<1>8. IsInjective(r)
  <2>1. \A a, b \in 1..n : p[a] = p[b] => a = b
    BY DEF IsInjective
  <2>2. ASSUME NEW a \in 1..(n + 1), NEW b \in 1..(n + 1), r[a] = r[b], a < b PROVE FALSE
    <3>1. CASE b < k
      <4>1. a \in 1..n /\ b \in 1..n /\ r[a] = p[a] /\ r[b] = p[b]
        BY <1>4, <1>5, <2>2, <3>1
      <4>2. p[a] = p[b]
        BY <2>2, <4>1, Zenon
      <4>3. a # b
        BY <2>2
      <4>4. QED
        BY <2>1, <4>1, <4>2, <4>3, Zenon
    <3>2. CASE b = k
      <4>1. a \in 1..n /\ r[a] = p[a] /\ r[b] = n + 1
        BY <1>4, <1>5, <2>2, <3>2
      <4>2. QED
        BY <1>0, <2>2, <4>1
    <3>3. CASE b > k
      <4>1. b - 1 \in 1..n /\ r[b] = p[b - 1]
        BY <1>5, <3>3
      <4>2. CASE a < k
        <5>1. a \in 1..n /\ r[a] = p[a] /\ a # b - 1
          BY <1>4, <1>5, <3>3, <4>2
        <5>2. QED
          BY <2>1, <2>2, <4>1, <5>1
      <4>3. CASE a = k
        BY <1>0, <1>5, <2>2, <4>1, <4>3
      <4>4. CASE a > k
        <5>1. a - 1 \in 1..n /\ r[a] = p[a - 1] /\ a - 1 # b - 1
          BY <1>5, <2>2, <4>4
        <5>2. QED
          BY <2>1, <2>2, <4>1, <5>1
      <4>5. QED
        BY <1>6, <4>2, <4>3, <4>4
    <3>4. QED
      BY <1>6, <3>1, <3>2, <3>3
  <2>3. ASSUME NEW a \in 1..(n + 1), NEW b \in 1..(n + 1), r[a] = r[b] PROVE a = b
    <3>1. a < b \/ b < a \/ a = b
      OBVIOUS
    <3>2. QED
      BY <2>2, <2>3, <3>1
  <2>4. QED
    BY <1>7, <2>3 DEF IsInjective
<1>9. ASSUME NEW i \in 1..(n + 1), NEW j \in 1..(n + 1), i < j
      PROVE  list[r[i]] <= list[r[j]]
  <2>0. \A a \in 1..n : v[a] \in Nat
    BY <1>1
  <2>2. CASE j < k
    <3>1. i \in 1..n /\ j \in 1..n /\ r[i] = p[i] /\ r[j] = p[j]
      BY <1>4, <1>5, <1>9, <2>2
    <3>2. QED
      BY <1>9, <3>1
  <2>3. CASE j = k
    <3>1. i \in 1..n /\ i < k /\ r[i] = p[i] /\ r[j] = n + 1
      BY <1>4, <1>5, <1>9, <2>3
    <3>2. QED
      BY <1>2, <1>3, <1>4, <3>1
  <2>4. CASE i = k
    <3>1. r[i] = n + 1 /\ r[j] = p[j - 1] /\ j - 1 \in 1..n /\ k <= j - 1
      BY <1>4, <1>5, <1>9, <2>4
    <3>2. x < v[j - 1] /\ v[j - 1] \in Nat
      BY <1>4, <2>0, <3>1
    <3>3. list[r[i]] = x /\ list[r[j]] = v[j - 1]
      BY <1>2, <1>3, <3>1
    <3>4. QED
      BY <1>1, <3>2, <3>3
  <2>5. CASE i > k
    <3>1. r[i] = p[i - 1] /\ r[j] = p[j - 1] /\ i - 1 \in 1..n /\ j - 1 \in 1..n /\ i - 1 < j - 1
      BY <1>4, <1>5, <1>9, <2>5
    <3>2. QED
      BY <3>1
  <2>6. CASE i < k /\ j > k
    <3>1. r[i] = p[i] /\ i \in 1..n /\ r[j] = p[j - 1] /\ j - 1 \in 1..n /\ i < j - 1
      BY <1>4, <1>5, <1>9, <2>6
    <3>2. QED
      BY <3>1
  <2>7. QED
    BY <1>6, <1>9, <2>2, <2>3, <2>4, <2>5, <2>6
<1>10. QED
  BY <1>7, <1>8, <1>9

\* Any list can be sorted.
LEMMA SortsExist ==
    ASSUME NEW list \in Seq(Nat)
    PROVE  \E p \in [DOMAIN list -> DOMAIN list] : Sorts(p, list)
<1> DEFINE Order(p, n) == /\ IsInjective(p)
                          /\ \A i, j \in 1..n : i < j => list[p[i]] <= list[p[j]]
           Fails == {n \in 0..Len(list) : ~\E p \in [1..n -> 1..n] : Order(p, n)}
<1>0. DOMAIN list = 1..Len(list) /\ Len(list) \in Nat /\ \A i \in 1..Len(list) : list[i] \in Nat
  OBVIOUS
<1>1. Fails = {}
  <2>1. SUFFICES ASSUME Fails # {} PROVE FALSE
    OBVIOUS
  <2>2. PICK n \in Fails : \A m \in Fails : n <= m
    <3>1. Fails \in SUBSET Nat
      BY <1>0
    <3> HIDE DEF Fails
    <3>2. QED
      BY <2>1, <3>1, LeastNumber
  <2>3. n # 0
    <3>1. SUFFICES ASSUME n = 0 PROVE FALSE
      OBVIOUS
    <3>2. 1..0 = {}
      OBVIOUS
    <3>3. <<>> \in [1..0 -> 1..0] /\ Order(<<>>, 0)
      BY <3>2 DEF IsInjective
    <3>4. QED
      BY <2>2, <3>1, <3>3
  <2>4. n - 1 \in Nat /\ n - 1 \in 0..Len(list) /\ ~(n <= n - 1) /\ (n - 1) + 1 = n /\ n \in 0..Len(list)
    BY <1>0, <2>2, <2>3
  <2>5. n - 1 \notin Fails
    BY <2>2, <2>4
  <2>6. PICK p \in [1..(n - 1) -> 1..(n - 1)] : Order(p, n - 1)
    BY <2>4, <2>5
  <2>7. \A i \in 1..((n - 1) + 1) : list[i] \in Nat
    BY <1>0, <2>4
  <2>8. \E r \in [1..((n - 1) + 1) -> 1..((n - 1) + 1)] :
              /\ IsInjective(r)
              /\ \A i, j \in 1..((n - 1) + 1) : i < j => list[r[i]] <= list[r[j]]
    BY <2>4, <2>6, <2>7, SortsInsert
  <2>9. \E r \in [1..n -> 1..n] : Order(r, n)
    BY <2>4, <2>8
  <2>10. QED
    BY <2>2, <2>9
<1>2. PICK p \in [1..Len(list) -> 1..Len(list)] : Order(p, Len(list))
  <2>1. \A n \in 0..Len(list) : n \notin Fails => \E p \in [1..n -> 1..n] : Order(p, n)
    <3> HIDE DEF Order
    <3>1. QED
      OBVIOUS
  <2> HIDE DEF Fails, Order
  <2>2. Len(list) \in 0..Len(list) /\ Len(list) \notin Fails
    BY <1>0, <1>1
  <2>3. QED
    BY <2>1, <2>2
<1>3. ASSUME NEW i \in 1..Len(list), NEW j \in 1..Len(list), i < j
      PROVE  ~compare_u32(list[p[i]], list[p[j]])
  <2>1. list[p[i]] \in Nat /\ list[p[j]] \in Nat /\ list[p[i]] <= list[p[j]]
    BY <1>0, <1>2, <1>3
  <2>2. QED
    BY <2>1 DEF compare_u32
<1>4. QED
  BY <1>0, <1>2, <1>3 DEF Sorts

\* An order of the places reaches every place.
LEMMA InjectiveReaches ==
    ASSUME NEW n \in Nat, NEW p \in [1..n -> 1..n], IsInjective(p)
    PROVE  \A k \in 1..n : \E i \in 1..n : p[i] = k
<1>1. IsFiniteSet(1..n)
  BY FS_Interval
<1>2. p \in Injection(1..n, 1..n)
  BY DEF Injection
<1>3. p \in Surjection(1..n, 1..n)
  BY <1>1, <1>2, FS_Injection
<1>4. QED
  BY <1>3 DEF Surjection

\* qsort() returns the entries in order, none twice unless it was twice in
\* the list.
LEMMA SortedIs ==
    ASSUME NEW list \in Seq(Nat)
    PROVE  /\ Sorted(list) \in Seq(Nat) /\ Len(Sorted(list)) = Len(list)
           /\ DOMAIN Sorted(list) = 1..Len(list)
           /\ Range(Sorted(list)) = Range(list)
           /\ \A i, j \in 1..Len(list) : i < j => Sorted(list)[i] <= Sorted(list)[j]
           /\ IsInjective(list) =>
                 \A i, j \in 1..Len(list) : i < j => Sorted(list)[i] < Sorted(list)[j]
<1> DEFINE from == CHOOSE p \in [DOMAIN list -> DOMAIN list] : Sorts(p, list)
           n == Len(list)
<1>0. DOMAIN list = 1..n /\ n \in Nat /\ \A i \in 1..n : list[i] \in Nat
  OBVIOUS
<1>1. from \in [1..n -> 1..n] /\ Sorts(from, list)
  <2>1. from \in [DOMAIN list -> DOMAIN list] /\ Sorts(from, list)
    BY SortsExist
  <2> HIDE DEF from
  <2>2. QED
    BY <1>0, <2>1
<1>2. Sorted(list) = [i \in 1..n |-> list[from[i]]]
  BY <1>0 DEF Sorted
<1> HIDE DEF from, n
<1>3. \A i \in 1..n : from[i] \in 1..n /\ list[from[i]] \in Nat
  BY <1>0, <1>1
<1>4. Sorted(list) \in Seq(Nat) /\ Len(Sorted(list)) = n /\ DOMAIN Sorted(list) = 1..n
  BY <1>0, <1>2, <1>3
<1>5. Range(Sorted(list)) = Range(list)
  <2>1. \A k \in 1..n : \E i \in 1..n : from[i] = k
    BY <1>0, <1>1, InjectiveReaches DEF Sorts
  <2>2. Range(list) = {list[i] : i \in 1..n} /\ Range(Sorted(list)) = {Sorted(list)[i] : i \in 1..n}
    BY <1>0, <1>4 DEF Range
  <2>3. \A i \in 1..n : Sorted(list)[i] = list[from[i]]
    BY <1>2
  <2>4. ASSUME NEW k \in 1..n PROVE list[k] \in Range(Sorted(list))
    BY <2>1, <2>2, <2>3
  <2>5. ASSUME NEW i \in 1..n PROVE Sorted(list)[i] \in Range(list)
    BY <1>3, <2>2, <2>3
  <2>6. QED
    BY <2>2, <2>4, <2>5
<1>6. ASSUME NEW i \in 1..n, NEW j \in 1..n, i < j
      PROVE  list[from[i]] <= list[from[j]]
  <2>1. ~compare_u32(list[from[i]], list[from[j]])
    BY <1>0, <1>1, <1>6 DEF Sorts
  <2>2. QED
    BY <1>3, <2>1 DEF compare_u32
<1>7. ASSUME IsInjective(list), NEW i \in 1..n, NEW j \in 1..n, i < j
      PROVE  list[from[i]] < list[from[j]]
  <2>1. from[i] # from[j]
    <3>1. i # j
      BY <1>7
    <3>2. QED
      BY <1>1, <3>1 DEF Sorts, IsInjective
  <2>2. list[from[i]] # list[from[j]]
    BY <1>0, <1>3, <1>7, <2>1 DEF IsInjective
  <2>3. QED
    BY <1>3, <1>6, <1>7, <2>2
<1>8. QED
  BY <1>2, <1>4, <1>5, <1>6, <1>7 DEF n
----------------------------------------------------------------------------
(* Names and numbers. *)

\* Value(x) of a digit.
ValueOf(x) == CHOOSE v \in 0..9 : Digit[v + 1] = x

LEMMA DigitValue ==
    ASSUME NEW k \in 0..9
    PROVE  ValueOf(Digit[k + 1]) = k
<1>1. \A v \in 0..9 : Digit[v + 1] = Digit[k + 1] => v = k
  <2>1. ASSUME NEW v \in 0..9, Digit[v + 1] = Digit[k + 1] PROVE v = k
    BY <2>1 DEF Digit
  <2>2. QED
    BY <2>1
<1>2. QED
  BY <1>1, Zenon DEF ValueOf

\* The fold of strtol() over one and over two digits.
LEMMA OneDigit ==
    ASSUME NEW a
    PROVE  long_from_string(<<a>>) = 10 * 0 + ValueOf(a)
<1> DEFINE s1 == <<a>>
           Rule(g) == [s \in SUBSET {1} |->
                          IF s = {} THEN 0 ELSE 10 * g[s \ {Max(s)}] + ValueOf(s1[Max(s)])]
           iter == CHOOSE g : g = Rule(g)
           witness == [s \in SUBSET {1} |-> IF s = {} THEN 0 ELSE 10 * 0 + ValueOf(a)]
<1>0. DOMAIN s1 = {1} /\ s1[1] = a
  OBVIOUS
<1>1. long_from_string(s1) = iter[{1}]
  BY <1>0 DEF long_from_string, MapThenFoldSet, ValueOf
<1>2. Max({1}) = 1
  BY DEF Max
<1>3. witness[{}] = 0 /\ witness[{1}] = 10 * 0 + ValueOf(a)
  OBVIOUS
<1>4. witness = Rule(witness)
  <2>1. ASSUME NEW s \in SUBSET {1} PROVE s = {} \/ s = {1}
    OBVIOUS
  <2>2. ASSUME NEW s \in SUBSET {1} PROVE witness[s] = Rule(witness)[s]
    <3>1. CASE s = {}
      BY <3>1
    <3>2. CASE s = {1}
      <4>1. s \ {Max(s)} = {} /\ s # {}
        BY <1>2, <3>2
      <4>2. Rule(witness)[s] = 10 * witness[{}] + ValueOf(s1[1])
        BY <1>2, <3>2, <4>1
      <4> HIDE DEF witness, Rule, s1
      <4>3. QED
        BY <1>0, <1>3, <3>2, <4>2
    <3>3. QED
      BY <2>1, <3>1, <3>2
  <2>3. QED
    BY <2>2
<1>5. iter = Rule(iter)
  <2> HIDE DEF witness, Rule
  <2>1. QED
    BY <1>4
<1>6. Rule(iter)[{1}] = 10 * iter[{1} \ {1}] + ValueOf(s1[1]) /\ Rule(iter)[{}] = 0
  <2> HIDE DEF iter, s1
  <2>1. QED
    BY <1>2
<1> HIDE DEF iter, Rule, s1
<1>7. iter[{}] = 0
  BY <1>5, <1>6
<1>8. iter[{1}] = 10 * 0 + ValueOf(a)
  <2>1. {1} \ {1} = {}
    OBVIOUS
  <2>2. QED
    BY <1>0, <1>5, <1>6, <1>7, <2>1
<1>9. QED
  BY <1>1, <1>8 DEF s1

LEMMA TwoDigits ==
    ASSUME NEW a, NEW b
    PROVE  long_from_string(<<a, b>>) = 10 * (10 * 0 + ValueOf(a)) + ValueOf(b)
<1> DEFINE s2 == <<a, b>>
           Rule(g) == [s \in SUBSET {1, 2} |->
                          IF s = {} THEN 0 ELSE 10 * g[s \ {Max(s)}] + ValueOf(s2[Max(s)])]
           iter == CHOOSE g : g = Rule(g)
           one == 10 * 0 + ValueOf(a)
           two == 10 * 0 + ValueOf(b)
           both == 10 * one + ValueOf(b)
           witness == [s \in SUBSET {1, 2} |-> IF s = {} THEN 0 ELSE IF s = {1} THEN one
                                               ELSE IF s = {2} THEN two ELSE both]
<1>0. DOMAIN s2 = {1, 2} /\ s2[1] = a /\ s2[2] = b
  <2>1. DOMAIN s2 = 1..2 /\ 1..2 = {1, 2}
    OBVIOUS
  <2>2. QED
    BY <2>1
<1>1. long_from_string(s2) = iter[{1, 2}]
  BY <1>0 DEF long_from_string, MapThenFoldSet, ValueOf
<1>2. Max({1}) = 1 /\ Max({2}) = 2 /\ Max({1, 2}) = 2
  BY DEF Max
<1>3. /\ {1} \ {1} = {} /\ {2} \ {2} = {} /\ {1, 2} \ {2} = {1}
      /\ {1} # {} /\ {2} # {} /\ {1} # {2} /\ {1, 2} # {} /\ {1, 2} # {1} /\ {1, 2} # {2}
      /\ {} \in SUBSET {1, 2} /\ {1} \in SUBSET {1, 2} /\ {2} \in SUBSET {1, 2}
      /\ {1, 2} \in SUBSET {1, 2}
  OBVIOUS
<1>4. ASSUME NEW s \in SUBSET {1, 2} PROVE s = {} \/ s = {1} \/ s = {2} \/ s = {1, 2}
  OBVIOUS
<1>5. /\ witness[{}] = 0 /\ witness[{1}] = one /\ witness[{2}] = two /\ witness[{1, 2}] = both
      /\ DOMAIN witness = SUBSET {1, 2}
  <2> HIDE DEF one, two, both
  <2>1. QED
    BY <1>3
<1>6. ASSUME NEW g
      PROVE  /\ Rule(g)[{}] = 0 /\ DOMAIN Rule(g) = SUBSET {1, 2}
             /\ Rule(g)[{1}] = 10 * g[{}] + ValueOf(a)
             /\ Rule(g)[{2}] = 10 * g[{}] + ValueOf(b)
             /\ Rule(g)[{1, 2}] = 10 * g[{1}] + ValueOf(b)
             /\ Rule(g) = [s \in DOMAIN Rule(g) |-> Rule(g)[s]]
  <2>1. Rule(g)[{}] = 0 /\ DOMAIN Rule(g) = SUBSET {1, 2} /\ Rule(g) = [s \in DOMAIN Rule(g) |-> Rule(g)[s]]
    <3> HIDE DEF s2
    <3>1. QED
      BY <1>3
  <2>2. ASSUME NEW s \in SUBSET {1, 2}, s # {}
        PROVE  Rule(g)[s] = 10 * g[s \ {Max(s)}] + ValueOf(s2[Max(s)])
    <3> HIDE DEF s2
    <3>1. QED
      BY <2>2
  <2> HIDE DEF s2, Rule
  <2>3. Rule(g)[{1}] = 10 * g[{1} \ {1}] + ValueOf(s2[1])
    BY <1>2, <1>3, <2>2
  <2>4. Rule(g)[{2}] = 10 * g[{2} \ {2}] + ValueOf(s2[2])
    BY <1>2, <1>3, <2>2
  <2>5. Rule(g)[{1, 2}] = 10 * g[{1, 2} \ {2}] + ValueOf(s2[2])
    BY <1>2, <1>3, <2>2
  <2>6. QED
    BY <1>0, <1>3, <2>1, <2>3, <2>4, <2>5, Zenon
<1>7. witness = [s \in DOMAIN witness |-> witness[s]]
  OBVIOUS
<1>8. witness = Rule(witness)
  <2> HIDE DEF witness, Rule
  <2>1. ASSUME NEW s \in SUBSET {1, 2} PROVE witness[s] = Rule(witness)[s]
    <3>1. /\ Rule(witness)[{}] = 0
          /\ Rule(witness)[{1}] = 10 * witness[{}] + ValueOf(a)
          /\ Rule(witness)[{2}] = 10 * witness[{}] + ValueOf(b)
          /\ Rule(witness)[{1, 2}] = 10 * witness[{1}] + ValueOf(b)
      BY <1>6
    <3>2. s = {} \/ s = {1} \/ s = {2} \/ s = {1, 2}
      BY <1>4
    <3>3. QED
      BY <1>5, <3>1, <3>2, Zenon
  <2>2. QED
    BY <1>5, <1>6, <1>7, <2>1
<1>9. iter = Rule(iter)
  <2> HIDE DEF witness, Rule
  <2>1. QED
    BY <1>8
<1> HIDE DEF iter, Rule, s2, witness
<1>10. iter[{}] = 0
  BY <1>6, <1>9
<1>11. iter[{1}] = 10 * 0 + ValueOf(a)
  BY <1>6, <1>9, <1>10
<1>12. iter[{1, 2}] = 10 * (10 * 0 + ValueOf(a)) + ValueOf(b)
  BY <1>6, <1>9, <1>11
<1>13. QED
  BY <1>1, <1>12 DEF s2

\* strtol() gives back the number that "%u" wrote.
LEMMA NumberBack ==
    ASSUME NEW n \in 0..99
    PROVE  long_from_string(Digits(n)) = n
<1>1. CASE n < 10
  <2>1. Digits(n) = <<Digit[n + 1]>> /\ n \in 0..9
    BY <1>1 DEF Digits
  <2>2. QED
    BY <2>1, OneDigit, DigitValue
<1>2. CASE ~(n < 10)
  <2>1. n \div 10 \in 0..9 /\ n % 10 \in 0..9 /\ n = 10 * (n \div 10) + (n % 10)
    BY <1>2
  <2> DEFINE t == n \div 10
             u == n % 10
  <2>2. Digits(n) = <<Digit[t + 1], Digit[u + 1]>>
    BY <1>2 DEF Digits
  <2> HIDE DEF t, u
  <2>3. t \in 0..9 /\ u \in 0..9 /\ n = 10 * t + u
    BY <2>1 DEF t, u
  <2>4. ValueOf(Digit[t + 1]) = t /\ ValueOf(Digit[u + 1]) = u
    BY <2>3, DigitValue
  <2>5. long_from_string(Digits(n)) = 10 * (10 * 0 + t) + u
    BY <2>2, <2>4, TwoDigits
  <2>6. QED
    BY <2>3, <2>5
<1>3. QED
  BY <1>1, <1>2

Tokens == {"0", "1", "2", "3", "4", "5", "6", "7", "8", "9",
           "card", "midi", "hw", "C", "D"}

LEMMA DigitsType ==
    ASSUME NEW n \in 0..99
    PROVE  /\ Digits(n) \in Seq(Tokens) /\ Len(Digits(n)) \in {1, 2}
           /\ \A i \in 1..Len(Digits(n)) : Digits(n)[i] # "D"
<1>1. ASSUME NEW k \in 1..10 PROVE Digit[k] \in Tokens /\ Digit[k] # "D"
  <2>1. \/ k = 1 \/ k = 2 \/ k = 3 \/ k = 4 \/ k = 5
        \/ k = 6 \/ k = 7 \/ k = 8 \/ k = 9 \/ k = 10
    OBVIOUS
  <2>2. QED
    BY <2>1 DEF Digit, Tokens
<1>2. CASE n < 10
  <2>1. n + 1 \in 1..10
    BY <1>2
  <2>2. Digits(n) = <<Digit[n + 1]>>
    BY <1>2 DEF Digits
  <2>3. QED
    BY <1>1, <2>1, <2>2
<1>3. CASE ~(n < 10)
  <2>1. (n \div 10) + 1 \in 1..10 /\ (n % 10) + 1 \in 1..10
    BY <1>3
  <2>2. Digits(n) = <<Digit[(n \div 10) + 1], Digit[(n % 10) + 1]>>
    BY <1>3 DEF Digits
  <2> DEFINE x == Digit[(n \div 10) + 1]
             y == Digit[(n % 10) + 1]
  <2>3. x \in Tokens /\ y \in Tokens /\ x # "D" /\ y # "D"
    BY <1>1, <2>1
  <2>4. Digits(n) = <<x, y>>
    BY <2>2
  <2> HIDE DEF x, y
  <2>5. QED
    BY <2>3, <2>4
<1>4. QED
  BY <1>2, <1>3

\* The tokens of the name of a device of a card.
LEMMA Concat ==
    ASSUME NEW a \in Seq(Tokens), NEW b \in Seq(Tokens)
    PROVE  /\ a \o b \in Seq(Tokens) /\ Len(a \o b) = Len(a) + Len(b)
           /\ \A i \in 1..Len(a) : (a \o b)[i] = a[i]
           /\ \A i \in 1..Len(b) : (a \o b)[Len(a) + i] = b[i]
<1>1. /\ a \o b \in Seq(Tokens) /\ Len(a \o b) = Len(a) + Len(b)
      /\ \A i \in 1 .. Len(a) + Len(b) : (a \o b)[i] =
                     IF i <= Len(a) THEN a[i] ELSE b[i - Len(a)]
  OBVIOUS
<1> DEFINE c == a \o b
           n == Len(a)
<1>2. /\ c = a \o b /\ c \in Seq(Tokens) /\ Len(c) = n + Len(b)
      /\ \A i \in 1..(n + Len(b)) : c[i] = IF i <= n THEN a[i] ELSE b[i - n]
  BY <1>1
<1>3. n \in Nat /\ Len(b) \in Nat
  OBVIOUS
<1> HIDE DEF c, n
<1>4. ASSUME NEW i \in 1..n PROVE c[i] = a[i]
  BY <1>2, <1>3
<1>5. ASSUME NEW i \in 1..Len(b) PROVE c[n + i] = b[i]
  <2>1. n + i \in 1..(n + Len(b)) /\ ~(n + i <= n) /\ (n + i) - n = i
    BY <1>3
  <2>2. QED
    BY <1>2, <2>1
<1>6. QED
  BY <1>2, <1>4, <1>5 DEF n

NameOf(k, b, e) == <<k, "C">> \o b \o <<"D">> \o e

LEMMA NameAt ==
    ASSUME NEW k \in Tokens, NEW b \in Seq(Tokens), NEW e \in Seq(Tokens)
    PROVE  /\ NameOf(k, b, e) \in Seq(Tokens) /\ Len(NameOf(k, b, e)) = 3 + Len(b) + Len(e)
           /\ NameOf(k, b, e)[1] = k /\ NameOf(k, b, e)[2] = "C"
           /\ NameOf(k, b, e)[3 + Len(b)] = "D"
           /\ \A i \in 1..Len(b) : NameOf(k, b, e)[2 + i] = b[i]
<1> DEFINE n == NameOf(k, b, e)
           c == <<k, "C">>
           z == <<"D">>
           h == c \o b
           m == h \o z
<1>1. c \in Seq(Tokens) /\ 2 = Len(c) /\ c[1] = k /\ c[2] = "C"
  <2>1. "C" \in Tokens
    BY DEF Tokens
  <2>2. QED
    BY <2>1
<1>2. z \in Seq(Tokens) /\ Len(z) = 1 /\ z[1] = "D"
  <2>1. "D" \in Tokens
    BY DEF Tokens
  <2>2. QED
    BY <2>1
<1>3. n = m \o e /\ Len(b) \in Nat /\ Len(e) \in Nat
  BY DEF NameOf
<1> HIDE DEF c, z, n
<1>4. /\ h \in Seq(Tokens) /\ Len(h) = 2 + Len(b)
      /\ \A i \in 1..2 : h[i] = c[i]
      /\ \A i \in 1..Len(b) : h[2 + i] = b[i]
  <2>1. /\ h \in Seq(Tokens) /\ Len(h) = Len(c) + Len(b)
        /\ \A i \in 1..Len(c) : h[i] = c[i]
        /\ \A i \in 1..Len(b) : h[Len(c) + i] = b[i]
    BY <1>1, Concat
  <2> HIDE DEF h
  <2>2. QED
    BY <1>1, <2>1
<1> DEFINE lh == 2 + Len(b)
<1> HIDE DEF h, lh
<1>5. lh = Len(h) /\ lh \in Nat
  BY <1>3, <1>4 DEF lh
<1>6. /\ m \in Seq(Tokens) /\ Len(m) = lh + Len(z)
      /\ \A i \in 1..lh : m[i] = h[i]
      /\ \A i \in 1..Len(z) : m[lh + i] = z[i]
  <2>1. /\ m \in Seq(Tokens) /\ Len(m) = Len(h) + Len(z)
        /\ \A i \in 1..Len(h) : m[i] = h[i]
        /\ \A i \in 1..Len(z) : m[Len(h) + i] = z[i]
    BY <1>2, <1>4, Concat
  <2> HIDE DEF m
  <2>2. QED
    BY <1>5, <2>1
<1> DEFINE lm == lh + 1
<1> HIDE DEF m, lm
<1>7. lm = Len(m) /\ lm \in Nat /\ m[lm] = "D" /\ lm = 3 + Len(b)
  <2>1. lm = Len(m) /\ lm \in Nat
    BY <1>2, <1>5, <1>6 DEF lm
  <2>2. 1 \in 1..Len(z)
    BY <1>2
  <2>3. m[lh + 1] = z[1]
    BY <1>6, <2>2
  <2>4. lm = 3 + Len(b)
    BY <1>3 DEF lm, lh
  <2>5. QED
    BY <1>2, <2>1, <2>3, <2>4 DEF lm
<1>8. /\ n \in Seq(Tokens) /\ Len(n) = lm + Len(e)
      /\ \A i \in 1..lm : n[i] = m[i]
  <2>1. /\ m \o e \in Seq(Tokens) /\ Len(m \o e) = Len(m) + Len(e)
        /\ \A i \in 1..Len(m) : (m \o e)[i] = m[i]
    BY <1>6, Concat
  <2>2. QED
    BY <1>3, <1>7, <2>1, Zenon
<1>9. \A i \in 1..lh : i \in 1..lm /\ n[i] = h[i]
  <2>1. \A i \in 1..lh : i \in 1..lm
    BY <1>5 DEF lm
  <2>2. QED
    BY <1>6, <1>8, <2>1
<1>10. n[1] = k /\ n[2] = "C"
  <2>1. 1 \in 1..lh /\ 2 \in 1..lh /\ 1 \in 1..2 /\ 2 \in 1..2
    BY <1>3 DEF lh
  <2>2. QED
    BY <1>1, <1>4, <1>9, <2>1
<1>11. n[3 + Len(b)] = "D"
  <2>1. lm \in 1..lm
    BY <1>3, <1>7
  <2>2. QED
    BY <1>7, <1>8, <2>1
<1>12. ASSUME NEW i \in 1..Len(b) PROVE n[2 + i] = b[i]
  <2>1. 2 + i \in 1..lh
    BY <1>3 DEF lh
  <2>2. QED
    BY <1>4, <1>9, <2>1
<1>13. QED
  BY <1>7, <1>8, <1>10, <1>11, <1>12 DEF n

\* A name that starts with that of a card: the number of its card starts with
\* the digits of the one asked for.
LEMMA MatchMeans ==
    ASSUME NEW d \in Devices, NEW e \in Devices, d.kind = e.kind, e.kind \in {"card", "midi", "hw"}
    PROVE  /\ e.kind = "card" \/ d.card = e.card => IsPrefix(Prefix(e.kind, e.card), SysName(d))
           /\ e.kind # "card" /\ IsPrefix(Prefix(e.kind, e.card), SysName(d)) =>
                 IsPrefix(Digits(e.card), Digits(d.card))
<1> DEFINE a == Digits(e.card)
           b == Digits(d.card)
           f == Digits(d.dev)
           p == Prefix(e.kind, e.card)
           n == SysName(d)
<1>1. d.card \in 0..99 /\ e.card \in 0..99 /\ d.dev \in 0..99
  BY DeviceQueriesAssumption
<1>2. /\ a \in Seq(Tokens) /\ b \in Seq(Tokens) /\ f \in Seq(Tokens)
      /\ Len(a) \in {1, 2} /\ Len(b) \in {1, 2} /\ Len(f) \in {1, 2}
      /\ \A i \in 1..Len(a) : a[i] # "D"
  BY <1>1, DigitsType
<1>3. d.card = e.card => a = b
  OBVIOUS
<1>4. CASE e.kind = "card"
  <2> DEFINE c == <<"card">>
  <2>1. p = c /\ n = c \o b
    BY <1>4 DEF Prefix, SysName
  <2>2. c \in Seq(Tokens) /\ Len(c) = 1
    <3>1. "card" \in Tokens
      BY DEF Tokens
    <3>2. QED
      BY <3>1
  <2> HIDE DEF a, b, f, p, n, c
  <2>3. n \in Seq(Tokens) /\ Len(n) = Len(c) + Len(b) /\ \A i \in 1..Len(c) : n[i] = c[i]
    BY <1>2, <2>1, <2>2, Concat
  <2>4. Len(c) <= Len(n)
    BY <1>2, <2>2, <2>3
  <2>5. IsPrefix(p, n)
    BY <2>1, <2>2, <2>3, <2>4 DEF IsPrefix
  <2>6. QED
    BY <1>4, <2>5 DEF p, n
<1>5. CASE e.kind # "card"
  <2> DEFINE k == e.kind
             c == <<k, "C">>
  <2>1. k \in Tokens /\ p = c \o a /\ n = <<k, "C">> \o b \o <<"D">> \o f
    <3>1. k \in Tokens
      BY <1>5 DEF Tokens
    <3>2. p = c \o a
      BY <1>5 DEF Prefix
    <3>3. n = <<k, "C">> \o b \o <<"D">> \o f
      BY <1>5 DEF SysName
    <3>4. QED
      BY <3>1, <3>2, <3>3
  <2>2. c \in Seq(Tokens) /\ Len(c) = 2 /\ c[1] = k /\ c[2] = "C"
    <3>1. "C" \in Tokens
      BY DEF Tokens
    <3> HIDE DEF k
    <3>2. QED
      BY <2>1, <3>1
  <2> HIDE DEF a, b, f, p, n, k
  <2>3. /\ n \in Seq(Tokens) /\ Len(n) = 3 + Len(b) + Len(f)
        /\ n[1] = k /\ n[2] = "C" /\ n[3 + Len(b)] = "D"
        /\ \A i \in 1..Len(b) : n[2 + i] = b[i]
    <3>1. /\ k \in Tokens /\ b \in Seq(Tokens) /\ f \in Seq(Tokens)
          /\ n = NameOf(k, b, f)
      BY <1>2, <2>1, Zenon DEF NameOf
    <3>2. /\ NameOf(k, b, f) \in Seq(Tokens) /\ Len(NameOf(k, b, f)) = 3 + Len(b) + Len(f)
          /\ NameOf(k, b, f)[1] = k /\ NameOf(k, b, f)[2] = "C"
          /\ NameOf(k, b, f)[3 + Len(b)] = "D"
          /\ \A i \in 1..Len(b) : NameOf(k, b, f)[2 + i] = b[i]
      <4>1. k \in Tokens /\ b \in Seq(Tokens) /\ f \in Seq(Tokens)
        BY <3>1
      <4>2. QED
        BY <4>1, NameAt, SMTT(30)
    <3>3. n = NameOf(k, b, f)
      BY <3>1
    <3>4. QED
      BY <3>2, <3>3, Zenon
  <2> HIDE DEF c
  <2>4. /\ p \in Seq(Tokens) /\ Len(p) = 2 + Len(a) /\ p[1] = k /\ p[2] = "C"
        /\ \A i \in 1..Len(a) : p[2 + i] = a[i]
    <3>1. /\ p \in Seq(Tokens) /\ Len(p) = Len(c) + Len(a)
          /\ \A i \in 1..Len(c) : p[i] = c[i]
          /\ \A i \in 1..Len(a) : p[Len(c) + i] = a[i]
      BY <1>2, <2>1, <2>2, Concat
    <3>2. QED
      BY <2>2, <3>1
  <2>5. IsPrefix(p, n) <=> Len(p) <= Len(n) /\ \A i \in 1..Len(p) : p[i] = n[i]
    BY DEF IsPrefix
  <2>6. ASSUME d.card = e.card PROVE IsPrefix(p, n)
    <3>1. a = b
      BY <1>3, <2>6
    <3>2. Len(p) <= Len(n)
      BY <1>2, <2>3, <2>4, <3>1
    <3>3. ASSUME NEW i \in 1..Len(p) PROVE p[i] = n[i]
      <4>1. CASE i <= 2
        <5>1. i = 1 \/ i = 2
          BY <1>2, <2>4, <4>1
        <5>2. QED
          BY <2>3, <2>4, <5>1
      <4>2. CASE i > 2
        <5>1. i - 2 \in 1..Len(a) /\ 2 + (i - 2) = i
          BY <1>2, <2>4, <4>2
        <5>2. p[2 + (i - 2)] = a[i - 2] /\ n[2 + (i - 2)] = a[i - 2]
          BY <2>3, <2>4, <3>1, <5>1
        <5>3. QED
          BY <5>1, <5>2
      <4>3. QED
        BY <1>2, <2>4, <4>1, <4>2
    <3>4. QED
      BY <2>5, <3>2, <3>3
  <2>7. ASSUME IsPrefix(p, n) PROVE IsPrefix(a, b)
    <3>1. ASSUME NEW i \in 1..Len(a) PROVE a[i] = n[2 + i]
      <4>1. 2 + i \in 1..Len(p)
        BY <1>2, <2>4
      <4>2. QED
        BY <2>4, <2>5, <2>7, <4>1
    <3>2. Len(a) <= Len(b)
      <4>1. SUFFICES ASSUME ~(Len(a) <= Len(b)) PROVE FALSE
        OBVIOUS
      <4>2. 1 + Len(b) \in 1..Len(a) /\ 2 + (1 + Len(b)) = 3 + Len(b)
        BY <1>2, <4>1
      <4>3. a[1 + Len(b)] = n[2 + (1 + Len(b))] /\ a[1 + Len(b)] # "D"
        BY <1>2, <3>1, <4>2
      <4>4. QED
        BY <2>3, <4>2, <4>3
    <3>3. ASSUME NEW i \in 1..Len(a) PROVE a[i] = b[i]
      <4>1. i \in 1..Len(b)
        BY <1>2, <3>2
      <4>2. QED
        BY <2>3, <3>1, <4>1
    <3>4. QED
      BY <1>2, <3>2, <3>3 DEF IsPrefix
  <2>8. QED
    BY <1>5, <2>6, <2>7 DEF a, b, p, n
<1>6. QED
  BY <1>4, <1>5

\* The number of a name is that of the card or of the device.
LEMMA NumIs ==
    ASSUME NEW d \in Devices, d.kind \in {"card", "midi", "hw"}
    PROVE  Num(d) = (IF d.kind = "card" THEN d.card ELSE d.dev) /\ Num(d) \in Nat
<1>1. d.card \in 0..99 /\ d.dev \in 0..99
  BY DeviceQueriesAssumption
<1>2. long_from_string(Digits(d.card)) = d.card /\ long_from_string(Digits(d.dev)) = d.dev
  BY <1>1, NumberBack
<1>3. Num(d) = (IF d.kind = "card" THEN d.card ELSE d.dev)
  BY <1>2 DEF Num, SysNum
<1>4. QED
  BY <1>1, <1>3
----------------------------------------------------------------------------
(* The two passes over the nodes. *)

\* A pass has no descriptor.
LEMMA PassOwns ==
    ASSUME QueryInv, q.pc \in {"scan", "count", "fill"}, UNCHANGED <<devs, fds>>,
           q' \in Query, q'.fd = q.fd, q'.ctl = q.ctl, q'.call = q.call, q'.node = q.node,
           q'.pc \in {"count", "fill", "idle"},
           past' \in Past, past'.unset = past.unset, past'.stray = past.stray,
           past'.refused = past.refused
    PROVE  OwnInv'
<1>1. FdType' /\ Queried' = Queried
  BY TypeGives, FdsKept
<1>2. q.call \in Lists /\ q.fd = Bad /\ q.ctl = Bad /\ ~past.unset
  BY TypeGives DEF Control
<1>3. Held = {} /\ Held' = {}
  BY <1>2 DEF Held
<1>4. Own'
  BY <1>1, <1>3, TypeGives DEF Own
<1>5. q.call \notin Pair
  BY <1>2 DEF Lists, Pair
<1>6. Control'
  BY <1>2, <1>5 DEF Control
<1>7. QueryType'
  BY <1>1 DEF QueryInv, OwnInv, QueryType, FdType
<1>8. QED
  BY <1>4, <1>6, <1>7 DEF OwnInv

LEMMA ScanFields ==
    ASSUME QueryInv
    PROVE  /\ q.seen \in SUBSET Devices /\ q.left \in SUBSET Devices /\ q.left \subseteq q.seen
           /\ q.count \in Nat /\ q.list \in Seq(Nat) /\ devs \in SUBSET Devices
           /\ past.moves \in Nat /\ past.back \in BOOLEAN /\ past.beyond \in BOOLEAN
           /\ past.back => past.moves > 0
           /\ past.moves = 0 => ~past.back
           /\ q.call \in Lists => q.node.kind \in {"card", "midi", "hw"} /\ q.node \in Devices
<1>1. q.call \in Lists => Kind[q.call] \in {"card", "midi", "hw"}
  BY DEF Lists, Kind
<1>2. past.back => past.moves > 0
  BY DEF QueryInv, Looked
<1>3. past.moves \in Nat
  BY TypeGives DEF Past
<1>4. q \in Query /\ past \in Past /\ devs \in SUBSET Devices
  BY DEF QueryInv, OwnInv, QueryType
<1>5. /\ q.seen \in SUBSET Devices /\ q.left \in SUBSET Devices
      /\ q.count \in Nat /\ q.list \in Seq(Nat)
  BY <1>4 DEF Query
<1>6. past.back \in BOOLEAN /\ past.beyond \in BOOLEAN
  BY <1>4 DEF Past
<1>7. q.left \subseteq q.seen
  BY DEF QueryInv, Looked
<1>8. q.call \in Lists => q.node \in Devices /\ q.node.kind = Kind[q.call]
  BY DEF QueryInv, Looked
<1>9. past.moves = 0 => ~past.back
  BY <1>2
<1>10. QED
  BY <1>1, <1>2, <1>3, <1>4, <1>5, <1>6, <1>7, <1>8, <1>9

LEMMA ScanDevicesKeeps ==
    ASSUME QueryInv, ScanDevices
    PROVE  QueryInv'
<1>1. q.pc = "scan" /\ UNCHANGED <<devs, fds, past>> /\ q.call \in Lists
  BY TypeGives DEF ScanDevices, Control
<1>2. q' = [q EXCEPT !.pc = "count", !.seen = devs, !.left = devs]
  BY DEF ScanDevices
<1>3. q' \in Query
  BY <1>2, ScanFields, TypeGives DEF Query, Steps
<1>4. /\ q'.pc = "count" /\ q'.seen = devs /\ q'.left = devs /\ q'.fd = q.fd /\ q'.ctl = q.ctl
      /\ q'.call = q.call /\ q'.node = q.node /\ q'.count = q.count /\ q'.list = q.list
  BY <1>2, TypeGives DEF Query
<1>5. OwnInv'
  BY <1>1, <1>3, <1>4, TypeGives, PassOwns
<1>6. q.count = 0 /\ q.list = <<>> /\ \A d \in devs : Watched(d, q.call, q.node)
  BY <1>1 DEF QueryInv, Looked
<1>7. \A d \in devs : d.kind = q.node.kind
  BY <1>1, <1>6 DEF Watched, Lists
<1>8. Looked'
  BY <1>1, <1>4, <1>6, <1>7 DEF QueryInv, Looked
<1>9. Counting({})' /\ {} \cap q'.left = {} /\ {} \in SUBSET Devices
  BY <1>1, <1>4, <1>6, FS_EmptySet DEF Counting
<1>10. ScanSound'
  BY <1>1, <1>4, <1>9 DEF QueryInv, ScanSound, WithinArray, ListExact
<1>11. QED
  BY <1>5, <1>8, <1>10 DEF QueryInv

LEMMA CountKeeps ==
    ASSUME QueryInv, NEW d \in Devices, Count(d)
    PROVE  QueryInv'
<1> DEFINE there == detect_device(d, QPrefix)
           add == IF there THEN 1 ELSE 0
<1>1. q.pc = "count" /\ UNCHANGED <<devs, fds, past>> /\ q.call \in Lists /\ d \in q.left
  BY TypeGives DEF Count, Control
<1>2. q' = [q EXCEPT !.left = @ \ {d}, !.count = @ + add]
  BY DEF Count
<1>3. add \in Nat /\ (there => add = 1) /\ (~there => add = 0)
  OBVIOUS
<1>4. there <=> d \in devs /\ Matches(d)
  BY DEF detect_device, Matches
<1> HIDE DEF there, add
<1>5. q.count + add \in Nat /\ q.left \ {d} \in SUBSET Devices
  BY <1>3, ScanFields
<1>6. q' \in Query
  BY <1>2, <1>5, TypeGives DEF Query
<1>7. /\ q'.pc = "count" /\ q'.seen = q.seen /\ q'.left = q.left \ {d} /\ q'.fd = q.fd
      /\ q'.ctl = q.ctl /\ q'.call = q.call /\ q'.node = q.node /\ q'.count = q.count + add
      /\ q'.list = q.list
  BY <1>1, <1>2, TypeGives DEF Query
<1>8. OwnInv'
  BY <1>1, <1>6, <1>7, TypeGives, PassOwns
<1>9. Looked'
  BY <1>1, <1>7 DEF QueryInv, Looked
<1>10. PICK C \in SUBSET Devices : Counting(C) /\ C \cap q.left = {}
  BY <1>1 DEF QueryInv, ScanSound
<1>11. \A e : Matches(e)' = Matches(e)
  BY <1>7 DEF Matches, QPrefix
<1>12. \E B \in SUBSET Devices : Counting(B)' /\ B \cap q'.left = {}
  <2>1. CASE there
    <3>1. /\ IsFiniteSet(C \cup {d}) /\ d \notin C
          /\ Cardinality(C \cup {d}) = Cardinality(C) + 1
      BY <1>1, <1>10, FS_AddElement DEF Counting
    <3>2. Counting(C \cup {d})'
      <4>1. C \cup {d} \subseteq q'.seen
        BY <1>1, <1>7, <1>10, ScanFields DEF Counting
      <4>2. Cardinality(C \cup {d}) = q'.count
        BY <1>3, <1>7, <1>10, <2>1, <3>1 DEF Counting
      <4>3. \A e \in C \cup {d} : Matches(e)'
        BY <1>4, <1>10, <1>11, <2>1 DEF Counting
      <4>4. ~past'.back => \A e \in devs' : Matches(e)' /\ e \in q'.seen => e \in C \cup {d} \/ e \in q'.left
        BY <1>1, <1>7, <1>10, <1>11 DEF Counting
      <4>5. QED
        BY <3>1, <4>1, <4>2, <4>3, <4>4 DEF Counting
    <3>3. (C \cup {d}) \cap q'.left = {}
      BY <1>7, <1>10
    <3>4. QED
      BY <3>2, <3>3
  <2>2. CASE ~there
    <3>1. Counting(C)'
      <4>1. ~past'.back => \A e \in devs' : Matches(e)' /\ e \in q'.seen => e \in C \/ e \in q'.left
        BY <1>1, <1>4, <1>7, <1>10, <1>11, <2>2 DEF Counting
      <4>2. q'.count = q.count
        BY <1>3, <1>7, <2>2, ScanFields
      <4>3. QED
        BY <1>7, <1>10, <1>11, <4>1, <4>2 DEF Counting
    <3>2. QED
      BY <1>7, <1>10, <3>1
  <2>3. QED
    BY <2>1, <2>2
<1>13. ScanSound'
  BY <1>1, <1>7, <1>12 DEF QueryInv, ScanSound, WithinArray, ListExact
<1>14. QED
  BY <1>8, <1>9, <1>13 DEF QueryInv

\* What matches was asked for, unless a longer number was met; what was asked
\* for matches.
LEMMA MatchesAsked ==
    ASSUME QueryInv, q.call \in Lists
    PROVE  /\ \A d \in Asked : d \in q.seen /\ Matches(d)
           /\ Longer = {} => \A d \in q.seen : Matches(d) => d \in Asked
           /\ \A d \in q.seen : d.kind = q.node.kind /\ d \in Devices
<1>1. q.node \in Devices /\ q.node.kind \in {"card", "midi", "hw"} /\ q.seen \in SUBSET Devices
  BY ScanFields
<1>2. \A d \in q.seen : d.kind = q.node.kind /\ d \in Devices
  BY <1>1 DEF QueryInv, Looked
<1>3. ASSUME NEW d \in q.seen
      PROVE  /\ q.node.kind = "card" \/ d.card = q.node.card => Matches(d)
             /\ q.node.kind # "card" /\ Matches(d) => IsPrefix(Digits(q.node.card), Digits(d.card))
  BY <1>1, <1>2, MatchMeans DEF Matches, QPrefix
<1>4. ASSUME NEW d \in Asked PROVE d \in q.seen /\ Matches(d)
  BY <1>2, <1>3 DEF Asked
<1>5. ASSUME Longer = {}, NEW d \in q.seen, Matches(d) PROVE d \in Asked
  <2>1. SUFFICES ASSUME d \notin Asked PROVE FALSE
    OBVIOUS
  <2>2. q.node.kind # "card"
    BY <1>2, <2>1 DEF Asked
  <2>3. d \in Longer
    BY <1>3, <1>5, <2>1, <2>2 DEF Longer
  <2>4. QED
    BY <1>5, <2>3
<1>6. QED
  BY <1>2, <1>4, <1>5

LEMMA CountedKeeps ==
    ASSUME QueryInv, Counted
    PROVE  QueryInv'
<1>1. /\ q.pc = "count" /\ UNCHANGED <<devs, fds, past>> /\ q.call \in Lists /\ q.left = {}
      /\ q.list = <<>>
  BY TypeGives DEF Counted, Control, QueryInv, Looked
<1>2. PICK C \in SUBSET Devices : Counting(C)
  BY <1>1 DEF QueryInv, ScanSound
<1>3. past.moves = 0 => \A d \in q.seen : Matches(d) => d \in C
  <2>1. past.moves = 0 => devs = q.seen /\ ~past.back
    BY <1>1, ScanFields DEF QueryInv, Looked
  <2>2. QED
    BY <1>1, <1>2, <2>1 DEF Counting
<1>4. CASE q.count = 0
  <2>1. q' = [q EXCEPT !.pc = "idle", !.ok = TRUE, !.set = FALSE]
    BY <1>4 DEF Counted, Return
  <2>2. q' \in Query
    BY <2>1, TypeGives DEF Query, Steps
  <2>3. /\ q'.pc = "idle" /\ q'.seen = q.seen /\ q'.left = q.left /\ q'.fd = q.fd
        /\ q'.ctl = q.ctl /\ q'.call = q.call /\ q'.node = q.node /\ q'.list = <<>>
        /\ q'.set = FALSE
    BY <1>1, <2>1, TypeGives DEF Query
  <2>4. OwnInv'
    BY <1>1, <2>2, <2>3, TypeGives, PassOwns
  <2>5. Looked'
    BY <1>1, <2>3 DEF QueryInv, Looked
  <2>6. ListExact'
    <3>1. C = {}
      BY <1>2, <1>4, FS_EmptySet DEF Counting
    <3>2. past.moves = 0 => Asked = {}
      BY <1>1, <1>3, <3>1, MatchesAsked
    <3>3. Asked' = Asked
      BY <2>3 DEF Asked
    <3>4. DOMAIN q'.list = {} /\ Range(q'.list) = {}
      BY <2>3 DEF Range
    <3>5. Asked = {} => Numbers(Asked) = {}
      BY DEF Numbers
    <3>6. Numbers(Asked)' = Numbers(Asked)
      BY <3>3 DEF Numbers
    <3>7. QED
      BY <1>1, <2>3, <3>2, <3>3, <3>4, <3>5, <3>6 DEF ListExact
  <2>7. ScanSound'
    BY <1>1, <2>3, <2>6 DEF QueryInv, ScanSound, WithinArray
  <2>8. QED
    BY <2>4, <2>5, <2>7 DEF QueryInv
<1>5. CASE q.count # 0
  <2>1. q' = [q EXCEPT !.pc = "fill", !.left = q.seen]
    BY <1>5 DEF Counted
  <2>2. q' \in Query
    BY <2>1, ScanFields, TypeGives DEF Query, Steps
  <2>3. /\ q'.pc = "fill" /\ q'.seen = q.seen /\ q'.left = q.seen /\ q'.fd = q.fd
        /\ q'.ctl = q.ctl /\ q'.call = q.call /\ q'.node = q.node /\ q'.list = <<>>
        /\ q'.count = q.count
    BY <1>1, <2>1, TypeGives DEF Query
  <2>4. OwnInv'
    BY <1>1, <2>2, <2>3, TypeGives, PassOwns
  <2>5. Looked'
    BY <1>1, <1>5, <2>3 DEF QueryInv, Looked
  <2>6. \A e : Matches(e)' = Matches(e)
    BY <2>3 DEF Matches, QPrefix
  <2>7. Filling(C, {})'
    <3>1. IsFiniteSet(C) /\ Cardinality(C) = q'.count
      BY <1>2, <2>3 DEF Counting
    <3>2. ~past'.back => \A d \in devs' : Matches(d)' /\ d \in q'.seen => d \in C
      BY <1>1, <1>2, <2>3, <2>6 DEF Counting
    <3>3. Len(q'.list) = 0 /\ DOMAIN q'.list = {} /\ Range(q'.list) = {} /\ IsInjective(q'.list)
      BY <2>3 DEF Range, IsInjective
    <3>4. IsFiniteSet({}) /\ Cardinality({}) = 0
      BY FS_EmptySet
    <3>5. QED
      BY <2>3, <3>1, <3>2, <3>3, <3>4 DEF Filling
  <2>8. \E B, F \in SUBSET Devices : Filling(B, F)'
    BY <2>7
  <2>9. ScanSound'
    BY <1>1, <2>3, <2>8 DEF QueryInv, ScanSound, WithinArray, ListExact
  <2>10. QED
    BY <2>4, <2>5, <2>9 DEF QueryInv
<1>6. QED
  BY <1>4, <1>5

\* One more entry, of a number that is not yet there.
LEMMA OneMore ==
    ASSUME NEW s \in Seq(Nat), NEW x \in Nat
    PROVE  /\ Append(s, x) \in Seq(Nat) /\ Len(Append(s, x)) = Len(s) + 1
           /\ Range(Append(s, x)) = Range(s) \cup {x}
           /\ IsInjective(s) /\ x \notin Range(s) => IsInjective(Append(s, x))
<1> DEFINE t == Append(s, x)
           n == Len(s)
<1>1. /\ t \in Seq(Nat) /\ Len(t) = n + 1 /\ n \in Nat /\ t[n + 1] = x /\ DOMAIN t = 1..(n + 1)
      /\ DOMAIN s = 1..n /\ \A i \in 1..n : t[i] = s[i]
  OBVIOUS
<1> HIDE DEF t, n
<1>2. Range(t) = {t[i] : i \in 1..(n + 1)} /\ Range(s) = {s[i] : i \in 1..n}
  BY <1>1 DEF Range
<1>3. \A i \in 1..(n + 1) : i \in 1..n \/ i = n + 1
  BY <1>1
<1>4. n + 1 \in 1..(n + 1) /\ \A i \in 1..n : i \in 1..(n + 1)
  BY <1>1
<1>5. Range(t) = Range(s) \cup {x}
  <2>1. ASSUME NEW i \in 1..(n + 1) PROVE t[i] \in Range(s) \cup {x}
    BY <1>1, <1>2, <1>3
  <2>2. ASSUME NEW i \in 1..n PROVE s[i] \in Range(t)
    BY <1>1, <1>2, <1>4
  <2>3. x \in Range(t)
    BY <1>1, <1>2, <1>4
  <2>4. QED
    BY <1>2, <2>1, <2>2, <2>3
<1>6. ASSUME IsInjective(s), x \notin Range(s) PROVE IsInjective(t)
  <2>1. ASSUME NEW i \in 1..(n + 1), NEW j \in 1..(n + 1), t[i] = t[j] PROVE i = j
    BY <1>1, <1>2, <1>3, <1>6, <2>1 DEF IsInjective
  <2>2. QED
    BY <1>1, <2>1 DEF IsInjective
<1>7. QED
  BY <1>1, <1>5, <1>6 DEF t, n

LEMMA FillKeeps ==
    ASSUME QueryInv, NEW d \in Devices, Fill(d)
    PROVE  QueryInv'
<1> DEFINE there == detect_device(d, QPrefix)
           list == IF there THEN Append(q.list, Num(d)) ELSE q.list
           beyond == past.beyond \/ (there /\ Len(q.list) >= q.count)
<1>1. q.pc = "fill" /\ UNCHANGED <<devs, fds>> /\ q.call \in Lists /\ d \in q.left
  BY TypeGives DEF Fill, Control
<1>2. q' = [q EXCEPT !.left = @ \ {d}, !.list = list] /\ past' = [past EXCEPT !.beyond = beyond]
  BY DEF Fill, Num, Capacity
<1>3. there <=> d \in devs /\ Matches(d)
  BY DEF detect_device, Matches
<1>4. d \in q.seen /\ d.kind \in {"card", "midi", "hw"} /\ Num(d) \in Nat
  <2>1. d \in q.seen /\ d.kind = q.node.kind
    BY <1>1, ScanFields, MatchesAsked
  <2>2. d.kind \in {"card", "midi", "hw"}
    BY <1>1, <2>1, ScanFields
  <2>3. QED
    BY <2>1, <2>2, NumIs
<1>5. /\ there => list = Append(q.list, Num(d))
      /\ ~there => list = q.list
      /\ beyond \in BOOLEAN
      /\ beyond <=> past.beyond \/ (there /\ Len(q.list) >= q.count)
  OBVIOUS
<1> HIDE DEF there, list, beyond
<1>6. list \in Seq(Nat) /\ q.left \ {d} \in SUBSET Devices
  BY <1>4, <1>5, ScanFields, OneMore
<1>7. q' \in Query /\ past' \in Past
  BY <1>2, <1>5, <1>6, TypeGives DEF Query, Past
<1>8. /\ q'.pc = "fill" /\ q'.seen = q.seen /\ q'.left = q.left \ {d} /\ q'.fd = q.fd
      /\ q'.ctl = q.ctl /\ q'.call = q.call /\ q'.node = q.node /\ q'.count = q.count
      /\ q'.list = list
  BY <1>1, <1>2, TypeGives DEF Query
<1>9. /\ past'.moves = past.moves /\ past'.back = past.back /\ past'.unset = past.unset
      /\ past'.stray = past.stray /\ past'.refused = past.refused /\ past'.beyond = beyond
  BY <1>2, TypeGives DEF Past
<1>10. OwnInv'
  BY <1>1, <1>7, <1>8, <1>9, PassOwns
<1>11. Looked'
  BY <1>1, <1>8, <1>9 DEF QueryInv, Looked
<1>12. PICK C \in SUBSET Devices, F \in SUBSET Devices : Filling(C, F)
  BY <1>1 DEF QueryInv, ScanSound
<1>13. \A e : Matches(e)' = Matches(e)
  BY <1>8 DEF Matches, QPrefix
<1>14. /\ IsFiniteSet(C) /\ Cardinality(C) = q'.count
       /\ ~past'.back => \A e \in devs' : Matches(e)' /\ e \in q'.seen => e \in C
  BY <1>1, <1>8, <1>9, <1>12, <1>13 DEF Filling
<1>15. CASE there
  <2> DEFINE G == F \cup {d}
  <2>1. d \notin F /\ F \subseteq q.seen \ q.left /\ IsFiniteSet(F) /\ Cardinality(F) = Len(q.list)
    BY <1>1, <1>12 DEF Filling
  <2>2. IsFiniteSet(G) /\ Cardinality(G) = Cardinality(F) + 1
    BY <2>1, FS_AddElement
  <2>3. /\ Len(q'.list) = Len(q.list) + 1 /\ Range(q'.list) = Range(q.list) \cup {Num(d)}
        /\ IsInjective(q.list) /\ Num(d) \notin Range(q.list) => IsInjective(q'.list)
    BY <1>4, <1>5, <1>8, <1>15, ScanFields, OneMore
  <2>4. ~past.back => G \subseteq C
    BY <1>3, <1>4, <1>12, <1>15 DEF Filling
  <2>5. Range(q.list) = {Num(e) : e \in F}
    BY <1>12 DEF Filling
  <2>6. Range(q'.list) = {Num(e) : e \in G}
    BY <2>3, <2>5
  <2>7. (\A e1, e2 \in G : Num(e1) = Num(e2) => e1 = e2) => IsInjective(q'.list)
    <3>1. SUFFICES ASSUME \A e1, e2 \in G : Num(e1) = Num(e2) => e1 = e2
                   PROVE  IsInjective(q'.list)
      OBVIOUS
    <3>2. IsInjective(q.list)
      BY <1>12, <3>1 DEF Filling
    <3>3. Num(d) \notin Range(q.list)
      BY <2>1, <2>5, <3>1
    <3>4. QED
      BY <2>3, <3>2, <3>3
  <2>8. G \subseteq q'.seen \ q'.left
    BY <1>4, <1>8, <2>1
  <2>9. \A e \in G : Matches(e)'
    BY <1>3, <1>12, <1>13, <1>15 DEF Filling
  <2>10. past'.moves = 0 => \A e \in q'.seen : Matches(e)' => e \in G \/ e \in q'.left
    BY <1>8, <1>9, <1>12, <1>13 DEF Filling
  <2>11. Cardinality(G) = Len(q'.list)
    BY <2>1, <2>2, <2>3
  <2>12. Filling(C, G)' /\ G \in SUBSET Devices
    <3>1. ~past'.back => G \subseteq C
      BY <1>9, <2>4
    <3> HIDE DEF G
    <3>2. Filling(C, G)'
      BY <1>14, <2>2, <2>6, <2>7, <2>8, <2>9, <2>10, <2>11, <3>1 DEF Filling, Num
    <3>3. QED
      BY <3>2 DEF G
  <2>13. WithinArray'
    <3>1. SUFFICES ASSUME ~past.back PROVE ~beyond
      BY <1>9 DEF WithinArray
    <3>2. Cardinality(G) <= Cardinality(C) /\ Cardinality(C) \in Nat
      <4>1. G \in SUBSET C /\ IsFiniteSet(C)
        BY <1>14, <2>4, <3>1
      <4> HIDE DEF G
      <4>2. QED
        BY <4>1, FS_Subset, FS_CardinalityType
    <3>3. Len(q.list) \in Nat /\ q.count \in Nat /\ Len(q.list) + 1 <= q.count
      <4> HIDE DEF G
      <4>1. Cardinality(C) = q.count
        BY <1>8, <1>14
      <4>2. QED
        BY <2>1, <2>2, <3>2, <4>1, ScanFields
    <3>4. ~(Len(q.list) >= q.count)
      BY <3>3
    <3>5. ~past.beyond
      BY <3>1 DEF QueryInv, ScanSound, WithinArray
    <3>6. QED
      BY <1>5, <3>4, <3>5
  <2>14. ScanSound'
    BY <1>8, <2>12, <2>13 DEF ScanSound, ListExact
  <2>15. QED
    BY <1>10, <1>11, <2>14 DEF QueryInv
<1>16. CASE ~there
  <2>1. q'.list = q.list
    BY <1>5, <1>8, <1>16
  <2>2. past.moves = 0 => ~Matches(d)
    <3>1. past.moves = 0 => devs = q.seen
      BY <1>1 DEF QueryInv, Looked
    <3>2. QED
      BY <1>3, <1>4, <1>16, <3>1
  <2>3. past'.moves = 0 => \A e \in q'.seen : Matches(e)' => e \in F \/ e \in q'.left
    BY <1>8, <1>9, <1>12, <1>13, <2>2 DEF Filling
  <2>4. /\ ~past'.back => F \subseteq C
        /\ F \subseteq q'.seen \ q'.left /\ IsFiniteSet(F) /\ Cardinality(F) = Len(q'.list)
        /\ \A e \in F : Matches(e)'
        /\ Range(q'.list) = {Num(e) : e \in F}
        /\ (\A e1, e2 \in F : Num(e1) = Num(e2) => e1 = e2) => IsInjective(q'.list)
    BY <1>8, <1>9, <1>12, <1>13, <2>1 DEF Filling
  <2>5. Filling(C, F)'
    BY <1>14, <2>3, <2>4 DEF Filling, Num
  <2>6. WithinArray'
    BY <1>5, <1>9, <1>16 DEF QueryInv, ScanSound, WithinArray
  <2>7. ScanSound'
    BY <1>8, <2>5, <2>6 DEF ScanSound, ListExact
  <2>8. QED
    BY <1>10, <1>11, <2>7 DEF QueryInv
<1>17. QED
  BY <1>15, <1>16

\* The nodes of a card have numbers of their own.
LEMMA NumbersDiffer ==
    ASSUME QueryInv, q.call \in Lists, NEW d \in Asked, NEW e \in Asked, Num(d) = Num(e)
    PROVE  d = e
<1>1. /\ d \in Devices /\ e \in Devices /\ d.kind = e.kind
      /\ d.kind = "card" \/ d.card = e.card
      /\ d.kind \in {"card", "midi", "hw"} /\ e.kind \in {"card", "midi", "hw"}
  <2>1. d \in q.seen /\ e \in q.seen
    BY DEF Asked
  <2>2. d.kind = q.node.kind /\ e.kind = q.node.kind /\ d \in Devices /\ e \in Devices
    BY <2>1, MatchesAsked
  <2>3. q.node.kind \in {"card", "midi", "hw"}
    BY ScanFields
  <2>4. QED
    BY <2>2, <2>3 DEF Asked
<1>2. /\ d = [kind |-> d.kind, card |-> d.card, dev |-> d.dev]
      /\ e = [kind |-> e.kind, card |-> e.card, dev |-> e.dev]
  BY <1>1, DeviceQueriesAssumption
<1>3. /\ d.kind = "card" => Num(d) = d.card /\ Num(e) = e.card /\ d.dev = 0 /\ e.dev = 0
      /\ d.kind # "card" => Num(d) = d.dev /\ Num(e) = e.dev
  BY <1>1, NumIs, DeviceQueriesAssumption
<1>4. d.card = e.card /\ d.dev = e.dev
  BY <1>1, <1>3
<1>5. QED
  BY <1>1, <1>2, <1>4

LEMMA FilledKeeps ==
    ASSUME QueryInv, Filled
    PROVE  QueryInv'
<1>1. q.pc = "fill" /\ UNCHANGED <<devs, fds, past>> /\ q.call \in Lists /\ q.left = {} /\ q.count # 0
  BY TypeGives DEF Filled, Control, QueryInv, Looked
<1>2. CASE Len(q.list) # q.count
  <2>1. q' = [q EXCEPT !.pc = "idle", !.ok = FALSE, !.set = FALSE]
    BY <1>2 DEF Filled, Return
  <2>2. q' \in Query
    BY <2>1, TypeGives DEF Query, Steps
  <2>3. /\ q'.pc = "idle" /\ q'.seen = q.seen /\ q'.left = q.left /\ q'.fd = q.fd
        /\ q'.ctl = q.ctl /\ q'.call = q.call /\ q'.node = q.node /\ q'.ok = FALSE
    BY <2>1, TypeGives DEF Query
  <2>4. OwnInv'
    BY <1>1, <2>2, <2>3, TypeGives, PassOwns
  <2>5. Looked'
    BY <1>1, <2>3 DEF QueryInv, Looked
  <2>6. ScanSound'
    BY <1>1, <2>3 DEF QueryInv, ScanSound, WithinArray, ListExact
  <2>7. QED
    BY <2>4, <2>5, <2>6 DEF QueryInv
<1>3. CASE Len(q.list) = q.count
  <2> DEFINE list == Sorted(q.list)
             n == Len(q.list)
  <2>1. q' = [q EXCEPT !.pc = "idle", !.ok = TRUE, !.set = TRUE, !.list = list]
    BY <1>3 DEF Filled
  <2>2. /\ list \in Seq(Nat) /\ DOMAIN list = 1..n /\ Range(list) = Range(q.list)
        /\ IsInjective(q.list) => \A i, j \in 1..n : i < j => list[i] < list[j]
    BY ScanFields, SortedIs
  <2> HIDE DEF list, n
  <2>3. q' \in Query
    BY <2>1, <2>2, TypeGives DEF Query, Steps
  <2>4. /\ q'.pc = "idle" /\ q'.seen = q.seen /\ q'.left = q.left /\ q'.fd = q.fd
        /\ q'.ctl = q.ctl /\ q'.call = q.call /\ q'.node = q.node /\ q'.set = TRUE
        /\ q'.list = list
    BY <2>1, TypeGives DEF Query
  <2>5. OwnInv'
    BY <1>1, <2>3, <2>4, TypeGives, PassOwns
  <2>6. Looked'
    BY <1>1, <2>4 DEF QueryInv, Looked
  <2>7. PICK C \in SUBSET Devices, F \in SUBSET Devices : Filling(C, F)
    BY <1>1 DEF QueryInv, ScanSound
  <2>8. /\ F \subseteq q.seen /\ IsFiniteSet(F) /\ Cardinality(F) = Len(q.list)
        /\ \A d \in F : Matches(d)
        /\ past.moves = 0 => \A d \in q.seen : Matches(d) => d \in F
        /\ Range(q.list) = {Num(d) : d \in F}
        /\ (\A d, e \in F : Num(d) = Num(e) => d = e) => IsInjective(q.list)
    BY <1>1, <2>7 DEF Filling
  <2>9. F # {}
    BY <1>1, <1>3, <2>8, FS_EmptySet
  <2>10. Asked' = Asked /\ Longer' = Longer
    BY <2>4 DEF Asked, Longer
  <2>11. ASSUME Longer = {}
         PROVE  /\ \A i, j \in DOMAIN list : i < j => list[i] < list[j]
                /\ Range(list) \subseteq Numbers(Asked)
                /\ past.moves = 0 => Range(list) = Numbers(Asked) /\ Asked # {}
    <3>1. F \subseteq Asked
      BY <1>1, <2>8, <2>11, MatchesAsked
    <3>2. IsInjective(q.list)
      BY <1>1, <2>8, <3>1, NumbersDiffer
    <3>3. Numbers(Asked) = {Num(d) : d \in Asked}
      <4>1. ASSUME NEW d \in Asked PROVE Num(d) = IF d.kind = "card" THEN d.card ELSE d.dev
        <5>1. d \in q.seen
          BY DEF Asked
        <5>2. d \in Devices /\ d.kind \in {"card", "midi", "hw"}
          BY <1>1, <5>1, MatchesAsked, ScanFields
        <5>3. QED
          BY <5>2, NumIs
      <4>2. QED
        BY <4>1 DEF Numbers
    <3>4. Range(list) \subseteq Numbers(Asked)
      BY <2>2, <2>8, <3>1, <3>3
    <3>5. past.moves = 0 => Asked \subseteq F
      BY <1>1, <2>8, MatchesAsked
    <3>6. past.moves = 0 => Range(list) = Numbers(Asked)
      BY <2>2, <2>8, <3>3, <3>4, <3>5
    <3>7. QED
      BY <2>2, <2>9, <3>1, <3>2, <3>4, <3>6
  <2>12. ListExact'
    <3>1. Numbers(Asked)' = Numbers(Asked)
      BY <2>10 DEF Numbers
    <3>2. QED
      BY <1>1, <2>4, <2>10, <2>11, <3>1 DEF ListExact
  <2>13. ScanSound'
    BY <1>1, <2>4, <2>12 DEF QueryInv, ScanSound, WithinArray
  <2>14. QED
    BY <2>5, <2>6, <2>13 DEF QueryInv
<1>4. QED
  BY <1>2, <1>3
----------------------------------------------------------------------------
(* The theorems. *)

LEMMA InitSound ==
    ASSUME Init
    PROVE  QueryInv
<1>1. /\ q.call = "none" /\ q.node = Timer /\ q.pc = "idle" /\ q.fd = Bad /\ q.ctl = Bad
      /\ q.seen = {} /\ q.left = {} /\ q.count = 0 /\ q.list = <<>>
  BY DEF Init, Idle
<1>2. /\ past.moves = 0 /\ past.back = FALSE /\ past.beyond = FALSE /\ past.unset = FALSE
      /\ past.stray = FALSE /\ past.refused = FALSE
  BY DEF Init, NoPast
<1>3. QueryType
  <2>1. q \in Query
    BY DEF Init, Idle, Query, Calls, Steps
  <2>2. past \in Past
    BY DEF Init, NoPast, Past
  <2>3. QED
    BY <2>1, <2>2 DEF Init, QueryType
<1>4. Control
  BY <1>1, <1>2 DEF Control, Lists, Pair
<1>5. Own
  BY <1>1, <1>2 DEF Own, Held, Queried, Init
<1>6. Looked /\ ScanSound
  BY <1>1, <1>2 DEF Looked, ScanSound, WithinArray, ListExact, Lists
<1>7. QED
  BY <1>3, <1>4, <1>5, <1>6 DEF QueryInv, OwnInv

LEMMA NextKeeps ==
    ASSUME QueryInv, [Next]_vars
    PROVE  QueryInv'
BY CallKeeps, ScanDevicesKeeps, CountedKeeps, FilledKeeps, CountKeeps, FillKeeps,
   LookupNameKeeps, LookupTimerKeeps, LookupControlKeeps, OpenTimerKeeps, OpenControlKeeps,
   IoctlKeeps, CloseKeeps, OpenParameterKeeps, ReadParameterKeeps, LookupMidiKeeps,
   SelectSubdeviceKeeps, OpenMidiKeeps, CloseControlKeeps, VersionKeeps, PlugKeeps, UnplugKeeps,
   OtherOpensKeeps, OtherClosesKeeps, StutterKeeps DEF Next

LEMMA QueryInvHolds == Spec => []QueryInv
<1>1. Init => QueryInv
  BY InitSound
<1>2. QueryInv /\ [Next]_vars => QueryInv'
  BY NextKeeps
<1>3. QED
  BY <1>1, <1>2, PTL DEF Spec

\* A list that alsactl_get_card_id_list, alsarawmidi_get_device_id_list or
\* alsahwdep_get_device_id_list answers is exact: in order, of nodes of the
\* card only, and complete while no node comes or goes.
THEOREM ListsAreExact == Spec => []ListExact
<1>1. QueryInv => ListExact
  BY DEF QueryInv, ScanSound
<1>2. QED
  BY <1>1, QueryInvHolds, PTL

\* generate_sysnum_list_by_sysname_prefix writes past its array only if a node
\* that its scan had seen came back between the passes.
THEOREM ArrayIsLargeEnough == Spec => []WithinArray
<1>1. QueryInv => WithinArray
  BY DEF QueryInv, ScanSound
<1>2. QED
  BY <1>1, QueryInvHolds, PTL

\* The queries close their own descriptors only, and all of them, but for a
\* lookup that found no name and a selection that was refused.
THEOREM DescriptorsAreKept == Spec => []DescriptorsKept
<1>1. QueryInv => DescriptorsKept
  <2>1. SUFFICES ASSUME QueryInv PROVE DescriptorsKept
    OBVIOUS
  <2>2. past.stray => past.unset
    BY <2>1, TypeGives DEF Own
  <2>3. ASSUME q.pc = "idle", ~past.refused, NEW f \in Fds PROVE fds[f] # "query"
    BY <2>1, <2>3, TypeGives DEF Own, Held, Queried
  <2>4. QED
    BY <2>2, <2>3 DEF DescriptorsKept
<1>2. QED
  BY <1>1, QueryInvHolds, PTL
=============================================================================
