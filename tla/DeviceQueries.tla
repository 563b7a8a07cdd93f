---- MODULE DeviceQueries ----
(***************************************************************************)
(* The queries that look at nodes of the sound subsystem: src/utils, and   *)
(* the functions of query.c in ctl, rawmidi, hwdep and timer built on it,  *)
(* with the two functions that open a device by its numbers.  Nodes appear *)
(* and disappear between any two steps of a query, and other threads open  *)
(* and close descriptors.                                                  *)
(*                                                                         *)
(* The name of a node is a sequence of tokens: letters, then digits.       *)
(***************************************************************************)
EXTENDS Integers, Sequences, FiniteSets, FiniteSetsExt, Folds, Functions

CONSTANTS
  Devices,     \* nodes that may exist: [kind, card, dev]
  Fds,         \* descriptors of the process
  MaxMoves,    \* nodes that appear or disappear during one query
  MaxTimers    \* timer devices

ASSUME DeviceQueriesAssumption ==
  /\ Devices \subseteq [kind : {"card", "control", "midi", "hw", "timer", "seq"},
                        card : 0..99, dev : 0..99]
  /\ \A d \in Devices : d.kind = "card" => d.dev = 0
  /\ Fds \subseteq Nat /\ IsFiniteSet(Fds)
  /\ MaxMoves \in Nat /\ MaxTimers \in Nat

VARIABLES
  devs,        \* the nodes that exist
  fds,         \* descriptor -> "free", "query" or "other"
  q,           \* the query: its call, the node it is about, its step and locals
  past         \* what happened during the query

vars == <<devs, fds, q, past>>

Bad == -1

-----------------------------------------------------------------------------
(* Names. *)

Digit == <<"0", "1", "2", "3", "4", "5", "6", "7", "8", "9">>

\* "%u"
Digits(n) == IF n < 10 THEN <<Digit[n + 1]>> ELSE <<Digit[(n \div 10) + 1], Digit[(n % 10) + 1]>>

\* The templates of utils.h.
SysName(d) ==
  CASE d.kind = "card"    -> <<"card">> \o Digits(d.card)
    [] d.kind = "control" -> <<"control", "C">> \o Digits(d.card)
    [] d.kind = "midi"    -> <<"midi", "C">> \o Digits(d.card) \o <<"D">> \o Digits(d.dev)
    [] d.kind = "hw"      -> <<"hw", "C">> \o Digits(d.card) \o <<"D">> \o Digits(d.dev)
    [] d.kind = "timer"   -> <<"timer">>
    [] d.kind = "seq"     -> <<"seq">>

\* Mutant of Prefix: leaves the card out.
PrefixOfAll(kind, card) == IF kind = "card" THEN <<"card">> ELSE <<kind, "C">>

Prefix(kind, card) == IF kind = "card" THEN <<"card">> ELSE <<kind, "C">> \o Digits(card)

\* udev_device_get_sysnum(): the digits at the end of a name.
SysNum(d) == IF d.kind \in {"card", "control"} THEN Digits(d.card) ELSE Digits(d.dev)

\* strtol() of digits.
long_from_string(digits) ==
  LET Value(x) == CHOOSE v \in 0..9 : Digit[v + 1] = x
  IN  MapThenFoldSet(LAMBDA x, n : 10 * n + Value(x), 0, LAMBDA i : digits[i],
                     LAMBDA S : Max(S), DOMAIN digits)

\* strstr(sysname, prefix) == sysname
IsPrefix(prefix, sysname) ==
  Len(prefix) <= Len(sysname) /\ \A i \in 1..Len(prefix) : prefix[i] = sysname[i]

detect_device(d, prefix) == d \in devs /\ IsPrefix(prefix, SysName(d))

\* qsort() merges: the first of two goes first unless it compares greater.
compare_u32(x, y) == x > y

\* p takes the places of a list to where their entries come from.
Sorts(p, list) ==
  /\ IsInjective(p)
  /\ \A i, j \in DOMAIN list : i < j => ~compare_u32(list[p[i]], list[p[j]])

Sorted(list) ==
  LET from == CHOOSE p \in [DOMAIN list -> DOMAIN list] : Sorts(p, list)
  IN  [i \in DOMAIN list |-> list[from[i]]]

-----------------------------------------------------------------------------
(* The process. *)

Free == {f \in Fds : fds[f] = "free"}

LowestFree == CHOOSE f \in Free : \A g \in Free : f <= g

Node(kind, card) == [kind |-> kind, card |-> card, dev |-> 0]

Timer == Node("timer", 0)

Idle == [call |-> "none", node |-> Timer, pc |-> "idle", fd |-> Bad, ctl |-> Bad,
         seen |-> {}, left |-> {}, count |-> 0, list |-> <<>>, set |-> FALSE, ok |-> FALSE]

NoPast ==
  [moves |-> 0,          \* nodes that came or went during the query
   back |-> FALSE,       \* one came back that the scan had seen
   beyond |-> FALSE,     \* an entry was written past the array
   unset |-> FALSE,      \* a descriptor was used that was never opened
   stray |-> FALSE,      \* a descriptor of another thread was closed
   refused |-> FALSE]    \* some choice of a subdevice was refused

Init ==
  /\ devs = {}
  /\ fds = [f \in Fds |-> "free"]
  /\ q = Idle
  /\ past = NoPast

Goto(pc) == q' = [q EXCEPT !.pc = pc]

Return(ok, set) == q' = [q EXCEPT !.pc = "idle", !.ok = ok, !.set = set]

At(pc, calls) == q.pc = pc /\ q.call \in calls

-----------------------------------------------------------------------------
(* Calls. *)

Lists == {"card list", "midi list", "hw list"}

Kind == [c \in Lists |-> CASE c = "card list" -> "card" [] c = "midi list" -> "midi" [] c = "hw list" -> "hw"]

\* alsatimer_get_device_info, -status, set_device_params; the list loops.
TimerCalls == {"timer info", "timer list"}

\* alsahwdep_get_device_info, alsarawmidi_get_substream_info, -subdevice_id_list.
ControlCalls == {"ctl info"}

\* get_*_sysname() and get_*_devnode(), alsahwdep_device_common_open().
NameCalls == {"name", "hwdep open"}

\* The nodes that a call looks at; those of other kinds match no name or prefix of it.
Watched(d, call, node) == d.kind = node.kind \/ (call = "stream pair" /\ d.kind = "control")

\* Nodes come and go between calls: any may exist by the next.
Begin(call, node, pc) ==
  /\ q.pc = "idle"
  /\ q' = [Idle EXCEPT !.call = call, !.node = node, !.pc = pc]
  /\ devs' \in SUBSET {d \in Devices : Watched(d, call, node)}
  /\ past' = [NoPast EXCEPT !.refused = past.refused]
  /\ UNCHANGED fds

Name(kind) == \E d \in Devices : d.kind = kind /\ Begin("name", d, "lookup")

List(call) == \E d \in Devices : d.kind = Kind[call] /\ Begin(call, d, "scan")

\* The system name and the path of a node.
alsactl_get_card_sysname == Name("card")

alsactl_get_control_devnode == Name("control")

alsarawmidi_get_rawmidi_devnode == Name("midi")

alsahwdep_get_hwdep_devnode == Name("hw")

alsatimer_get_devnode == Name("timer")

alsaseq_get_seq_devnode == Name("seq")

\* The path goes to the open() of the class, which is outside the library.
alsahwdep_device_common_open == \E d \in Devices : d.kind = "hw" /\ Begin("hwdep open", d, "lookup")

alsactl_get_card_id_list == List("card list")

alsarawmidi_get_device_id_list == List("midi list")

alsahwdep_get_device_id_list == List("hw list")

\* And alsarawmidi_get_substream_info, alsahwdep_get_device_info: one request
\* to the control of the card.
alsarawmidi_get_subdevice_id_list == \E d \in Devices : d.kind = "control" /\ Begin("ctl info", d, "lookup")

\* And alsatimer_get_device_status, alsatimer_set_device_params.
alsatimer_get_device_info == Begin("timer info", Timer, "lookup")

alsatimer_get_device_id_list == Begin("timer list", Timer, "lookup")

alsatimer_get_real_time_clock_id == Begin("clock", Timer, "open")

alsarawmidi_stream_pair_open == \E d \in Devices : d.kind = "midi" /\ Begin("stream pair", d, "lookup")

Call ==
  \/ alsactl_get_card_sysname \/ alsactl_get_control_devnode \/ alsarawmidi_get_rawmidi_devnode
  \/ alsahwdep_get_hwdep_devnode \/ alsatimer_get_devnode \/ alsahwdep_device_common_open
  \/ alsactl_get_card_id_list \/ alsarawmidi_get_device_id_list \/ alsahwdep_get_device_id_list
  \/ alsarawmidi_get_subdevice_id_list \/ alsatimer_get_device_info
  \/ alsatimer_get_device_id_list \/ alsatimer_get_real_time_clock_id \/ alsaseq_get_seq_devnode
  \/ alsarawmidi_stream_pair_open

-----------------------------------------------------------------------------
(* generate_sysnum_list_by_sysname_prefix() *)

QPrefix == Prefix(q.node.kind, q.node.card)

ScanDevices ==
  /\ q.pc = "scan"
  /\ q' = [q EXCEPT !.pc = "count", !.seen = devs, !.left = devs]
  /\ UNCHANGED <<devs, fds, past>>

Count(d) ==
  /\ q.pc = "count" /\ d \in q.left
  /\ q' = [q EXCEPT !.left = @ \ {d}, !.count = @ + (IF detect_device(d, QPrefix) THEN 1 ELSE 0)]
  /\ UNCHANGED <<devs, fds, past>>

\* With nothing counted the call succeeds and leaves its outputs alone.
Counted ==
  /\ q.pc = "count" /\ q.left = {}
  /\ IF q.count = 0 THEN Return(TRUE, FALSE)
     ELSE q' = [q EXCEPT !.pc = "fill", !.left = q.seen]
  /\ UNCHANGED <<devs, fds, past>>

\* Mutant of Capacity: one entry less is allocated.
CapacityShort(count) == count - 1

Capacity(count) == count

\* An entry is written wherever the index has come to.
Fill(d) ==
  /\ q.pc = "fill" /\ d \in q.left
  /\ LET there == detect_device(d, QPrefix)
     IN  /\ q' = [q EXCEPT !.left = @ \ {d},
                           !.list = IF there THEN Append(@, long_from_string(SysNum(d))) ELSE @]
         /\ past' = [past EXCEPT !.beyond = @ \/ (there /\ Len(q.list) >= Capacity(q.count))]
  /\ UNCHANGED <<devs, fds>>

Filled ==
  /\ q.pc = "fill" /\ q.left = {}
  /\ IF Len(q.list) # q.count THEN Return(FALSE, FALSE)
     ELSE q' = [q EXCEPT !.pc = "idle", !.ok = TRUE, !.set = TRUE,
                         !.list = Sorted(@)]
  /\ UNCHANGED <<devs, fds, past>>

-----------------------------------------------------------------------------
(* lookup_and_allocate_string_by_sysname(), and what follows it. *)

\* A local variable that was never written holds any number.
Uninitialised == Fds \cup {Bad}

\* A name is answered, or handed to the open() of the class; nothing is kept.
LookupName ==
  /\ At("lookup", NameCalls)
  /\ \/ q.node \in devs /\ Return(TRUE, TRUE)
     \/ Return(FALSE, FALSE)
  /\ UNCHANGED <<devs, fds, past>>

\* open_fd() of timer/query.c reports -1, which is true, without a name.
LookupTimer ==
  /\ At("lookup", TimerCalls)
  /\ IF q.node \in devs THEN Goto("open") /\ UNCHANGED past
     ELSE /\ \E fd \in Uninitialised : q' = [q EXCEPT !.pc = "ioctl", !.fd = fd]
          /\ past' = [past EXCEPT !.unset = TRUE]
  /\ UNCHANGED <<devs, fds>>

\* request_ctl_ioctl() closes what request_ctl_ioctl_opened() has not opened.
LookupControl ==
  /\ At("lookup", ControlCalls)
  /\ IF q.node \in devs THEN Goto("open") /\ UNCHANGED past
     ELSE /\ \E fd \in Uninitialised : q' = [q EXCEPT !.pc = "close failed", !.fd = fd]
          /\ past' = [past EXCEPT !.unset = TRUE]
  /\ UNCHANGED <<devs, fds>>

\* open(2) of a node that may be gone by now, or in use.
Opens(d) == d \in devs /\ Free # {}

OpenTimer ==
  /\ At("open", TimerCalls)
  /\ \/ /\ Opens(q.node)
        /\ q' = [q EXCEPT !.pc = "ioctl", !.fd = LowestFree]
        /\ fds' = [fds EXCEPT ![LowestFree] = "query"]
     \/ Return(FALSE, FALSE) /\ UNCHANGED fds
  /\ UNCHANGED <<devs, past>>

OpenControl ==
  /\ At("open", ControlCalls)
  /\ \/ /\ Opens(q.node)
        /\ \E pc \in {"close", "close failed"} : q' = [q EXCEPT !.pc = pc, !.fd = LowestFree]
        /\ fds' = [fds EXCEPT ![LowestFree] = "query"]
     \/ Goto("close failed") /\ UNCHANGED fds
  /\ UNCHANGED <<devs, past>>

\* ioctl(2): one answer, or the next timer until there is none.
Ioctl ==
  /\ q.pc = "ioctl"
  /\ \/ Goto("close failed")
     \/ /\ q.fd \in Fds /\ fds[q.fd] # "free"
        /\ IF q.call = "timer list" /\ Len(q.list) < MaxTimers
           THEN q' = [q EXCEPT !.list = Append(@, Len(@))]
           ELSE Goto("close")
  /\ UNCHANGED <<devs, fds, past>>

\* Mutant of Closed: the descriptor of a failed call is kept.
ClosedOnSuccess(fd) == IF fd \in Fds /\ q.pc = "close" THEN [fds EXCEPT ![fd] = "free"] ELSE fds

\* close(2)
Closed(fd) == IF fd \in Fds THEN [fds EXCEPT ![fd] = "free"] ELSE fds

Stray(fd) == fd \in Fds /\ fds[fd] = "other"

Close ==
  /\ q.pc \in {"close", "close failed"} /\ q.call # "stream pair"
  /\ fds' = Closed(q.fd)
  /\ past' = [past EXCEPT !.stray = @ \/ Stray(q.fd)]
  /\ Return(q.pc = "close", q.pc = "close")
  /\ UNCHANGED devs

-----------------------------------------------------------------------------
(* alsatimer_get_real_time_clock_id(): the file of a module parameter *)

OpenParameter ==
  /\ At("open", {"clock"})
  /\ \/ /\ Free # {}
        /\ q' = [q EXCEPT !.pc = "read", !.fd = LowestFree]
        /\ fds' = [fds EXCEPT ![LowestFree] = "query"]
     \/ Return(FALSE, FALSE) /\ UNCHANGED fds
  /\ UNCHANGED <<devs, past>>

\* read(2) fails, or gives no number, or another than 0 and 1, or one of them.
ReadParameter ==
  /\ q.pc = "read"
  /\ \E pc \in {"close", "close failed"} : Goto(pc)
  /\ UNCHANGED <<devs, fds, past>>

-----------------------------------------------------------------------------
(* alsarawmidi_stream_pair_open() with rawmidi_select_subdevice() *)

Pair == {"stream pair"}

LookupMidi ==
  /\ At("lookup", Pair)
  /\ IF q.node \in devs THEN Goto("select") ELSE Return(FALSE, FALSE)
  /\ UNCHANGED <<devs, fds, past>>

\* request_ctl_ioctl_opened(): the descriptor stays open when it is refused.
SelectSubdevice ==
  /\ At("select", Pair)
  /\ \/ Return(FALSE, FALSE) /\ UNCHANGED <<fds, past>>
     \/ /\ Opens(Node("control", q.node.card))
        /\ fds' = [fds EXCEPT ![LowestFree] = "query"]
        /\ \/ q' = [q EXCEPT !.pc = "open", !.ctl = LowestFree] /\ UNCHANGED past
           \/ Return(FALSE, FALSE) /\ past' = [past EXCEPT !.refused = TRUE]
  /\ UNCHANGED devs

OpenMidi ==
  /\ At("open", Pair)
  /\ \/ /\ Opens(q.node)
        /\ q' = [q EXCEPT !.pc = "close", !.fd = LowestFree]
        /\ fds' = [fds EXCEPT ![LowestFree] = "query"]
     \/ Goto("close") /\ UNCHANGED fds
  /\ UNCHANGED <<devs, past>>

CloseControl ==
  /\ At("close", Pair)
  /\ fds' = Closed(q.ctl)
  /\ past' = [past EXCEPT !.stray = @ \/ Stray(q.ctl)]
  /\ IF q.fd = Bad THEN Return(FALSE, FALSE) ELSE Goto("version")
  /\ UNCHANGED devs

\* SNDRV_RAWMIDI_IOCTL_PVERSION; the stream pair keeps the descriptor.
Version ==
  /\ q.pc = "version"
  /\ \/ Return(TRUE, TRUE) /\ fds' = [fds EXCEPT ![q.fd] = "other"]
     \/ Return(FALSE, FALSE) /\ fds' = Closed(q.fd)
  /\ UNCHANGED <<devs, past>>

-----------------------------------------------------------------------------
(* Everything else. *)

Move(d) ==
  /\ q.pc # "idle" /\ past.moves < MaxMoves /\ Watched(d, q.call, q.node)
  /\ UNCHANGED <<fds, q>>

Plug(d) ==
  /\ Move(d) /\ d \notin devs
  /\ devs' = devs \cup {d}
  /\ past' = [past EXCEPT !.moves = @ + 1, !.back = @ \/ d \in q.seen]

Unplug(d) ==
  /\ Move(d) /\ d \in devs
  /\ devs' = devs \ {d}
  /\ past' = [past EXCEPT !.moves = @ + 1]

OtherOpens == Free # {} /\ fds' = [fds EXCEPT ![LowestFree] = "other"] /\ UNCHANGED <<devs, q, past>>

OtherCloses(f) == fds[f] = "other" /\ fds' = [fds EXCEPT ![f] = "free"] /\ UNCHANGED <<devs, q, past>>

Next ==
  \/ Call
  \/ ScanDevices \/ Counted \/ Filled
  \/ \E d \in Devices : Count(d) \/ Fill(d)
  \/ LookupName \/ LookupTimer \/ LookupControl
  \/ OpenTimer \/ OpenControl \/ Ioctl \/ Close
  \/ OpenParameter \/ ReadParameter
  \/ LookupMidi \/ SelectSubdevice \/ OpenMidi \/ CloseControl \/ Version
  \/ \E d \in Devices : Plug(d) \/ Unplug(d)
  \/ OtherOpens \/ \E f \in Fds : OtherCloses(f)

Spec == Init /\ [][Next]_vars

-----------------------------------------------------------------------------
(* Properties. *)

\* The nodes a list is asked for, and nodes of a card whose number starts
\* with the digits of the one asked for.
Asked == {d \in q.seen : d.kind = q.node.kind /\ (d.kind = "card" \/ d.card = q.node.card)}

Longer == {d \in q.seen \ Asked : IsPrefix(Digits(q.node.card), Digits(d.card))}

Numbers(nodes) == {IF d.kind = "card" THEN d.card ELSE d.dev : d \in nodes}

\* A list that alsactl_get_card_id_list, alsahwdep_get_device_id_list or
\* alsarawmidi_get_device_id_list answers is in order and has numbers of
\* nodes of the card found by its scan only; while no node comes or goes it
\* has each number once, and it is missing only if there was none.  The
\* prefix match of detect_device takes the nodes of card 10 for those of card
\* 1 as well; scans that met such a card are left out.
ListExact ==
  (q.pc = "idle" /\ q.call \in Lists /\ q.ok /\ Longer = {}) =>
    /\ \A i, j \in DOMAIN q.list : i < j => q.list[i] < q.list[j]
    /\ Range(q.list) \subseteq Numbers(Asked)
    /\ past.moves = 0 => Range(q.list) = Numbers(Asked) /\ (q.set <=> Asked # {})

\* The second pass of generate_sysnum_list_by_sysname_prefix stays within
\* the array sized by the first, unless a node of the scan came back
\* between the passes.
WithinArray == past.beyond => past.back

\* A query closes descriptors of its own only, unless it was to use one
\* without having found the node's name, and leaves none open, unless
\* the selection of a subdevice was refused.
DescriptorsKept ==
  /\ past.stray => past.unset
  /\ (q.pc = "idle" /\ ~past.refused) => \A f \in Fds : fds[f] # "query"
====
