---- MODULE DataObjects ----
(***************************************************************************)
(* The life of one data object, of any class of the libraries: it is made, *)
(* its properties are set, and the calls of the user client, the user      *)
(* instance, the stream pair, the card and the queries hand its structure  *)
(* to the kernel, which reads it or fills it in.  Classes with a           *)
(* comparison have a second object beside it.                              *)
(***************************************************************************)
EXTENDS SeqObjects, CtlObjects, TimerObjects, MidiObjects, FiniteSetsExt

CONSTANT MaxCalls      \* calls in one behaviour

ASSUME MaxCallsAssumption == MaxCalls \in Nat

VARIABLES
  cls,        \* the class of the object
  obj,        \* the structures of the object and its companion: field -> value
  sent,       \* the structure the last sending call handed to the kernel
  refs,       \* references: the caller's own, made by calls, given to the caller
  op,         \* the last call: values given, properties it may disturb
  calls       \* calls so far

objectVars == <<cls, obj, sent, refs, op, calls>>

-----------------------------------------------------------------------------
(* The classes. *)

Object(spec, set, get) == [spec |-> spec, set |-> set, get |-> get]

\* Boxed types have functions instead of declared properties.
Boxed(access, set, get) ==
  Object([p \in DOMAIN get |-> [type |-> get[p].type,
                                access |-> IF p \in DOMAIN set THEN access ELSE "R"]], set, get)

SeqClasses ==
  "SeqClientInfo" :> Object(client_info_class_init,
                            client_info_set_property @@ client_info_set_event_filter,
                            client_info_get_property @@ client_info_get_event_filter)
  @@ "SeqPortInfo" :> Object(port_info_class_init, port_info_set_property,
                             port_info_get_property)
  @@ "SeqSubscribeData" :> Object(subscribe_data_class_init, subscribe_data_set_property,
                                  subscribe_data_get_property)
  @@ "SeqRemoveFilter" :> Object(remove_filter_class_init,
       remove_filter_set_property @@ remove_filter_tick_time @@ remove_filter_real_time,
       remove_filter_get_property @@ remove_filter_tick_time @@ remove_filter_real_time)
  @@ "SeqClientPool" :> Object(client_pool_class_init, client_pool_set_property,
                               client_pool_get_property)
  @@ "SeqQueueInfo" :> Object(queue_info_class_init, queue_info_set_property,
                              queue_info_get_property)
  @@ "SeqQueueTempo" :> Object(queue_tempo_class_init,
                               queue_tempo_set_property @@ queue_tempo_skew,
                               queue_tempo_get_property @@ queue_tempo_skew)
  @@ "SeqQueueStatus" :> Object(queue_status_class_init, Nothing,
                                queue_status_get_property @@ queue_status_times)
  @@ "SeqQueueTimerAlsa" :> Object(
       queue_timer_alsa_class_init @@ queue_timer_common_default_init,
       queue_timer_alsa_set_property, queue_timer_alsa_get_property)
  @@ "SeqSystemInfo" :> Object(system_info_class_init, Nothing, system_info_get_property)
  @@ "SeqEventDataNote" :> Boxed("RW", event_data_note_set, event_data_note_get)
  @@ "SeqEventDataCtl" :> Boxed("RW", event_data_ctl_access, event_data_ctl_access)
  @@ "SeqEventDataResult" :> Boxed("RW", event_data_result_access, event_data_result_access)
  @@ "SeqEventDataConnect" :> Boxed("RW", event_data_connect_access,
                                    event_data_connect_access)
  @@ "SeqEventDataQueue" :> Boxed("RW", event_data_queue_access, event_data_queue_access)
  @@ "SeqAddr" :> Boxed("CO", addr_access, addr_access)
  @@ "SeqEvent" :> Boxed("RW",
       event_set_header @@ event_tick_time @@ event_real_time,
       event_get_header @@ event_tick_time @@ event_real_time)

CtlClasses ==
  "CtlElemInfoBoolean" :> Object(elem_info_boolean_class_init,
       elem_info_boolean_set_property, elem_info_boolean_get_property)
  @@ "CtlElemInfoBytes" :> Object(elem_info_bytes_class_init,
       elem_info_bytes_set_property, elem_info_bytes_get_property)
  @@ "CtlElemInfoInteger" :> Object(elem_info_integer_class_init,
       elem_info_integer_set_property, elem_info_integer_get_property)
  @@ "CtlElemInfoInteger64" :> Object(elem_info_integer64_class_init,
       elem_info_integer64_set_property, elem_info_integer64_get_property)
  @@ "CtlElemInfoEnumerated" :> Object(elem_info_enumerated_class_init,
       elem_info_enumerated_set_property, elem_info_enumerated_get_property)
  @@ "CtlElemInfoIec60958" :> Object(elem_info_iec60958_class_init,
       elem_info_iec60958_set_property, elem_info_iec60958_get_property)
  @@ "CtlCardInfo" :> Object(card_info_class_init, Nothing, card_info_get_property)
  @@ "CtlElemValue" :> Object(
       elem_value_class_init @@ ParamSpec("cells", "RW", DOMAIN elem_value_members),
       elem_value_members, elem_value_get_property @@ elem_value_members)
  @@ "CtlElemId" :> Boxed("CO", elem_id_new_by_numid @@ elem_id_new_by_name,
                          elem_id_access)

OtherClasses ==
  "TimerInstanceParams" :> Object(instance_params_class_init, instance_params_set_property,
       instance_params_get_property @@ instance_params_get_event_filter)
  @@ "TimerInstanceInfo" :> Object(instance_info_class_init, Nothing,
                                   instance_info_get_property)
  @@ "TimerInstanceStatus" :> Object(instance_status_class_init, Nothing,
       instance_status_get_property @@ instance_status_get_time)
  @@ "TimerDeviceInfo" :> Object(timer_device_info_class_init, Nothing, timer_device_info_get_property)
  @@ "TimerDeviceParams" :> Object(device_params_class_init, device_params_set_property,
                                   device_params_get_property)
  @@ "TimerDeviceStatus" :> Object(device_status_class_init, Nothing,
                                   device_status_get_property)
  @@ "TimerDeviceId" :> Boxed("CO", device_id_access, device_id_access)
  @@ "TimerRealTimeEvent" :> Boxed("R", Nothing, real_time_event_access)
  @@ "TimerTickTimeEvent" :> Boxed("R", Nothing, tick_time_event_access)
  @@ "RawmidiSubstreamInfo" :> Object(substream_info_class_init, Nothing,
                                      substream_info_get_property)
  @@ "RawmidiSubstreamParams" :> Object(substream_params_class_init,
       substream_params_set_property, substream_params_get_property)
  @@ "RawmidiSubstreamStatus" :> Object(substream_status_class_init, Nothing,
                                        substream_status_get_property)
  @@ "HwdepDeviceInfo" :> Object(hwdep_device_info_class_init, hwdep_device_info_set_property,
                                 hwdep_device_info_get_property)

Class == SeqClasses @@ CtlClasses @@ OtherClasses

\* The classes that come with an event, by alsaseq_user_client's and
\* alsatimer_user_instance's sources.
EventClasses ==
  {"SeqEventDataNote", "SeqEventDataCtl", "SeqEventDataResult", "SeqEventDataConnect",
   "SeqEventDataQueue", "SeqEvent", "TimerRealTimeEvent", "TimerTickTimeEvent"}

\* What an event carries is read from its descriptor into the object.
Received(class) == Fetches(class, Nothing)

ElemInfoClasses ==
  {"CtlElemInfoBoolean", "CtlElemInfoBytes", "CtlElemInfoInteger", "CtlElemInfoInteger64",
   "CtlElemInfoEnumerated", "CtlElemInfoIec60958"}

KernelCalls ==
  {alsaseq_user_client_set_info, alsaseq_user_client_get_info,
   alsaseq_user_client_update_port, alsaseq_user_client_set_pool,
   alsaseq_user_client_get_pool, alsaseq_user_client_update_queue,
   alsaseq_user_client_set_queue_tempo, alsaseq_user_client_get_queue_tempo,
   alsaseq_user_client_set_queue_timer, alsaseq_user_client_get_queue_timer,
   alsaseq_user_client_remove_events, alsaseq_user_client_operate_subscription,
   alsaseq_get_system_info, alsaseq_get_client_info, alsaseq_get_port_info,
   alsaseq_get_client_pool, alsaseq_get_queue_info_by_id,
   alsaseq_get_queue_info_by_name, alsaseq_get_queue_status,
   alsactl_card_get_info, alsactl_card_write_elem_value,
   alsactl_card_read_elem_value,
   alsatimer_user_instance_get_info, alsatimer_user_instance_set_params,
   alsatimer_user_instance_get_status, alsatimer_get_device_info,
   alsatimer_get_device_status, alsatimer_set_device_params,
   alsarawmidi_stream_pair_get_substream_info,
   alsarawmidi_stream_pair_set_substream_params,
   alsarawmidi_stream_pair_get_substream_status,
   alsarawmidi_get_substream_info, alsahwdep_get_device_info}
  \cup {fill_data_with_result(reads) : reads \in BOOLEAN}
  \cup {alsactl_card_get_elem_info(c) : c \in ElemInfoClasses}
  \cup {Received(c) : c \in EventClasses}

CallsWith == [c \in DOMAIN Class |-> {k \in KernelCalls : k.class = c}]

-----------------------------------------------------------------------------
(* The structure of an object. *)

OwnId == 1             \* the identifier a call writes into the structure

\* Fields a call writes although no property reads them.
Hidden ==
  [c \in DOMAIN Class |-> UNION {DOMAIN k.forces : k \in CallsWith[c]} \ DOMAIN Class[c].spec]

Fields(c) ==
  LET o == Class[c]
  IN  {o.get[p].field : p \in DOMAIN o.get} \cup {o.set[p].field : p \in DOMAIN o.set} \cup Hidden[c]

Cells(c) == IF c = "CtlElemValue" THEN ValueCells ELSE 4

ZeroField(c, f) ==
  LET get == Class[c].get
      e == get[CHOOSE p \in DOMAIN get : get[p].field = f]
  IN  CASE f \in Hidden[c] -> 0
        [] e.way \in {"bit", "mask", "bitmap"} -> {}
        [] e.way = "negated" -> FALSE
        [] e.type = "cells" -> Zeros(Cells(c))
        [] OTHER -> ZeroOf(e.type)

\* GObject hands out zeroed memory; one class writes more into it.
Zero ==
  [c \in DOMAIN Class |->
    (IF c = "CtlElemInfoIec60958" THEN elem_info_iec60958_init ELSE Nothing)
    @@ [f \in Fields(c) |-> ZeroField(c, f)]]

\* The properties whose accessors are not refused.
Accessible(c, o) ==
  CASE c = "SeqRemoveFilter" -> DOMAIN Class[c].spec \ ({"tick-time", "real-time"} \ remove_filter_times(o))
    [] c = "SeqEvent" -> DOMAIN Class[c].spec \ ({"tick-time", "real-time"} \ validate_event_tstamp_mode(o))
    [] OTHER -> DOMAIN Class[c].spec

\* g_object_set() or a setter.
Put(c, o, p, v) ==
  LET e == Class[c].set[p]
  IN  [o EXCEPT ![e.field] = Stored(@, e, Converted(Class[c].spec[p].type, e.type, v))]

\* g_object_get() or a getter; a refused one leaves its output alone.
Get(c, o, p) ==
  LET e == Class[c].get[p]
      type == Class[c].spec[p].type
  IN  CASE p \in Hidden[c] -> o[p]
        [] p \notin Accessible(c, o) -> <<>>
        [] OTHER -> IF e.type = type THEN Fetched(o[e.field], e) ELSE ZeroOf(type)

-----------------------------------------------------------------------------
(* What the properties promise. *)

\* Properties that do not answer what they are given: see the README.
Broken(c) ==
  CASE c = "SeqClientInfo"    -> {"filter-attributes"}
    [] c = "SeqQueueTempo"    -> {"tempo"}
    [] c = "SeqQueueStatus"   -> {"queue-id"}
    [] c = "SeqEventDataNote" -> {"duration"}
    [] OTHER -> {}

Names(c) == (DOMAIN Class[c].spec \cup Hidden[c]) \ Broken(c)

Reading(c, o) == [p \in Names(c) |-> Get(c, o, p)]

\* The properties that are views of one union.
Views(c) == {p \in DOMAIN Class[c].spec : Class[c].spec[p].type = "cells"}

\* The property that says which view is valid.
Mode(c) == CASE c = "SeqRemoveFilter" -> "flags" [] c = "SeqEvent" -> "tstamp-mode" [] OTHER -> ""

Disturbed(c, given) == IF given \cap (Views(c) \cup {Mode(c)}) # {} THEN Views(c) ELSE {}

\* Text is cut, arrays are cut or filled up with zero, unknown types are dropped.
Promised(c, p, v) ==
  LET e == Class[c].get[p]
  IN  CASE e.type = "string" -> Min({v, NameMax})
        [] e.type = "cells" -> [k \in 1..e.arg.count |->
                                 IF k <= Len(v) THEN v[k]
                                 ELSE IF e.way = "bools" THEN FALSE
                                 ELSE Zeros(IF e.way = "ints" THEN 2 ELSE e.arg.width)]
        [] e.type = "events" -> v \cap 0..(TypeBits * TypeBytes - 1)
        [] OTHER -> v

Given(sends, args, disturbs) == [sends |-> sends, args |-> args, disturbs |-> disturbs]

-----------------------------------------------------------------------------
(* Values: small, at the limit, beyond it. *)

FlagBits(c, p) == IF c = "SeqRemoveFilter" THEN {"INPUT", "TIME_TICK"}
                  ELSE IF Class[c].get[p].way = "copy" THEN {"A", "B"}
                  ELSE IF p \in DOMAIN Class[c].set THEN Class[c].set[p].arg
                  ELSE Class[c].get[p].arg

SmallNumber(way, width) ==
  CASE way = "bools" -> TRUE
    [] way = "ints" -> <<1, 0>>
    [] OTHER -> [i \in 1..width |-> IF i = 1 THEN 1 ELSE 0]

MinusOne(way, width) ==
  CASE way = "bools" -> FALSE
    [] way = "ints" -> <<Ones, Ones>>
    [] OTHER -> [i \in 1..width |-> Ones]

\* Scalars and pairs have a fixed length, the arrays of an element value do not.
Arrays(c, e) ==
  LET Fill(n, x) == [k \in 1..n |-> x]
      a == e.arg
  IN  {Fill(a.count, MinusOne(e.way, a.width)), Fill(a.count, SmallNumber(e.way, a.width))}
      \cup (IF c = "CtlElemValue"
            THEN {<<>>, <<SmallNumber(e.way, a.width)>>,
                  Fill(a.count + 1, SmallNumber(e.way, a.width))}
            ELSE {})

Values(c, p) ==
  LET type == Class[c].spec[p].type
  IN  CASE type = "uchar" -> {0, 255}
        [] type = "string" -> 0..(NameMax + 1)
        [] type = "boolean" -> BOOLEAN
        [] type = "flags" -> SUBSET FlagBits(c, p)
        [] type = "events" -> {{}, {0}, {7, 8}, {18}, {9, 300}}
        [] type = "cells" -> Arrays(c, Class[c].get[p])
        [] OTHER -> {0, 1}

\* What the kernel answers for a property when it is not zero.
Answer(c, p) ==
  LET type == Class[c].spec[p].type
      e == Class[c].get[p]
  IN  CASE type = "uchar" -> 255
        [] type = "string" -> NameMax
        [] type = "boolean" -> e.way # "negated"
        [] type = "flags" -> FlagBits(c, p)
        [] type = "events" -> {7, 8}
        [] type = "cells" -> [k \in 1..e.arg.count |-> MinusOne(e.way, e.arg.width)]
        [] OTHER -> 1

\* Nothing, one property, or all of them with one view.
Answers ==
  [c \in DOMAIN Class |->
    LET names == DOMAIN Class[c].spec
    IN  {{}} \cup {{p} : p \in names}
        \cup {names \ (Views(c) \ {v}) : v \in names}]

-----------------------------------------------------------------------------
(* Behaviours. *)

Comparable == {"SeqAddr", "CtlElemId", "CtlElemValue"}

\* An element of the kernel has a number and a name of its own.
KernelElem(n) ==
  [p \in DOMAIN elem_id_access |-> IF p \in {"numid", "index"} THEN n ELSE 1]

\* The arguments a constructor may be given.
Constructions(c) ==
  LET CO == {p \in DOMAIN Class[c].spec : Class[c].spec[p].access = "CO"}
  IN  CASE c \in {"SeqAddr", "TimerDeviceId"} -> [CO -> {0, 1}]
        [] c = "CtlElemId" ->
             {"numid" :> n : n \in 0..2}
             \cup [DOMAIN elem_id_new_by_name -> {1, NameMax + 1}]
             \cup {KernelElem(n) : n \in 1..2}
        [] OTHER -> {Nothing} \cup UNION {{p :> v : v \in Values(c, p)} : p \in CO}

\* A constructor: <class>_new(), g_object_new() with its properties.
Construct(c, args) == FoldSet(LAMBDA p, o : Put(c, o, p, args[p]), Zero[c], DOMAIN args)

ObjectInit ==
  \E c \in DOMAIN Class : \E a, b \in Constructions(c) :
    /\ c \notin Comparable => a = b
    /\ cls = c
    /\ obj = IF c \in Comparable THEN <<Construct(c, a), Construct(c, b)>> ELSE <<Construct(c, a)>>
    /\ sent = <<>>
    /\ refs = [own |-> 1, made |-> 0, given |-> 0]
    /\ op = Given(FALSE, [p \in DOMAIN a |-> Promised(c, p, a[p])] @@ Reading(c, Zero[c]), {})
    /\ calls = 0

Step == calls < MaxCalls /\ calls' = calls + 1 /\ refs.own > 0 /\ UNCHANGED cls

\* What a call says of itself concerns the object, not its companion.
Says(i, given) == op' = IF i = 1 THEN given ELSE op

\* A writable property is set.  Without a case for it nothing happens.
SetProperty(i, p, v) ==
  /\ Step
  /\ Class[cls].spec[p].access = "RW" /\ p \in Accessible(cls, obj[i])
  /\ p \in DOMAIN Class[cls].set
  /\ obj' = [obj EXCEPT ![i] = Put(cls, @, p, v)]
  /\ Says(i, Given(FALSE, [q \in {p} \ Broken(cls) |-> Promised(cls, q, v)],
                   Disturbed(cls, {p})))
  /\ UNCHANGED <<sent, refs>>

\* alsatimer_instance_params_set_event_filter(): a refused list clears the filter.
SetEventFilter(types) ==
  /\ Step /\ cls = "TimerInstanceParams"
  /\ obj' = [obj EXCEPT ![1]["filter"] = instance_params_set_event_filter(types)]
  /\ op' = (IF \A t \in types : valid_event(t)
             THEN Given(FALSE, "event-filter" :> types, {})
             ELSE Given(FALSE, Nothing, {"event-filter"}))
  /\ UNCHANGED <<sent, refs>>

\* The identifiers the call writes, whatever the caller's structure had.
Forced(k, o) == [f \in DOMAIN o |-> IF \E p \in DOMAIN k.forces : k.forces[p] = f THEN OwnId ELSE o[f]]

ForcedArgs(k) == [p \in DOMAIN k.forces \ Broken(cls) |-> OwnId]

\* The structure goes to ioctl(), which may succeed or fail.
Send(k) ==
  /\ Step /\ k.does = "send"
  /\ obj' = [obj EXCEPT ![1] = Forced(k, @)]
  /\ sent' = <<Forced(k, obj[1])>>
  /\ op' = Given(TRUE, ForcedArgs(k), {})
  /\ UNCHANGED refs

\* The kernel's answer: zero but for the identifiers and some properties.
Answered(k, s) ==
  LET At(p) == (Class[cls].set @@ Class[cls].get)[p]
      Fill(p, o) == [o EXCEPT ![At(p).field] = Stored(@, At(p), Answer(cls, p))]
  IN  FoldSet(Fill, Forced(k, Zero[cls]), s \ DOMAIN k.forces)

Fetch(k, s) ==
  /\ Step /\ k.does = "fetch"
  /\ obj' = [obj EXCEPT ![1] = Answered(k, s)]
  /\ LET seen == Accessible(cls, obj'[1]) \cap s
         plain == Names(cls) \ (s \cup Views(cls))
     IN  op' = Given(FALSE,
                     ForcedArgs(k) @@ [p \in seen \ Broken(cls) |-> Answer(cls, p)]
                     @@ [p \in plain |-> Get(cls, Zero[cls], p)],
                     Views(cls))
  /\ refs' = IF k.makes THEN [refs EXCEPT !.made = @ + 1, !.given = @ + 1] ELSE refs
  /\ UNCHANGED sent

\* A made object is unreferenced; the caller's keeps the identifiers.
FetchFails(k) ==
  /\ Step /\ k.does = "fetch"
  /\ obj' = [obj EXCEPT ![1] = IF k.makes THEN @ ELSE Forced(k, @)]
  /\ op' = Given(FALSE, IF k.makes THEN Nothing ELSE ForcedArgs(k), {})
  /\ refs' = CASE k.makes /\ ~k.unrefs -> [refs EXCEPT !.made = @ + 1]
              [] ~k.makes /\ k.unrefs -> [refs EXCEPT !.own = @ - 1]
              [] OTHER -> refs
  /\ UNCHANGED sent

ObjectNext ==
  \/ \E i \in DOMAIN obj : \E p \in DOMAIN Class[cls].spec : \E v \in Values(cls, p) :
       SetProperty(i, p, v)
  \/ \E types \in {{}, {0, 18}, {1}, {1, 9}} : SetEventFilter(types)
  \/ \E k \in CallsWith[cls] : Send(k)
  \/ \E k \in CallsWith[cls] : \E s \in Answers[cls] : Fetch(k, s)
  \/ \E k \in CallsWith[cls] : FetchFails(k)

Behaviour == ObjectInit /\ [][ObjectNext]_objectVars

-----------------------------------------------------------------------------
(* Properties. *)

\* The object implements the store of independent values that its
\* documentation describes: a property answers what it was last given by
\* its setter, the constructor or the kernel, no setter, getter or call
\* disturbs another one, and the kernel is handed what the properties say,
\* with the identifiers of the call.
Store == INSTANCE PropertyStore WITH
  store <- Reading(cls, obj[1]),
  sent <- [i \in DOMAIN sent |-> Reading(cls, sent[i])],
  op <- op

IsStore == Store!Spec

\* Whether two identifiers are of one element, by number or by name.
SameElement(l, r) ==
  \/ l["numid"] # 0 /\ l["numid"] = r["numid"]
  \/ l["name"] # 0 /\ \A f \in DOMAIN l \ {"numid"} : l[f] = r[f]

\* addr_equal and elem_value_equal hold exactly of objects whose properties
\* all answer the same, elem_id_equal of identifiers of the same element,
\* except when neither has a number or neither has a name: those it takes
\* for equal.
EqualMeansSame ==
  LET l == obj[1]
      r == obj[2]
      same == Reading(cls, l) = Reading(cls, r)
  IN  /\ cls = "SeqAddr" => (addr_equal(l, r) <=> same)
      /\ cls = "CtlElemValue" => (elem_value_equal(l, r) <=> same)
      /\ (/\ cls = "CtlElemId"
          /\ \E i \in 1..2 : obj[i]["numid"] # 0
          /\ \E i \in 1..2 : obj[i]["name"] # 0) => (elem_id_equal(l, r) <=> SameElement(l, r))

\* Every object that a call made is in the caller's hands or gone, and no
\* call takes the caller's own reference, but a failing
\* alsatimer_get_device_status.
RefsBalanced ==
  /\ refs.made = refs.given
  /\ cls # "TimerDeviceStatus" => refs.own = 1
====
