---- MODULE SeqObjects ----
(***************************************************************************)
(* The data objects of ALSASeq as tables: what class_init() declares, what *)
(* set_property() and get_property() (or the accessors of a boxed type) do *)
(* with the wrapped structure, and the calls of ALSASeqUserClient that     *)
(* hand the structure of an object to the kernel.                          *)
(***************************************************************************)
EXTENDS StructAccess

-----------------------------------------------------------------------------
(* ALSASeqClientInfo *)

client_info_class_init ==
  ParamSpec("uchar", "RW", {"client-id"}) @@ ParamSpec("enum", "RW", {"type"})
  @@ ParamSpec("string", "RW", {"name"}) @@ ParamSpec("flags", "RW", {"filter-attributes"})
  @@ ParamSpec("boolean", "RW", {"use-filter"}) @@ ParamSpec("int", "R", {"port-count", "lost-count"})
  @@ ParamSpec("int", "RW", {"card-id"}) @@ ParamSpec("int64", "R", {"process-id"})
  @@ ParamSpec("events", "RW", {"event-filter"})

\* There is no case for card-id; filter-attributes keeps only USE_EVENT.
client_info_set_property ==
  Copy("uchar", "client-id" :> "client") @@ Copy("enum", "type" :> "type")
  @@ Via("string", "name", "name" :> "name")
  @@ Bits("flags", "mask", "filter", "filter-attributes" :> {"BROADCAST", "MULTICAST", "BOUNCE"})
  @@ Bits("boolean", "bit", "filter", "use-filter" :> {"USE_EVENT"})
  @@ Copy("int", "lost-count" :> "event_lost")

\* filter-attributes answers the bit that is not an attribute.
client_info_get_property ==
  Copy("uchar", "client-id" :> "client") @@ Copy("enum", "type" :> "type")
  @@ Copy("string", "name" :> "name")
  @@ Bits("flags", "mask", "filter", "filter-attributes" :> {"USE_EVENT"})
  @@ Bits("boolean", "bit", "filter", "use-filter" :> {"USE_EVENT"})
  @@ Copy("int", "port-count" :> "num_ports" @@ "lost-count" :> "event_lost"
                 @@ "card-id" :> "card")
  @@ Copy("int64", "process-id" :> "pid")

client_info_set_event_filter == Via("events", "bitmap", "event-filter" :> "event_filter")

client_info_get_event_filter == Via("events", "bitmap", "event-filter" :> "event_filter")

(* ALSASeqPortInfo *)

port_info_class_init ==
  ParamSpec("boxed", "CO", {"addr"}) @@ ParamSpec("string", "RW", {"name"})
  @@ ParamSpec("flags", "RW", {"caps", "attrs"})
  @@ ParamSpec("int", "RW", {"midi-channels", "midi-voices", "synth-voices"})
  @@ ParamSpec("int", "R", {"read-users", "write-users"})
  @@ ParamSpec("boolean", "RW", {"tstamp-overwrite"}) @@ ParamSpec("enum", "RW", {"tstamp-mode"})
  @@ ParamSpec("uchar", "RW", {"queue-id"})

port_info_set_property ==
  Copy("boxed", "addr" :> "addr") @@ Via("string", "name", "name" :> "name")
  @@ Copy("flags", "caps" :> "capability" @@ "attrs" :> "type")
  @@ Copy("int", "midi-channels" :> "midi_channels" @@ "midi-voices" :> "midi_voices"
                 @@ "synth-voices" :> "synth_voices" @@ "read-users" :> "read_use"
                 @@ "write-users" :> "write_use")
  @@ Bits("boolean", "bit", "flags", "tstamp-overwrite" :> {"TIMESTAMP"})
  @@ Bits("enum", "bit", "flags", "tstamp-mode" :> {"TIME_REAL"})
  @@ Copy("uchar", "queue-id" :> "time_queue")

port_info_get_property ==
  Copy("boxed", "addr" :> "addr") @@ Copy("string", "name" :> "name")
  @@ Copy("flags", "caps" :> "capability" @@ "attrs" :> "type")
  @@ Copy("int", "midi-channels" :> "midi_channels" @@ "midi-voices" :> "midi_voices"
                 @@ "synth-voices" :> "synth_voices" @@ "read-users" :> "read_use"
                 @@ "write-users" :> "write_use")
  @@ Bits("boolean", "bit", "flags", "tstamp-overwrite" :> {"TIMESTAMP"})
  @@ Bits("enum", "bit", "flags", "tstamp-mode" :> {"TIME_REAL"})
  @@ Copy("uchar", "queue-id" :> "time_queue")

(* ALSASeqSubscribeData *)

subscribe_data_class_init ==
  ParamSpec("boxed", "RW", {"sender", "dest"}) @@ ParamSpec("enum", "RW", {"tstamp-mode"})
  @@ ParamSpec("boolean", "RW", {"is-exclusive", "has-tstamp"}) @@ ParamSpec("uchar", "RW", {"queue-id"})

\* Mutant of subscribe_data_set_property: the bit of another property.
subscribe_data_set_property_wrong_bit ==
  Copy("boxed", Same({"sender", "dest"}))
  @@ Bits("boolean", "bit", "flags",
          "is-exclusive" :> {"EXCLUSIVE"} @@ "has-tstamp" :> {"TIME_REAL"})
  @@ Bits("enum", "bit", "flags", "tstamp-mode" :> {"TIME_REAL"})
  @@ Copy("uchar", "queue-id" :> "queue")

subscribe_data_set_property ==
  Copy("boxed", Same({"sender", "dest"}))
  @@ Bits("boolean", "bit", "flags",
          "is-exclusive" :> {"EXCLUSIVE"} @@ "has-tstamp" :> {"TIMESTAMP"})
  @@ Bits("enum", "bit", "flags", "tstamp-mode" :> {"TIME_REAL"})
  @@ Copy("uchar", "queue-id" :> "queue")

subscribe_data_get_property ==
  Copy("boxed", Same({"sender", "dest"}))
  @@ Bits("boolean", "bit", "flags",
          "is-exclusive" :> {"EXCLUSIVE"} @@ "has-tstamp" :> {"TIMESTAMP"})
  @@ Bits("enum", "bit", "flags", "tstamp-mode" :> {"TIME_REAL"})
  @@ Copy("uchar", "queue-id" :> "queue")

(* ALSASeqRemoveFilter: the time is a union, its accessors ask the flags. *)

remove_filter_class_init ==
  ParamSpec("flags", "RW", {"flags"}) @@ ParamSpec("uchar", "RW", {"queue-id", "channel"})
  @@ ParamSpec("boxed", "RW", {"destination"}) @@ ParamSpec("enum", "RW", {"event-type"})
  @@ ParamSpec("char", "RW", {"tag"}) @@ ParamSpec("cells", "RW", {"tick-time", "real-time"})

remove_filter_set_property ==
  Copy("flags", "flags" :> "remove_mode") @@ Copy("boxed", "destination" :> "dest")
  @@ Copy("uchar", "queue-id" :> "queue" @@ "channel" :> "channel")
  @@ Copy("enum", "event-type" :> "type") @@ Copy("char", "tag" :> "tag")

remove_filter_get_property ==
  Copy("flags", "flags" :> "remove_mode") @@ Copy("boxed", "destination" :> "dest")
  @@ Copy("uchar", "queue-id" :> "queue" @@ "channel" :> "channel")
  @@ Copy("enum", "event-type" :> "type") @@ Copy("char", "tag" :> "tag")

remove_filter_tick_time == "tick-time" :> Member("raw", 0, 1, 2)

remove_filter_real_time == "real-time" :> Member("raw", 0, 2, 2)

\* The time a filter lets its accessors at.
remove_filter_times(o) ==
  IF "TIME_TICK" \in o["remove_mode"] THEN {"tick-time"} ELSE {"real-time"}

(* ALSASeqClientPool *)

pool_sizes ==
  "output-pool" :> "output_pool" @@ "input-pool" :> "input_pool"
  @@ "output-room" :> "output_room" @@ "output-free" :> "output_free"
  @@ "input-free" :> "input_free"

client_pool_class_init == ParamSpec("uchar", "R", {"client-id"}) @@ ParamSpec("uint", "RW", DOMAIN pool_sizes)

client_pool_set_property == Copy("uint", pool_sizes)

client_pool_get_property == Copy("uchar", "client-id" :> "client") @@ Copy("uint", pool_sizes)

(* ALSASeqQueueInfo *)

queue_info_class_init ==
  ParamSpec("uchar", "RW", {"queue-id", "client-id"}) @@ ParamSpec("boolean", "RW", {"locked"})
  @@ ParamSpec("string", "RW", {"name"})

queue_info_set_property ==
  Copy("uchar", "queue-id" :> "queue" @@ "client-id" :> "owner")
  @@ Copy("boolean", "locked" :> "locked") @@ Via("string", "name", "name" :> "name")

queue_info_get_property ==
  Copy("uchar", "queue-id" :> "queue" @@ "client-id" :> "owner")
  @@ Copy("boolean", "locked" :> "locked") @@ Copy("string", "name" :> "name")

(* ALSASeqQueueTempo: the tempo is declared as guint and set as gint. *)

queue_tempo_class_init ==
  ParamSpec("uchar", "RW", {"queue-id"}) @@ ParamSpec("uint", "RW", {"tempo"})
  @@ ParamSpec("int", "RW", {"resolution"}) @@ ParamSpec("cells", "RW", {"skew"})

queue_tempo_set_property ==
  Copy("uchar", "queue-id" :> "queue") @@ Copy("int", "tempo" :> "tempo" @@ "resolution" :> "ppq")

queue_tempo_get_property ==
  Copy("uchar", "queue-id" :> "queue") @@ Copy("uint", "tempo" :> "tempo")
  @@ Copy("int", "resolution" :> "ppq")

queue_tempo_skew == "skew" :> Member("raw", 0, 2, 2)

(* ALSASeqQueueStatus: the queue is declared as guchar and answered as gint. *)

queue_status_class_init ==
  ParamSpec("uchar", "R", {"queue-id"}) @@ ParamSpec("int", "R", {"event-count"})
  @@ ParamSpec("boolean", "R", {"running"}) @@ ParamSpec("uint", "R", {"tick-time", "real-time"})

queue_status_get_property ==
  Copy("int", "queue-id" :> "queue" @@ "event-count" :> "events")
  @@ Copy("boolean", "running" :> "running")

queue_status_times == Copy("uint", "tick-time" :> "tick" @@ "real-time" :> "time")

(* ALSASeqQueueTimerAlsa and its interface ALSASeqQueueTimerCommon *)

queue_timer_common_default_init == ParamSpec("uchar", "R", {"queue-id"}) @@ ParamSpec("enum", "R", {"timer-type"})

queue_timer_common_set_property ==
  Copy("uchar", "queue-id" :> "queue") @@ Copy("enum", "timer-type" :> "type")

queue_timer_common_get_property ==
  Copy("uchar", "queue-id" :> "queue") @@ Copy("enum", "timer-type" :> "type")

queue_timer_alsa_class_init ==
  ParamSpec("boxed", "RW", {"device-id"}) @@ ParamSpec("uint", "RW", {"resolution-ticks"})

queue_timer_alsa_set_property ==
  Copy("boxed", "device-id" :> "id") @@ Copy("uint", "resolution-ticks" :> "resolution")
  @@ queue_timer_common_set_property

queue_timer_alsa_get_property ==
  Copy("boxed", "device-id" :> "id") @@ Copy("uint", "resolution-ticks" :> "resolution")
  @@ queue_timer_common_get_property

(* ALSASeqSystemInfo *)

system_counts ==
  "maximum-queue-count" :> "queues" @@ "maximum-client-count" :> "clients"
  @@ "maximum-port-count" :> "ports" @@ "maximum-channel-count" :> "channels"
  @@ "current-client-count" :> "cur_clients" @@ "current-queue-count" :> "cur_queues"

system_info_class_init == ParamSpec("int", "R", DOMAIN system_counts)

system_info_get_property == Copy("int", system_counts)

-----------------------------------------------------------------------------
(* Boxed types: a pair of functions for each field. *)

\* A received note may be longer than its getter's guint8.
event_data_note_set ==
  Copy("uchar", Same({"channel", "note", "velocity", "off_velocity", "duration"}))

event_data_note_get ==
  Copy("uchar", Same({"channel", "note", "velocity", "off_velocity"}))
  @@ Via("uchar", "narrow", Same({"duration"}))

event_data_ctl_access ==
  Copy("uchar", Same({"channel"})) @@ Copy("uint", Same({"param"})) @@ Copy("int", Same({"value"}))

event_data_result_access == Copy("enum", Same({"event"})) @@ Copy("int", Same({"result"}))

event_data_connect_access == Copy("boxed", "src" :> "sender" @@ "dst" :> "dest")

\* One union holds the parameter in all its forms.
event_data_queue_access ==
  Copy("uchar", "queue-id" :> "queue")
  @@ "value" :> Member("raw", 0, 1, 2) @@ "tick-time" :> Member("raw", 0, 1, 2)
  @@ "real-time" :> Member("raw", 0, 2, 2) @@ "position" :> Member("raw", 0, 1, 2)
  @@ "skew" :> Member("raw", 0, 2, 2) @@ "quadlet" :> Member("raw", 0, 2, 2)
  @@ "byte" :> Member("raw", 0, 4, 1)

\* alsaseq_addr_new() and the getters.
addr_access == Copy("uchar", "client-id" :> "client" @@ "port-id" :> "port")

addr_equal(l, r) == l["client"] = r["client"] /\ l["port"] = r["port"]

(* The header of ALSASeqEvent; flags has four modes, one of which says     *)
(* which member of the time union is valid.                                *)

event_set_header ==
  Bits("flags", "mask", "flags", "time-mode" :> {"REL"} @@ "priority-mode" :> {"HIGH"})
  @@ Copy("char", "tag" :> "tag") @@ Copy("uchar", "queue-id" :> "queue")
  @@ Copy("boxed", "source" :> "source" @@ "destination" :> "dest")

event_get_header ==
  Copy("enum", "event-type" :> "type")
  @@ Bits("flags", "mask", "flags",
          "length-mode" :> {"VARIABLE", "VARUSR"} @@ "tstamp-mode" :> {"REAL"}
          @@ "time-mode" :> {"REL"} @@ "priority-mode" :> {"HIGH"})
  @@ Copy("char", "tag" :> "tag") @@ Copy("uchar", "queue-id" :> "queue")
  @@ Copy("boxed", "source" :> "source" @@ "destination" :> "dest")

event_tick_time == "tick-time" :> Member("raw", 0, 1, 2)

event_real_time == "real-time" :> Member("raw", 0, 2, 2)

\* validate_event_tstamp_mode()
validate_event_tstamp_mode(o) ==
  IF "REAL" \in o["flags"] THEN {"real-time"} ELSE {"tick-time"}

-----------------------------------------------------------------------------
(* The calls of ALSASeqUserClient with an object of data. *)

alsaseq_user_client_set_info ==
  Sends("SeqClientInfo", "client-id" :> "client" @@ "type" :> "type")

alsaseq_user_client_get_info == Fetches("SeqClientInfo", "client-id" :> "client")

alsaseq_user_client_update_port == Sends("SeqPortInfo", "addr" :> "addr")

alsaseq_user_client_set_pool == Sends("SeqClientPool", "client-id" :> "client")

alsaseq_user_client_get_pool == Fetches("SeqClientPool", "client-id" :> "client")

alsaseq_user_client_update_queue == Sends("SeqQueueInfo", Nothing)

alsaseq_user_client_set_queue_tempo == Sends("SeqQueueTempo", "queue-id" :> "queue")

\* Mutant of alsaseq_user_client_get_queue_tempo: keeps the object of a failed call.
alsaseq_user_client_get_queue_tempo_leak ==
  Call("fetch", "SeqQueueTempo", "queue-id" :> "queue", TRUE, FALSE)

alsaseq_user_client_get_queue_tempo == Creates("SeqQueueTempo", "queue-id" :> "queue")

\* The only class of queue timers is the one whose type the call lets through.
alsaseq_user_client_set_queue_timer == Sends("SeqQueueTimerAlsa", "queue-id" :> "queue")

\* The object is made after the kernel's answer, so a failed call makes none.
alsaseq_user_client_get_queue_timer == Creates("SeqQueueTimerAlsa", "queue-id" :> "queue")

alsaseq_user_client_remove_events == Sends("SeqRemoveFilter", Nothing)

alsaseq_user_client_operate_subscription == Sends("SeqSubscribeData", Nothing)

(* The queries that make an object, or fill the caller's. *)

alsaseq_get_system_info == Creates("SeqSystemInfo", Nothing)

alsaseq_get_client_info == Creates("SeqClientInfo", "client-id" :> "client")

alsaseq_get_port_info == Creates("SeqPortInfo", "addr" :> "addr")

alsaseq_get_client_pool == Creates("SeqClientPool", "client-id" :> "client")

alsaseq_get_queue_info_by_id == Creates("SeqQueueInfo", "queue-id" :> "queue")

alsaseq_get_queue_info_by_name == Creates("SeqQueueInfo", "name" :> "name")

alsaseq_get_queue_status == Fetches("SeqQueueStatus", "queue-id" :> "queue")

\* The address asked about is the sender of what it is read by, else the destination.
fill_data_with_result(reads) ==
  Creates("SeqSubscribeData", IF reads THEN "sender" :> "sender" ELSE "dest" :> "dest")
====
