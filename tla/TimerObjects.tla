---- MODULE TimerObjects ----
(***************************************************************************)
(* The data objects of ALSATimer as tables (see StructAccess).             *)
(***************************************************************************)
EXTENDS StructAccess

(* ALSATimerInstanceParams with its filter of real time events *)

instance_params_class_init ==
  ParamSpec("flags", "RW", {"flags"}) @@ ParamSpec("uint", "RW", {"interval", "queue-size"})
  @@ ParamSpec("events", "RW", {"event-filter"})

instance_params_set_property ==
  Copy("flags", "flags" :> "flags")
  @@ Copy("uint", "interval" :> "ticks" @@ "queue-size" :> "queue_size")

instance_params_get_property ==
  Copy("flags", "flags" :> "flags")
  @@ Copy("uint", "interval" :> "ticks" @@ "queue-size" :> "queue_size")

\* Events from RESOLUTION to RESUME and from MSTART to MRESUME have a bit.
valid_event(t) == t \in 0..8 \cup 12..18

\* The filter is cleared before the entries are looked at.
instance_params_set_event_filter(types) ==
  IF \A t \in types : valid_event(t) THEN types ELSE {}

instance_params_get_event_filter == Copy("events", "event-filter" :> "filter")

(* ALSATimerInstanceInfo, -InstanceStatus *)

instance_info_class_init ==
  ParamSpec("flags", "R", {"flags"}) @@ ParamSpec("int", "R", {"card-id"})
  @@ ParamSpec("string", "R", {"id", "name"}) @@ ParamSpec("uint64", "R", {"resolution"})

instance_info_get_property ==
  Copy("flags", Same({"flags"})) @@ Copy("int", "card-id" :> "card")
  @@ Copy("string", Same({"id", "name"})) @@ Copy("uint64", Same({"resolution"}))

instance_status_class_init ==
  ParamSpec("uint", "R", {"interval", "lost", "overrun", "queue-size"}) @@ ParamSpec("int64", "R", {"time"})

instance_status_get_property ==
  Copy("uint", "interval" :> "resolution" @@ "lost" :> "lost" @@ "overrun" :> "overrun"
               @@ "queue-size" :> "queue")

instance_status_get_time == Copy("int64", "time" :> "tstamp")

(* ALSATimerDeviceInfo, -DeviceParams, -DeviceStatus *)

device_resolutions ==
  "resolution" :> "resolution" @@ "resolution-min" :> "resolution_min"
  @@ "resolution-max" :> "resolution_max"

timer_device_info_class_init ==
  ParamSpec("flags", "R", {"flags"}) @@ ParamSpec("int", "R", {"card-id"})
  @@ ParamSpec("string", "R", {"id", "name"}) @@ ParamSpec("uint64", "R", DOMAIN device_resolutions)
  @@ ParamSpec("uint", "R", {"instance-count"})

timer_device_info_get_property ==
  Copy("flags", Same({"flags"})) @@ Copy("int", "card-id" :> "card")
  @@ Copy("string", Same({"id", "name"})) @@ Copy("uint64", device_resolutions)
  @@ Copy("uint", "instance-count" :> "clients")

period == "period-numerator" :> "period_num" @@ "period-denominator" :> "period_den"

device_params_class_init == ParamSpec("uint64", "RW", DOMAIN period)

device_params_set_property == Copy("uint64", period)

device_params_get_property == Copy("uint64", period)

status_resolutions ==
  "resolution" :> "resolution" @@ "resolution-numerator" :> "resolution_num"
  @@ "resolution-denominator" :> "resolution_den"

device_status_class_init == ParamSpec("uint64", "R", DOMAIN status_resolutions)

device_status_get_property == Copy("uint64", status_resolutions)

-----------------------------------------------------------------------------
(* Boxed types *)

device_id_access ==
  Copy("enum", "class" :> "dev_class")
  @@ Copy("int", "card-id" :> "card" @@ "device-id" :> "device" @@ "subdevice-id" :> "subdevice")

real_time_event_access ==
  Copy("enum", Same({"event"})) @@ Copy("int64", "time" :> "tstamp") @@ Copy("uint", Same({"val"}))

tick_time_event_access == Copy("uint", "resolution" :> "resolution" @@ "count" :> "ticks")

-----------------------------------------------------------------------------
(* The calls of ALSATimerUserInstance and the queries with an object. *)

alsatimer_user_instance_get_info == Creates("TimerInstanceInfo", Nothing)

alsatimer_user_instance_set_params == Sends("TimerInstanceParams", Nothing)

alsatimer_user_instance_get_status == Fetches("TimerInstanceStatus", Nothing)

alsatimer_get_device_info == Creates("TimerDeviceInfo", "tid" :> "tid")

\* A failed call drops the reference of the caller's object.
alsatimer_get_device_status == Call("fetch", "TimerDeviceStatus", "tid" :> "tid", FALSE, TRUE)

alsatimer_set_device_params == Sends("TimerDeviceParams", "tid" :> "tid")
====
