---- MODULE MidiObjects ----
(***************************************************************************)
(* The data objects of ALSARawmidi and ALSAHwdep as tables (see            *)
(* StructAccess).                                                          *)
(***************************************************************************)
EXTENDS StructAccess

(* ALSARawmidiSubstreamInfo *)

substream_info_class_init ==
  ParamSpec("uint", "R", {"device-id", "subdevice-id", "subdevices-count", "subdevices-avail"})
  @@ ParamSpec("enum", "R", {"direction"}) @@ ParamSpec("int", "R", {"card-id"})
  @@ ParamSpec("flags", "R", {"flags"}) @@ ParamSpec("string", "R", {"id", "name", "subdevice-name"})

substream_info_get_property ==
  Copy("uint", "device-id" :> "device" @@ "subdevice-id" :> "subdevice"
               @@ "subdevices-count" :> "subdevices_count"
               @@ "subdevices-avail" :> "subdevices_avail")
  @@ Copy("enum", "direction" :> "stream") @@ Copy("int", "card-id" :> "card")
  @@ Copy("flags", "flags" :> "flags")
  @@ Copy("string", "id" :> "id" @@ "name" :> "name" @@ "subdevice-name" :> "subname")

(* ALSARawmidiSubstreamParams: active sensing is kept as its absence. *)

substream_params_class_init ==
  ParamSpec("uint", "RW", {"buffer-size", "avail-min"}) @@ ParamSpec("boolean", "RW", {"active-sensing"})

substream_params_set_property ==
  Copy("uint", "buffer-size" :> "buffer_size" @@ "avail-min" :> "avail_min")
  @@ Via("boolean", "negated", "active-sensing" :> "no_active_sensing")

substream_params_get_property ==
  Copy("uint", "buffer-size" :> "buffer_size" @@ "avail-min" :> "avail_min")
  @@ Via("boolean", "negated", "active-sensing" :> "no_active_sensing")

(* ALSARawmidiSubstreamStatus *)

substream_status_class_init == ParamSpec("uint64", "R", {"avail", "xruns"})

substream_status_get_property == Copy("uint64", Same({"avail", "xruns"}))

(* ALSAHwdepDeviceInfo: every property is set while constructing. *)

hwdep_device_info_class_init ==
  ParamSpec("uint", "CO", {"device-id"}) @@ ParamSpec("int", "CO", {"card-id"})
  @@ ParamSpec("string", "CO", {"id", "name"}) @@ ParamSpec("enum", "CO", {"iface"})

hwdep_device_info_set_property ==
  Copy("uint", "device-id" :> "device") @@ Copy("int", "card-id" :> "card")
  @@ Via("string", "name", Same({"id", "name"})) @@ Copy("enum", Same({"iface"}))

hwdep_device_info_get_property ==
  Copy("uint", "device-id" :> "device") @@ Copy("int", "card-id" :> "card")
  @@ Copy("string", Same({"id", "name"})) @@ Copy("enum", Same({"iface"}))

-----------------------------------------------------------------------------
(* The calls of ALSARawmidiStreamPair and the queries with an object. *)

alsarawmidi_stream_pair_get_substream_info == Creates("RawmidiSubstreamInfo", "direction" :> "stream")

alsarawmidi_stream_pair_set_substream_params == Sends("RawmidiSubstreamParams", "stream" :> "stream")

alsarawmidi_stream_pair_get_substream_status == Fetches("RawmidiSubstreamStatus", "stream" :> "stream")

alsarawmidi_get_substream_info ==
  Creates("RawmidiSubstreamInfo",
          "device-id" :> "device" @@ "subdevice-id" :> "subdevice"
          @@ "direction" :> "stream" @@ "card-id" :> "card")

alsahwdep_get_device_info == Creates("HwdepDeviceInfo", "device-id" :> "device" @@ "card-id" :> "card")
====
