---- MODULE CtlObjects ----
(***************************************************************************)
(* The data objects of ALSACtl as tables (see StructAccess): information   *)
(* of elements with the two interfaces their classes share, element        *)
(* values, element identifiers, and information of cards.                  *)
(***************************************************************************)
EXTENDS StructAccess

(* ALSACtlElemInfoCommon *)

elem_info_common_default_init ==
  ParamSpec("boxed", "R", {"elem-id"}) @@ ParamSpec("enum", "CO", {"elem-type"})
  @@ ParamSpec("flags", "RW", {"access"}) @@ ParamSpec("int", "R", {"owner"})

elem_info_common_set_property ==
  Copy("boxed", "elem-id" :> "id") @@ Copy("enum", "elem-type" :> "type")
  @@ Copy("flags", "access" :> "access") @@ Copy("int", "owner" :> "owner")

elem_info_common_get_property ==
  Copy("boxed", "elem-id" :> "id") @@ Copy("enum", "elem-type" :> "type")
  @@ Copy("flags", "access" :> "access") @@ Copy("int", "owner" :> "owner")

(* ALSACtlElemInfoSingleArray *)

elem_info_single_array_default_init ==
  ParamSpec("uint", "RW", {"value-count"}) @@ elem_info_common_default_init

elem_info_single_array_set_property ==
  Copy("uint", "value-count" :> "count") @@ elem_info_common_set_property

elem_info_single_array_get_property ==
  Copy("uint", "value-count" :> "count") @@ elem_info_common_get_property

(* ALSACtlElemInfoBoolean and -Bytes add nothing to it. *)

elem_info_boolean_class_init == elem_info_single_array_default_init

elem_info_boolean_set_property == elem_info_single_array_set_property

elem_info_boolean_get_property == elem_info_single_array_get_property

elem_info_bytes_class_init == elem_info_single_array_default_init

elem_info_bytes_set_property == elem_info_single_array_set_property

elem_info_bytes_get_property == elem_info_single_array_get_property

(* ALSACtlElemInfoInteger and -Integer64 *)

value_range == "value-min" :> "min" @@ "value-max" :> "max" @@ "value-step" :> "step"

elem_info_integer_class_init ==
  ParamSpec("int", "RW", DOMAIN value_range) @@ elem_info_single_array_default_init

elem_info_integer_set_property == Copy("int", value_range) @@ elem_info_single_array_set_property

elem_info_integer_get_property == Copy("int", value_range) @@ elem_info_single_array_get_property

elem_info_integer64_class_init ==
  ParamSpec("int64", "RW", DOMAIN value_range) @@ elem_info_single_array_default_init

elem_info_integer64_set_property ==
  Copy("int64", value_range) @@ elem_info_single_array_set_property

elem_info_integer64_get_property ==
  Copy("int64", value_range) @@ elem_info_single_array_get_property

(* ALSACtlElemInfoEnumerated keeps the labels beside the structure. *)

elem_info_enumerated_class_init ==
  ParamSpec("boxed", "RW", {"labels"}) @@ elem_info_single_array_default_init

elem_info_enumerated_set_property ==
  Copy("boxed", "labels" :> "labels") @@ elem_info_single_array_set_property

elem_info_enumerated_get_property ==
  Copy("boxed", "labels" :> "labels") @@ elem_info_single_array_get_property

(* ALSACtlElemInfoIec60958 has the common properties, and one value. *)

elem_info_iec60958_class_init == elem_info_common_default_init

elem_info_iec60958_set_property == elem_info_common_set_property

elem_info_iec60958_get_property == elem_info_common_get_property

elem_info_iec60958_init == "count" :> 1

(* ALSACtlCardInfo *)

card_texts ==
  "id" :> "id" @@ "driver" :> "driver" @@ "name" :> "name" @@ "long-name" :> "longname"
  @@ "mixer-name" :> "mixername" @@ "components" :> "components"

card_info_class_init == ParamSpec("int", "R", {"card-id"}) @@ ParamSpec("string", "R", DOMAIN card_texts)

card_info_get_property == Copy("int", "card-id" :> "card") @@ Copy("string", card_texts)

-----------------------------------------------------------------------------
(* ALSACtlElemValue: one union for the values of all types.  A cell stands *)
(* for a quarter of a long; the sizes are 2 longs for the 128 of the       *)
(* kernel, and for the other members what fills the same share of them.    *)

ValueCells == 8

elem_value_class_init == ParamSpec("boxed", "R", {"elem-id"})

elem_value_get_property == Copy("boxed", "elem-id" :> "id")

elem_value_bool == "bool" :> Member("bools", 0, 2, 4)

elem_value_int == "int" :> Member("ints", 0, 2, 4)

elem_value_enum == "enum" :> Member("raw", 0, 2, 2)

elem_value_bytes == "bytes" :> Member("raw", 0, 4, 1)

elem_value_iec60958_channel_status == "channel-status" :> Member("raw", 0, 1, 1)

elem_value_iec60958_user_data == "user-data" :> Member("raw", 1, 2, 1)

elem_value_int64 == "int64" :> Member("raw", 0, 1, 4)

elem_value_members ==
  elem_value_bool @@ elem_value_int @@ elem_value_enum @@ elem_value_bytes
  @@ elem_value_iec60958_channel_status @@ elem_value_iec60958_user_data @@ elem_value_int64

\* Mutant of elem_value_equal: compares the start of the union.
elem_value_equal_short(l, r) == l["id"] = r["id"] /\ \A c \in 1..4 : l["union"][c] = r["union"][c]

\* memcmp() of the whole structures.
elem_value_equal(l, r) == l = r

(* ALSACtlElemId: a number, or what names the element. *)

elem_id_access ==
  Copy("uint", "numid" :> "numid" @@ "device-id" :> "device"
               @@ "subdevice-id" :> "subdevice" @@ "index" :> "index")
  @@ Copy("enum", "iface" :> "iface") @@ Copy("string", "name" :> "name")

elem_id_new_by_numid == Copy("uint", "numid" :> "numid")

elem_id_new_by_name ==
  Copy("enum", "iface" :> "iface") @@ Via("string", "name", "name" :> "name")
  @@ Copy("uint", "device-id" :> "device" @@ "subdevice-id" :> "subdevice" @@ "index" :> "index")

elem_id_equal(l, r) ==
  \/ l["numid"] = r["numid"]
  \/ \A f \in {"iface", "device", "subdevice", "name", "index"} : l[f] = r[f]

-----------------------------------------------------------------------------
(* The calls of ALSACtlCard with an object of data. *)

alsactl_card_get_info == Creates("CtlCardInfo", Nothing)

\* The class is the one for the type in the kernel's answer.
alsactl_card_get_elem_info(class) == Creates(class, Nothing)

alsactl_card_write_elem_value == Sends("CtlElemValue", "elem-id" :> "id")

alsactl_card_read_elem_value == Fetches("CtlElemValue", "elem-id" :> "id")
====
