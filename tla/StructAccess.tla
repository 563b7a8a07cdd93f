---- MODULE StructAccess ----
(***************************************************************************)
(* How the data objects of the libraries keep their values: a GObject (or  *)
(* boxed) type wraps one structure of the kernel interface, its            *)
(* set_property() or setter stores a value in a field, its get_property()  *)
(* or getter reads the field.  A structure is a function from field names  *)
(* to values; a table entry says through which GValue accessor, into which *)
(* field and in which way a value goes.                                    *)
(*                                                                         *)
(* Text is a number of characters.  A union is a sequence of cells, a      *)
(* number in it a tuple of cells with the lowest first; the cell Ones has  *)
(* all bits set, so <<Ones, Ones>> is minus one.                           *)
(***************************************************************************)
EXTENDS Integers, Sequences, FiniteSets, TLC

CONSTANT NameMax       \* characters a name array holds beside its final NUL

ASSUME NameMaxAssumption == NameMax \in Nat \ {0}

Ones == 2

-----------------------------------------------------------------------------
(* Entries of the tables. *)

\* The properties that g_param_spec_<type>() declares with an access.
ParamSpec(type, access, names) == [p \in names |-> [type |-> type, access |-> access]]

\* A case of a property function: the GValue accessor, the field, the way.
Via(type, way, fields) ==
  [p \in DOMAIN fields |-> [type |-> type, way |-> way, field |-> fields[p], arg |-> {}]]

Copy(type, fields) == Via(type, "copy", fields)

\* Cases on the bits of one field: a truth value for a bit, a set for a mask.
Bits(type, way, field, masks) ==
  [p \in DOMAIN masks |-> [type |-> type, way |-> way, field |-> field, arg |-> masks[p]]]

\* Members of a union: count numbers of width cells from a cell on.
Member(way, from, count, width) ==
  [type |-> "cells", way |-> way, field |-> "union",
   arg |-> [from |-> from, count |-> count, width |-> width]]

\* Field names that are the property names.
Same(names) == [p \in names |-> p]

-----------------------------------------------------------------------------
(* A call that hands the structure of an object to the kernel.  It first   *)
(* writes the identifiers it was given, or knows, over the caller's, a     *)
(* function from properties to fields.  A call that makes the object takes *)
(* its reference back when it fails.                                       *)

Nothing == Same({})

Call(does, class, forces, makes, unrefs) ==
  [does |-> does, class |-> class, forces |-> forces, makes |-> makes, unrefs |-> unrefs]

Sends(class, forces) == Call("send", class, forces, FALSE, FALSE)

Fetches(class, forces) == Call("fetch", class, forces, FALSE, FALSE)

Creates(class, forces) == Call("fetch", class, forces, TRUE, TRUE)

-----------------------------------------------------------------------------
(* GValue: an accessor of another type is refused with a warning and       *)
(* answers (or leaves) zero.                                               *)

ZeroOf(type) == CASE type \in {"flags", "events"} -> {}
                  [] type = "boolean" -> FALSE
                  [] type = "cells" -> <<>>
                  [] OTHER -> 0

Converted(from, to, v) == IF from = to THEN v ELSE ZeroOf(to)

-----------------------------------------------------------------------------
(* Numbers in a union. *)

Number(u, a, k) == SubSeq(u, a.from + (k - 1) * a.width + 1, a.from + k * a.width)

Zeros(n) == [i \in 1..n |-> 0]

Negative(n) == n[Len(n)] = Ones

\* A conversion to a wider integer repeats the sign.
Widened(n, width) ==
  n \o [i \in 1..(width - Len(n)) |-> IF Negative(n) THEN Ones ELSE 0]

\* gboolean to long, long > 0 to gboolean.
FromBool(b, width) == Widened(IF b THEN <<1, 0>> ELSE <<0, 0>>, width)

Positive(n) == ~Negative(n) /\ \E i \in DOMAIN n : n[i] # 0

Encoded(way, v, width) == CASE way = "bools" -> FromBool(v, width)
                            [] OTHER -> Widened(v, width)

Decoded(way, n) == CASE way = "bools" -> Positive(n)
                     [] way = "ints" -> SubSeq(n, 1, 2)
                     [] OTHER -> n

\* The numbers of v at the member's place, zero in the rest of the member.
WriteMember(u, e, v) ==
  LET a == e.arg
      At(c) == ((c - a.from - 1) \div a.width) + 1
      In(c) == ((c - a.from - 1) % a.width) + 1
  IN  [c \in DOMAIN u |->
        IF c <= a.from \/ c > a.from + a.count * a.width THEN u[c]
        ELSE IF At(c) <= Len(v) THEN Encoded(e.way, v[At(c)], a.width)[In(c)]
        ELSE 0]

ReadMember(u, e) == [k \in 1..e.arg.count |-> Decoded(e.way, Number(u, e.arg, k))]

-----------------------------------------------------------------------------
(* A bitmap of event types in an array of bytes; types past it are dropped. *)

TypeBits == 8

TypeBytes == 32

Bitmap(types) ==
  {<<t \div TypeBits, t % TypeBits>> : t \in {t \in types : t \div TypeBits < TypeBytes}}

FromBitmap(map) == {t \in 0..(TypeBits * TypeBytes - 1) : <<t \div TypeBits, t % TypeBits>> \in map}

-----------------------------------------------------------------------------
(* One case of set_property() and of get_property(). *)

True(e, v) == IF e.type = "boolean" THEN v ELSE v # 0

\* The field's value after the value v arrived in it.
Stored(old, e, v) ==
  CASE e.way = "name"    -> IF v > NameMax THEN NameMax ELSE v     \* g_strlcpy()
    [] e.way = "bit"     -> IF True(e, v) THEN old \cup e.arg ELSE old \ e.arg
    [] e.way = "mask"    -> (old \ e.arg) \cup v
    [] e.way = "negated" -> ~v
    [] e.way = "bitmap"  -> Bitmap(v)
    [] e.type = "cells"  -> WriteMember(old, e, v)
    [] OTHER             -> v

Fetched(x, e) ==
  CASE e.way = "bit"     -> IF e.type = "boolean" THEN e.arg \subseteq x
                            ELSE IF e.arg \subseteq x THEN 1 ELSE 0
    [] e.way = "mask"    -> x \cap e.arg
    [] e.way = "negated" -> ~x
    [] e.way = "bitmap"  -> FromBitmap(x)
    [] e.way = "narrow"  -> x % 256                                \* to guint8
    [] e.type = "cells"  -> ReadMember(x, e)
    [] OTHER             -> x
====
