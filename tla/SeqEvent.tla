------------------------------ MODULE SeqEvent ------------------------------
(***************************************************************************)
(* ALSASeqEvent (src/seq/event.c): boxed sequencer events.  An event holds *)
(* its data in one union.  What the union means depends on the type of the *)
(* event, which never changes, and on the mode of length, which each       *)
(* setter of data rewrites; a blob lives in a heap block of its own, which *)
(* the setters, the copy function and the free function hand around.       *)
(*                                                                         *)
(* A value of fixed length is represented by its kind, a blob by its bytes. *)
(* The tag, the addresses, the priority and the value of the time stamp    *)
(* are plain fields with no bearing on anything else, and are left out.    *)
(* No setter changes the mode of the time stamp.                           *)
(***************************************************************************)
EXTENDS Naturals, Sequences, FiniteSets

CONSTANTS Events,      \* places for event structures
          Blocks,      \* places for heap blocks
          NoBlock,     \* NULL
          Types,       \* types of event in use, of 0..255
          Bytes,       \* values of a byte
          MaxLen       \* bound on the length of a blob

ASSUME SeqEventAssumption ==
    /\ IsFiniteSet(Events) /\ IsFiniteSet(Blocks)
    /\ NoBlock \notin Blocks
    /\ Types \subseteq 0..255
    /\ Bytes # {} /\ MaxLen \in Nat

VARIABLES ev,          \* the event at each place in use
          heap,        \* the bytes of each block in use
          meant        \* the blob that was stored to, or received in, an event;
                       \* none for the copy of a blob

eventVars == <<ev, heap, meant>>

Live == DOMAIN ev
Blobs == UNION {[1..n -> Bytes] : n \in 0..MaxLen}
NOTE == 5              \* SNDRV_SEQ_EVENT_NOTE
DIRECT == 253          \* SNDRV_SEQ_QUEUE_DIRECT
Modes == {"FIXED", "VARIABLE", "VARUSR"}

Set(f, x, v) == [y \in DOMAIN f \cup {x} |-> IF y = x THEN v ELSE f[y]]
Without(f, x) == [y \in DOMAIN f \ {x} |-> f[y]]

\* enum seq_event_data_flag
FIXED_ANY == {"RESULT", "NOTE", "CONTROL", "QUEUE", "ADDR", "CONNECT", "BYTE",
              "QUADLET", "TSTAMP"}
VARIABLE_ANY == {"BLOB"}
VARUSR_ANY == {"POINTER"}
ANY == FIXED_ANY \cup VARIABLE_ANY \cup VARUSR_ANY

\* The data that an event of type t can hold.
seq_event_data_flags(t) ==
    CASE t \in 0..4     -> {"RESULT"}
      [] t \in 5..9     -> {"NOTE"}
      [] t \in 10..24   -> {"CONTROL"}
      [] t \in 25..29   -> FIXED_ANY
      [] t \in 30..39   -> {"QUEUE"}
      [] t \in 40..49   -> {"BLANK"}
      [] t \in 50..59   -> ANY
      [] t \in 60..65   -> {"ADDR"}
      [] t \in 66..69   -> {"CONNECT"}
      [] t \in 70..89   -> FIXED_ANY
      [] t \in 90..99   -> FIXED_ANY \cup {"USER"}
      [] t \in 100..129 -> FIXED_ANY
      [] t \in 130..134 -> {"BLOB"}
      [] t \in 135..139 -> VARIABLE_ANY \cup {"USER"}
      [] t \in 140..149 -> VARIABLE_ANY
      [] t \in 150..254 -> ANY
      [] t = 255        -> {"NONE"}

\* struct snd_seq_event.  kind: what was last stored in the union, or ZERO.
Event == [type : Types, mode : Modes, tstamp : {"TICK", "REAL"},
          queue : {0, DIRECT}, kind : ANY \cup {"ZERO"},
          ptr : Blocks \cup {NoBlock}, len : 0..MaxLen]
----------------------------------------------------------------------------
\* g_malloc() of a block for the bytes b: NULL for none.
Malloc(b, p, h) == IF b = <<>> THEN p = NoBlock ELSE p \in Blocks \ DOMAIN h
Store(h, p, b) == IF b = <<>> THEN h ELSE Set(h, p, b)

\* Mutant of free_blob_data: nothing is freed.
free_blob_data_never(r, h) == h

\* free_blob_data(): the heap h without the blob of event r, if it has one.
free_blob_data(r, h) ==
    IF r.mode = "VARIABLE" /\ r.ptr # NoBlock THEN Without(h, r.ptr) ELSE h

\* clear_data_fields(), for the event itself.
Cleared(r) == [r EXCEPT !.kind = "ZERO", !.ptr = NoBlock, !.len = 0]

\* Mutant of ensure_fixed_length_event: the mode of length stays.
ensure_fixed_keeps_mode(r) == Cleared(r)

ensure_fixed_length_event(r) == [Cleared(r) EXCEPT !.mode = "FIXED"]
ensure_pointer_length_event(r) == [Cleared(r) EXCEPT !.mode = "VARUSR"]

\* ensure_variable_length_event(), with the block p that it allocates.
ensure_variable_length_event(r, p, n) ==
    [Cleared(r) EXCEPT !.mode = "VARIABLE", !.kind = "BLOB", !.ptr = p, !.len = n]

validate_event_type(r, flag) == flag \in seq_event_data_flags(r.type)

\* The mode of length that goes with a kind of data.
ExpectedMode(flag) ==
    IF flag = "BLOB" THEN "VARIABLE" ELSE IF flag = "POINTER" THEN "VARUSR" ELSE "FIXED"

validate_event_tstamp_mode(r, ts) == r.tstamp = ts

validate_event_type_and_length(r, flag) ==
    validate_event_type(r, flag) /\ r.mode = ExpectedMode(flag)

\* The getters: does the call succeed on event r?
get_note_data(r) == validate_event_type_and_length(r, "NOTE")
get_ctl_data(r) == validate_event_type_and_length(r, "CONTROL")
get_byte_data(r) == validate_event_type_and_length(r, "BYTE")
get_quadlet_data(r) == validate_event_type_and_length(r, "QUADLET")
get_blob_data(r) == validate_event_type_and_length(r, "BLOB")
get_pointer_data(r) == validate_event_type_and_length(r, "POINTER")
get_queue_data(r) == validate_event_type_and_length(r, "QUEUE")
get_addr_data(r) == validate_event_type_and_length(r, "ADDR")
get_connect_data(r) == validate_event_type_and_length(r, "CONNECT")
get_result_data(r) == validate_event_type_and_length(r, "RESULT")
get_tick_time_data(r) ==
    validate_event_type_and_length(r, "TSTAMP") /\ validate_event_tstamp_mode(r, "TICK")
get_real_time_data(r) ==
    validate_event_type_and_length(r, "TSTAMP") /\ validate_event_tstamp_mode(r, "REAL")
GetFixed(r) ==
    \/ get_note_data(r) \/ get_ctl_data(r) \/ get_byte_data(r) \/ get_quadlet_data(r)
    \/ get_queue_data(r) \/ get_addr_data(r) \/ get_connect_data(r)
    \/ get_result_data(r) \/ get_tick_time_data(r) \/ get_real_time_data(r)

\* Mutant of seq_event_is_deliverable: variable length only for user types.
is_deliverable_user(r) ==
    /\ r.mode = "FIXED" => seq_event_data_flags(r.type) \cap FIXED_ANY # {}
    /\ r.mode = "VARIABLE" => "USER" \in seq_event_data_flags(r.type)

seq_event_is_deliverable(r) ==
    LET flags == seq_event_data_flags(r.type) IN
    CASE r.mode = "FIXED" -> IF r.type = NOTE THEN r.queue # DIRECT
                             ELSE flags \cap FIXED_ANY # {}
      [] r.mode = "VARIABLE" -> flags \cap VARIABLE_ANY # {}
      [] r.mode = "VARUSR" -> flags \cap VARUSR_ANY # {} /\ r.queue = DIRECT
----------------------------------------------------------------------------
EventInit == ev = <<>> /\ heap = <<>> /\ meant = <<>>

\* alsaseq_event_new(): a copy of a zeroed structure with the type.
New(e, t) ==
    /\ e \notin Live
    /\ ev' = Set(ev, e, [type |-> t, mode |-> "FIXED", tstamp |-> "TICK",
                         queue |-> 0, kind |-> "ZERO", ptr |-> NoBlock, len |-> 0])
    /\ meant' = Set(meant, e, <<>>)
    /\ UNCHANGED heap

set_queue_id(e, q) ==
    /\ ev' = [ev EXCEPT ![e].queue = q]
    /\ UNCHANGED <<heap, meant>>

\* The setters of data of fixed length.  A setter that refuses the event
\* changes nothing.
SetFixed(e, flag) ==
    /\ heap' = free_blob_data(ev[e], heap)
    /\ ev' = [ev EXCEPT ![e] = [ensure_fixed_length_event(@) EXCEPT !.kind = flag]]
    /\ meant' = Set(meant, e, <<>>)
SetFixedData(e, flag) == validate_event_type(ev[e], flag) /\ SetFixed(e, flag)
set_note_data(e) == SetFixedData(e, "NOTE")
set_ctl_data(e) == SetFixedData(e, "CONTROL")
set_byte_data(e) == SetFixedData(e, "BYTE")
set_quadlet_data(e) == SetFixedData(e, "QUADLET")
set_queue_data(e) == SetFixedData(e, "QUEUE")
set_addr_data(e) == SetFixedData(e, "ADDR")
set_connect_data(e) == SetFixedData(e, "CONNECT")
set_result_data(e) == SetFixedData(e, "RESULT")

\* The ones for a time stamp need an event with the same mode of time stamp.
SetTimeData(e, ts) ==
    /\ validate_event_type(ev[e], "TSTAMP") /\ validate_event_tstamp_mode(ev[e], ts)
    /\ SetFixed(e, "TSTAMP")
set_tick_time_data(e) == SetTimeData(e, "TICK")
set_real_time_data(e) == SetTimeData(e, "REAL")

set_blob_data(e, b) ==
    LET r == ev[e]
        freed == free_blob_data(r, heap) IN
    /\ validate_event_type(r, "BLOB")
    /\ \E p \in Blocks \cup {NoBlock} :
          /\ Malloc(b, p, freed)
          /\ heap' = Store(freed, p, b)
          /\ ev' = [ev EXCEPT ![e] = ensure_variable_length_event(r, p, Len(b))]
    /\ meant' = Set(meant, e, b)

\* The data stays the caller's.
set_pointer_data(e) ==
    LET r == ev[e] IN
    /\ validate_event_type(r, "POINTER")
    /\ heap' = free_blob_data(r, heap)
    /\ ev' = [ev EXCEPT ![e] = [ensure_pointer_length_event(r) EXCEPT !.kind = "POINTER"]]
    /\ meant' = Set(meant, e, <<>>)

\* Mutant of seq_event_copy: the copy shares the block.
seq_event_copy_shared(r, p) == r

\* seq_event_copy(): a blob goes to a block p that the copy allocates.
seq_event_copy(r, p) == IF r.mode = "VARIABLE" THEN [r EXCEPT !.ptr = p] ELSE r

\* A copy c of an event r: the bytes behind the structure of r are taken for
\* its blob.
CopyTo(c, r, behind) ==
    \E p \in Blocks \cup {NoBlock} :
       /\ Malloc(behind, p, heap)
       /\ heap' = Store(heap, p, behind)
       /\ ev' = Set(ev, c, seq_event_copy(r, p))

(***************************************************************************)
(* g_boxed_copy() of an event of the application.  Its blob is not behind  *)
(* the structure: what the copy gets is whatever the memory holds there.   *)
(***************************************************************************)
Copy(e, c) ==
    LET r == ev[e] IN
    /\ c \notin Live
    /\ \E behind \in Blobs :
          /\ Len(behind) = IF r.mode = "VARIABLE" THEN r.len ELSE 0
          /\ CopyTo(c, r, behind)
    /\ meant' = IF r.mode = "VARIABLE" THEN meant ELSE Set(meant, c, <<>>)

(***************************************************************************)
(* alsaseq_event_cntr_deserialize() makes an event of one in the flat      *)
(* layout of a read buffer, where the blob b is behind the structure.      *)
(* External: the sequencer core delivers blobs for the types that have     *)
(* variable length, and no others for them.                                *)
(***************************************************************************)
Receive(c, t, ts, b) ==
    LET blob == t \in 130..149
        kinds == IF blob THEN {"BLOB"}
                 ELSE (seq_event_data_flags(t) \cap FIXED_ANY) \cup {"ZERO"} IN
    /\ c \notin Live
    /\ blob \/ b = <<>>
    /\ \E k \in kinds :
          CopyTo(c, [type |-> t, mode |-> IF blob THEN "VARIABLE" ELSE "FIXED",
                     tstamp |-> ts, queue |-> DIRECT, kind |-> k,
                     ptr |-> NoBlock, len |-> Len(b)], b)
    /\ meant' = Set(meant, c, b)

\* g_boxed_free(): seq_event_free()
Free(e) ==
    /\ heap' = free_blob_data(ev[e], heap)
    /\ ev' = Without(ev, e)
    /\ meant' = Without(meant, e)

EventNext ==
    \/ \E e \in Events, t \in Types :
          \/ New(e, t)
          \/ \E ts \in {"TICK", "REAL"}, b \in Blobs : Receive(e, t, ts, b)
    \/ \E e \in Live :
          \/ \E q \in {0, DIRECT} : set_queue_id(e, q)
          \/ set_note_data(e) \/ set_ctl_data(e) \/ set_byte_data(e)
          \/ set_quadlet_data(e) \/ set_queue_data(e) \/ set_addr_data(e)
          \/ set_connect_data(e) \/ set_result_data(e)
          \/ set_tick_time_data(e) \/ set_real_time_data(e)
          \/ \E b \in Blobs : set_blob_data(e, b)
          \/ set_pointer_data(e)
          \/ \E c \in Events : Copy(e, c)
          \/ Free(e)

EventSpec == EventInit /\ [][EventNext]_eventVars
----------------------------------------------------------------------------
(***************************************************************************)
(* Every heap block belongs to exactly one event, which will free it, and  *)
(* every blob of an event is an allocated block of its length: no leak, no *)
(* double free and no dangling pointer, in any order of setters, copies    *)
(* and frees.                                                              *)
(***************************************************************************)
BlobsOwned ==
    /\ \A p \in DOMAIN heap :
          Cardinality({e \in Live : ev[e].mode = "VARIABLE" /\ ev[e].ptr = p}) = 1
    /\ \A e \in Live : ev[e].mode = "VARIABLE" /\ ev[e].len > 0 =>
          ev[e].ptr \in DOMAIN heap /\ Len(heap[ev[e].ptr]) = ev[e].len

(***************************************************************************)
(* No getter takes the union for something of another length class: bytes  *)
(* of a fixed value for a pointer, or the pointer for bytes.               *)
(***************************************************************************)
UnionSound ==
    \A e \in Live : LET r == ev[e] IN
        /\ get_blob_data(r) => r.kind = "BLOB"
        /\ get_pointer_data(r) => r.kind = "POINTER"
        /\ GetFixed(r) => r.kind \notin {"BLOB", "POINTER"}

(***************************************************************************)
(* The blob read from an event is the one that was stored to it, or the    *)
(* one received with it.  For the copy of an event whose blob is in a      *)
(* block of its own, seq_event_copy() takes the bytes behind the structure *)
(* instead; such copies are left out until their data is set again.        *)
(***************************************************************************)
BlobIntact ==
    \A e \in DOMAIN meant : ev[e].mode = "VARIABLE" /\ ev[e].len > 0 =>
        ev[e].ptr \in DOMAIN heap /\ heap[ev[e].ptr] = meant[e]

(***************************************************************************)
(* What a setter accepts can be scheduled: an event whose data was set is  *)
(* deliverable, if only its queue suits (not direct for a note with a      *)
(* duration, direct for a pointer).                                        *)
(***************************************************************************)
QueueSuits(r) == /\ r.type = NOTE => r.queue # DIRECT
                 /\ r.mode = "VARUSR" => r.queue = DIRECT
SetIsDeliverable ==
    \A e \in Live : ev[e].kind # "ZERO" /\ QueueSuits(ev[e]) =>
        seq_event_is_deliverable(ev[e])
=============================================================================
