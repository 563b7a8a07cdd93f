---------------------------- MODULE SeqEventCntr ----------------------------
(***************************************************************************)
(* The flat layout of sequencer events (src/seq/event.c and                *)
(* src/seq/event-cntr.c): how a list of events becomes one buffer for      *)
(* write(2), and how the buffer that read(2) filled becomes events again.  *)
(*                                                                         *)
(* An event is a record [id, variable, len]: variable is its mode of       *)
(* length, len the length of its blob.  A byte of a buffer is a record     *)
(* that tells where it comes from: byte number at of the structure of an   *)
(* event, or of its blob, or padding.                                      *)
(***************************************************************************)
EXTENDS Naturals, Sequences, SequencesExt

CONSTANT EvSize        \* sizeof(struct snd_seq_event)

ASSUME EvSizeAssumption == EvSize \in Nat \ {0}

Byte(what, event, i) == [what |-> what, of |-> event, at |-> i]

seq_event_calculate_flattened_length(event, aligned) ==
    LET length == EvSize + IF event.variable THEN event.len ELSE 0 IN
    IF aligned THEN ((length + EvSize - 1) \div EvSize) * EvSize ELSE length

\* seq_event_copy_flattened() into a zeroed piece of a buffer.
seq_event_copy_flattened(event, length) ==
    [i \in 1..length |->
        IF i <= EvSize THEN Byte("struct", event, i)
        ELSE IF event.variable /\ i <= EvSize + event.len
             THEN Byte("blob", event, i - EvSize)
             ELSE Byte("zero", event, 0)]

\* seq_event_cntr_serialize(): the buffer for a list of events.
seq_event_cntr_serialize(events, aligned) ==
    FlattenSeq([i \in 1..Len(events) |->
        seq_event_copy_flattened(events[i],
            seq_event_calculate_flattened_length(events[i], aligned))])

(***************************************************************************)
(* seq_event_iter_next(): the bytes at the offset are taken for a          *)
(* structure.  There is a next event if all of its bytes are in the        *)
(* buffer.                                                                 *)
(***************************************************************************)
EventAt(buf, offset) == buf[offset + 1].of

\* Mutant of NextOffset: an event with a blob is not stepped over.
NextOffsetFixed(buf, offset, aligned) ==
    IF EventAt(buf, offset).variable THEN offset ELSE offset + EvSize

NextOffset(buf, offset, aligned) ==
    offset + seq_event_calculate_flattened_length(EventAt(buf, offset), aligned)

\* Mutant of HasNext: an event that ends with the buffer is left out.
HasNextStrict(buf, offset, aligned) ==
    /\ offset < Len(buf)
    /\ NextOffset(buf, offset, aligned) < Len(buf)

HasNext(buf, offset, aligned) ==
    /\ offset < Len(buf)
    /\ NextOffset(buf, offset, aligned) <= Len(buf)

\* Mutant of seq_event_copy: the blob is taken from one byte too early.
seq_event_copy_off(buf, offset) ==
    LET event == EventAt(buf, offset) IN
    [event |-> event, intact |-> buf[offset + 1].what = "struct",
     blob |-> IF event.variable
              THEN SubSeq(buf, offset + EvSize, offset + EvSize + event.len - 1)
              ELSE <<>>]

(***************************************************************************)
(* seq_event_copy() of the event at an offset of a buffer: its structure,  *)
(* if it is one, and as its blob the bytes that follow.                    *)
(***************************************************************************)
seq_event_copy(buf, offset) ==
    LET event == EventAt(buf, offset) IN
    [event |-> event,
     intact |-> \A i \in 1..EvSize : buf[offset + i] = Byte("struct", event, i),
     blob |-> IF event.variable
              THEN SubSeq(buf, offset + EvSize + 1, offset + EvSize + event.len)
              ELSE <<>>]

\* The copy that a receiver of the event should get.
Faithful(event) ==
    [event |-> event, intact |-> TRUE,
     blob |-> [i \in 1..(IF event.variable THEN event.len ELSE 0) |->
                  Byte("blob", event, i)]]
=============================================================================
