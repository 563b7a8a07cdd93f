--------------------------- MODULE SeqUserClient ---------------------------
(***************************************************************************)
(* The event path of ALSASeqUserClient (src/seq/user-client.c): the        *)
(* application schedules lists of events with write(2), the sequencer core *)
(* delivers them to a client that reads them in batches, and the handler   *)
(* of handle-event deserializes each batch.                                *)
(*                                                                         *)
(* External, from the sequencer core: write(2) takes events one by one and *)
(* answers the length of those it took, if any.  The input FIFO of a       *)
(* client has a limit, and remembers that it overflowed; the next read(2)  *)
(* then fails with ENOSPC.  read(2) answers with as many whole events as   *)
(* the buffer has room for, blobs padded to a multiple of EvSize, and with *)
(* EAGAIN if that is none.                                                 *)
(***************************************************************************)
EXTENDS SeqEventCntr

CONSTANTS BufLen,      \* src->buf_len
          Lens,        \* lengths of blobs in use
          MaxEvents,   \* bound on the events that are scheduled
          MaxList,     \* bound on the length of a list
          FifoLen,     \* events the input FIFO has room for
          MaxDepth     \* bound on nested iterations; 1: handlers do not iterate

ASSUME ClientAssumption ==
    /\ BufLen \in Nat \ {0} /\ Lens \subseteq Nat /\ MaxEvents \in Nat
    /\ MaxList \in Nat /\ FifoLen \in Nat
    /\ MaxDepth \in Nat \ {0}

VARIABLES posted,      \* events that the sequencer core took
          call,        \* the last call of schedule_events: the length of the
                       \* list, what the core took, what the function answered
          fifo,        \* the input FIFO of the client
          overflow,    \* it overflowed since the last read
          attached,    \* is the source attached to the main context?
          handlers,    \* running handlers of handle-event, the innermost last
          received     \* copies made by the handlers, in order, and by which

vars == <<posted, call, fifo, overflow, attached, handlers, received>>

Depth == Len(handlers)
Top == handlers[Depth]

\* An event that is scheduled: its number, and whether it has a blob.
EventOf(n, len) == [id |-> n, variable |-> len > 0, len |-> len]
Lists == UNION {[1..n -> Lens] : n \in 0..MaxList}
Numbered(lens) == [i \in 1..Len(lens) |-> EventOf(posted + i, lens[i])]

Init ==
    /\ posted = 0
    /\ call = [ok |-> FALSE, list |-> 0, taken |-> 0, count |-> 0]
    /\ fifo = <<>>
    /\ overflow = FALSE
    /\ attached = TRUE
    /\ handlers = <<>>
    /\ received = <<>>

\* The positions of the loop where pos >= result.
Counted(ends, result) == {i \in 1..Len(ends) : ends[i] >= result}

\* Mutant of ScheduledCount: counts once more at the end of the loop.
ScheduledCountNext(events, result) ==
    LET ends == [i \in 1..Len(events) |->
                    Len(seq_event_cntr_serialize(SubSeq(events, 1, i), FALSE))]
    IN  [ok |-> TRUE, count |-> 1 + CHOOSE i \in 1..Len(events) : ends[i] = result]

(***************************************************************************)
(* The count that alsaseq_user_client_schedule_events() computes from the  *)
(* result of write(2): the loop adds up the lengths of the events, ends,   *)
(* until they reach the result, at the latest with the last event.         *)
(***************************************************************************)
ScheduledCount(events, result) ==
    LET ends == [i \in 1..Len(events) |->
                    Len(seq_event_cntr_serialize(SubSeq(events, 1, i), FALSE))]
        S == Counted(ends, result)
        n == IF S = {} THEN Len(events) ELSE CHOOSE i \in S : \A j \in S : i <= j
    IN  [ok |-> ends[n] = result, count |-> n]

(***************************************************************************)
(* alsaseq_user_client_schedule_events(), for a list of deliverable        *)
(* events.  An empty list has nothing to write: the function answers TRUE  *)
(* and leaves *count as the caller had it.                                 *)
(***************************************************************************)
ScheduleEvents(lens) ==
    LET events == Numbered(lens) IN
    /\ posted + Len(lens) <= MaxEvents
    /\ \/ /\ events = <<>>
          /\ \E garbage \in 0..1 :
                call' = [ok |-> TRUE, list |-> 0, taken |-> 0, count |-> garbage]
          /\ UNCHANGED <<posted, fifo, overflow>>
       \/ \E k \in 1..Len(events) :
          LET buf == seq_event_cntr_serialize(events, FALSE)
              result == Len(seq_event_cntr_serialize(SubSeq(events, 1, k), FALSE))
              answer == ScheduledCount(events, result)
              fits == IF k < FifoLen - Len(fifo) THEN k ELSE FifoLen - Len(fifo)
          IN  /\ result <= Len(buf)
              /\ call' = [ok |-> answer.ok, list |-> Len(lens), taken |-> k,
                          count |-> answer.count]
              /\ posted' = posted + k
              /\ fifo' = fifo \o SubSeq(events, 1, fits)
              /\ overflow' = (overflow \/ fits < k)
       \/ /\ events # <<>>
          /\ call' = [ok |-> FALSE, list |-> Len(lens), taken |-> 0, count |-> 0]
          /\ UNCHANGED <<posted, fifo, overflow>>
    /\ UNCHANGED <<attached, handlers, received>>

\* alsaseq_user_client_schedule_event(), for a deliverable event: write(2)
\* takes the whole of it or fails.
ScheduleEvent(len) ==
    LET event == EventOf(posted + 1, len)
        room == Len(fifo) < FifoLen IN
    /\ posted < MaxEvents
    /\ \/ /\ call' = [ok |-> TRUE, list |-> 1, taken |-> 1, count |-> 1]
          /\ posted' = posted + 1
          /\ fifo' = IF room THEN Append(fifo, event) ELSE fifo
          /\ overflow' = (overflow \/ ~room)
       \/ /\ call' = [ok |-> FALSE, list |-> 1, taken |-> 0, count |-> 0]
          /\ UNCHANGED <<posted, fifo, overflow>>
    /\ UNCHANGED <<attached, handlers, received>>

\* How many events of the FIFO have room in the buffer, in the flat layout
\* that read(2) writes.
Fitting ==
    LET fit == {k \in 0..Len(fifo) :
                   Len(seq_event_cntr_serialize(SubSeq(fifo, 1, k), TRUE)) <= BufLen}
    IN  CHOOSE k \in fit : \A j \in fit : j <= k

(***************************************************************************)
(* seq_user_client_check_src() and seq_user_client_dispatch_src(), in an   *)
(* iteration of the main loop or of a handler.  The signal carries a copy  *)
(* of the container, so that the buffer is free again.                     *)
(***************************************************************************)
Dispatch ==
    /\ attached /\ Depth < MaxDepth
    /\ fifo # <<>>
    /\ \/ /\ overflow                  \* ENOSPC: G_SOURCE_REMOVE
          /\ attached' = FALSE
          /\ overflow' = FALSE
          /\ fifo' = <<>>
          /\ UNCHANGED handlers
       \/ /\ ~overflow /\ Fitting > 0
          /\ handlers' = Append(handlers,
                [buf |-> seq_event_cntr_serialize(SubSeq(fifo, 1, Fitting), TRUE),
                 offset |-> 0])
          /\ fifo' = SubSeq(fifo, Fitting + 1, Len(fifo))
          /\ UNCHANGED <<attached, overflow>>
       \/ /\ ~overflow /\ Fitting = 0  \* EAGAIN: G_SOURCE_CONTINUE
          /\ UNCHANGED <<attached, overflow, fifo, handlers>>
    /\ UNCHANGED <<posted, call, received>>

\* One turn of the loop of alsaseq_event_cntr_deserialize().
Deserialize ==
    /\ Depth > 0 /\ HasNext(Top.buf, Top.offset, TRUE)
    /\ received' = Append(received,
          [depth |-> Depth, copy |-> seq_event_copy(Top.buf, Top.offset)])
    /\ handlers' = [handlers EXCEPT ![Depth].offset = NextOffset(Top.buf, @, TRUE)]
    /\ UNCHANGED <<posted, call, fifo, overflow, attached>>

\* The loop ends, and the handler returns.
HandlerReturns ==
    /\ Depth > 0 /\ ~HasNext(Top.buf, Top.offset, TRUE)
    /\ handlers' = SubSeq(handlers, 1, Depth - 1)
    /\ UNCHANGED <<posted, call, fifo, overflow, attached, received>>

Next ==
    \/ \E lens \in Lists : ScheduleEvents(lens)
    \/ \E len \in Lens : ScheduleEvent(len)
    \/ Dispatch
    \/ Deserialize
    \/ HandlerReturns

\* The application runs its main loop, and its handlers return.
Spec ==
    /\ Init /\ [][Next]_vars
    /\ WF_vars(Depth = 0 /\ Dispatch)
    /\ WF_vars(Deserialize \/ HandlerReturns)
----------------------------------------------------------------------------
(***************************************************************************)
(* "The number of events to be scheduled": when schedule_events succeeds   *)
(* for a list that is not empty, its count is the number of events that    *)
(* the sequencer core took, also when write(2) took a part of the list;    *)
(* and it succeeds whenever an event was taken.                            *)
(***************************************************************************)
CountExact ==
    /\ call.ok /\ call.list > 0 => call.count = call.taken
    /\ call.taken > 0 => call.ok

(***************************************************************************)
(* A handler gets every event whole: what the serialization of the sender, *)
(* the layout of read(2) and the copy out of the container make of an      *)
(* event is the event, blob included, at any depth of nested iterations.   *)
(***************************************************************************)
ReceivedFaithful == \A i \in 1..Len(received) :
                        received[i].copy = Faithful(received[i].copy.event)

\* The number of the event of a copy.
Id(r) == r.copy.event.id

\* No event is handled twice, and handlers at the same depth of iterations
\* get their events in the order in which they were scheduled.
ReceivedInOrder ==
    \A i, j \in 1..Len(received) : i < j =>
        /\ Id(received[i]) # Id(received[j])
        /\ received[i].depth = received[j].depth => Id(received[i]) < Id(received[j])

(***************************************************************************)
(* "When event occurs, this signal is emit with the instance of object     *)
(* which includes batch of events": every event of the FIFO gets to a      *)
(* handler in the end, unless an overflow of the FIFO removes the source,  *)
(* or an event that is larger than the buffer gets to the head of it.      *)
(***************************************************************************)
EveryEventHandled ==
    \A n \in 1..MaxEvents :
        (\E i \in 1..Len(fifo) : fifo[i].id = n)
            ~> \/ \E i \in 1..Len(received) : Id(received[i]) = n
               \/ ~attached
               \/ fifo # <<>> /\ Fitting = 0
=============================================================================
