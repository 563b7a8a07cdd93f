------------------------- MODULE TimerUserInstance -------------------------
(***************************************************************************)
(* ALSATimerUserInstance (src/timer/user-instance.c): an application that  *)
(* opens the timer device, chooses the type of events, attaches the        *)
(* instance and controls the timer, and the source that reads the events   *)
(* and emits one of two signals for each.                                  *)
(*                                                                         *)
(* The kernel writes records of one of two formats, which is a setting of  *)
(* the descriptor.  The source decodes the buffer by priv->event_type, the *)
(* library's memory of that setting, at the time of dispatch.              *)
(*                                                                         *)
(* External: what the ioctls do.  SELECT detaches the instance before it   *)
(* tries to attach it anew.  TREAD is refused for an attached instance,    *)
(* and drops queued records when it changes the format.  PARAMS stops the  *)
(* timer and drops queued records.                                         *)
(***************************************************************************)
EXTENDS Naturals, Sequences

CONSTANTS BufUnits,    \* size of the page of the source, in units
          RealUnits,   \* units of a real time record; one of tick time has one
          MaxEvents,   \* bound on the events of the timer
          QueueLen     \* records the kernel's queue has room for

ASSUME TimerAssumption ==
    /\ RealUnits \in Nat \ {0, 1}
    /\ BufUnits \in Nat /\ BufUnits >= RealUnits
    /\ MaxEvents \in Nat /\ QueueLen \in Nat \ {0}

VARIABLES fd,          \* is priv->fd a descriptor?
          event_type,  \* priv->event_type
          tread,       \* the format of the records of the descriptor
          timeri,      \* the timer instance of the descriptor, in the kernel
          kqueue,      \* records queued on the descriptor
          present,     \* the timer device is there
          posted,      \* events of the timer so far
          source,      \* the source: not made yet, in the main loop, or removed
          pc,          \* where its iteration is
          condition,   \* the condition that poll(2) found
          buf,         \* src->buf: the records in it
          as,          \* the type that the loop of dispatch decodes
          at,          \* position of that loop, in units
          emitted,     \* emissions: the type of the signal, the record
          announced    \* was handle-disconnection emitted?

vars == <<fd, event_type, tread, timeri, kqueue, present, posted, source, pc,
          condition, buf, as, at, emitted, announced>>
deviceVars == <<tread, timeri, kqueue>>
loopVars == <<source, pc, condition, buf, as, at, emitted, announced>>

EventTypes == {"TICK_TIME", "REAL_TIME"}
Units(type) == IF type = "TICK_TIME" THEN 1 ELSE RealUnits
Record == [type : EventTypes, n : 1..MaxEvents]

(***************************************************************************)
(* The application calls a method in the thread of the main loop: between  *)
(* two iterations, in the handler of another source between check and      *)
(* dispatch, or in a handler of this one, which dispatch calls.            *)
(***************************************************************************)
Calls == pc \in {"idle", "ready", "walk"}
----------------------------------------------------------------------------
Init ==
    /\ fd = FALSE
    /\ event_type = "TICK_TIME"
    /\ tread = "TICK_TIME" /\ timeri = "none" /\ kqueue = <<>>
    /\ present = TRUE /\ posted = 0
    /\ source = "none"
    /\ pc = "idle" /\ condition = {} /\ buf = <<>> /\ as = "TICK_TIME" /\ at = 0
    /\ emitted = <<>> /\ announced = FALSE

\* Mutant of OpenedType: the other default.
OpenedTypeReal == event_type' = "REAL_TIME"

\* priv->event_type is left as it is by open().
OpenedType == UNCHANGED event_type

(***************************************************************************)
(* alsatimer_user_instance_open(): open(2) or the PVERSION ioctl may fail, *)
(* and leave no descriptor; a fresh one has the format for tick time.  The *)
(* application does not open an instance that is open.                     *)
(***************************************************************************)
Open ==
    /\ Calls /\ ~fd
    /\ fd' \in BOOLEAN
    /\ tread' = "TICK_TIME" /\ timeri' = "none" /\ kqueue' = <<>>
    /\ OpenedType
    /\ UNCHANGED <<present, posted, loopVars>>

\* alsatimer_user_instance_choose_event_type(): EBUSY for an attached
\* instance; the queue is made anew for another format.
ChooseEventType(type) ==
    /\ Calls /\ fd
    /\ timeri = "none"
    /\ tread' = type
    /\ kqueue' = IF type = tread THEN kqueue ELSE <<>>
    /\ event_type' = type
    /\ UNCHANGED <<fd, timeri, present, posted, loopVars>>

(***************************************************************************)
(* alsatimer_user_instance_attach() and attach_as_slave(): the SELECT      *)
(* ioctl, which detaches the instance and then may fail.                   *)
(***************************************************************************)
Attach ==
    /\ Calls /\ fd
    /\ timeri' \in {"none"} \cup (IF present THEN {"stopped"} ELSE {})
    /\ UNCHANGED <<fd, event_type, tread, kqueue, present, posted, loopVars>>

\* alsatimer_user_instance_set_params()
SetParams ==
    /\ Calls /\ fd /\ timeri # "none"
    /\ timeri' = "stopped"
    /\ kqueue' = <<>>
    /\ UNCHANGED <<fd, event_type, tread, present, posted, loopVars>>

\* The START, STOP, PAUSE and CONTINUE ioctls move the timer; they fail with
\* EBADFD for an instance that is not attached.
Control(from, to) ==
    /\ Calls /\ fd
    /\ timeri \in from
    /\ timeri' = to
    /\ UNCHANGED <<fd, event_type, tread, kqueue, present, posted, loopVars>>

Start == Control({"stopped", "running", "paused"}, "running")
Stop == Control({"stopped", "running", "paused"}, "stopped")
Pause == Control({"running"}, "paused")
ContinueTimer == Control({"paused"}, "running")

\* The timer fires.
Fire ==
    /\ fd /\ present /\ timeri = "running"
    /\ posted < MaxEvents /\ Len(kqueue) < QueueLen
    /\ posted' = posted + 1
    /\ kqueue' = Append(kqueue, [type |-> tread, n |-> posted'])
    /\ UNCHANGED <<fd, event_type, tread, timeri, present, loopVars>>

\* The timer device goes away.
Disconnect ==
    /\ present /\ timeri # "none"
    /\ present' = FALSE
    /\ UNCHANGED <<fd, event_type, deviceVars, posted, loopVars>>

\* alsatimer_user_instance_create_source(), and the source is attached.
CreateSource ==
    /\ Calls /\ fd /\ source = "none"
    /\ source' = "polled"
    /\ UNCHANGED <<fd, event_type, deviceVars, present, posted, pc, condition, buf,
                   as, at, emitted, announced>>
----------------------------------------------------------------------------
\* External: what poll(2) finds.
Poll == (IF kqueue # <<>> THEN {"IN"} ELSE {}) \cup (IF present THEN {} ELSE {"ERR"})

\* Mutant of check_src: only an error is looked for.
check_src_err(cond) == "ERR" \in cond

\* timer_user_instance_check_src(): go on to dispatch for IN and for ERR.
check_src(cond) == cond \cap {"IN", "ERR"} # {}

\* An iteration of the main loop polls the source.
Check ==
    /\ source = "polled" /\ pc = "idle"
    /\ condition' = Poll
    /\ check_src(Poll)
    /\ pc' = "ready"
    /\ UNCHANGED <<fd, event_type, deviceVars, present, posted, source, buf, as, at,
                   emitted, announced>>

\* External: as many whole records as the buffer has room for.
RecordsRead ==
    LET room == BufUnits \div Units(tread) IN
    IF Len(kqueue) < room THEN Len(kqueue) ELSE room

\* External: blocking descriptors wait, or are told of the disconnection.
ReadErrors == {"EAGAIN"} \cup (IF present THEN {} ELSE {"ENODEV"})

(***************************************************************************)
(* timer_user_instance_dispatch_src() up to the switch: the disconnection  *)
(* is announced and the source removed; EAGAIN keeps the source, any other *)
(* error of read(2) removes it.                                            *)
(***************************************************************************)
Dispatch ==
    /\ pc = "ready"
    /\ \/ /\ "ERR" \in condition
          /\ announced' = TRUE
          /\ source' = "removed" /\ pc' = "idle"
          /\ UNCHANGED <<buf, kqueue>>
       \/ /\ "ERR" \notin condition /\ kqueue = <<>>
          /\ \E errno \in ReadErrors :
                source' = IF errno = "EAGAIN" THEN source ELSE "removed"
          /\ pc' = "idle"
          /\ UNCHANGED <<announced, buf, kqueue>>
       \/ /\ "ERR" \notin condition /\ kqueue # <<>>
          /\ buf' = SubSeq(kqueue, 1, RecordsRead)
          /\ kqueue' = SubSeq(kqueue, RecordsRead + 1, Len(kqueue))
          /\ pc' = "switch"
          /\ UNCHANGED <<source, announced>>
    /\ UNCHANGED <<fd, event_type, tread, timeri, present, posted, condition, as, at,
                   emitted>>

\* switch (priv->event_type)
Switch ==
    /\ pc = "switch"
    /\ as' = event_type
    /\ at' = 0
    /\ pc' = "walk"
    /\ UNCHANGED <<fd, event_type, deviceVars, present, posted, source, condition,
                   buf, emitted, announced>>

\* The length that read(2) returned, in units.
Length == Len(buf) * Units(buf[1].type)

\* Mutant of MoreRecords: the last record is left out.
MoreRecordsStrict == Length - at > Units(as)

\* The condition of the loops: length >= sizeof(*ev).
MoreRecords == Length - at >= Units(as)

\* Mutant of Advanced: not by the size of the record.
AdvancedUnit == at + 1

\* buf += sizeof(*ev)
Advanced == at + Units(as)

\* One turn of dispatch_tick_time_events() or dispatch_real_time_events().
Emit ==
    /\ pc = "walk" /\ MoreRecords
    /\ emitted' = Append(emitted,
          [signal |-> as, record |-> buf[at \div Units(buf[1].type) + 1]])
    /\ at' = Advanced
    /\ UNCHANGED <<fd, event_type, deviceVars, present, posted, source, pc, condition,
                   buf, as, announced>>

DispatchContinues ==
    /\ pc = "walk" /\ ~MoreRecords
    /\ pc' = "idle"
    /\ UNCHANGED <<fd, event_type, deviceVars, present, posted, source, condition,
                   buf, as, at, emitted, announced>>

Step == Check \/ Dispatch \/ Switch \/ Emit \/ DispatchContinues

Next ==
    \/ Open
    \/ \E type \in EventTypes : ChooseEventType(type)
    \/ Attach \/ SetParams
    \/ Start \/ Stop \/ Pause \/ ContinueTimer
    \/ CreateSource
    \/ Fire \/ Disconnect
    \/ Step

\* The main loop runs, and handlers return.
Spec == Init /\ [][Next]_vars /\ WF_vars(Step)
----------------------------------------------------------------------------
(***************************************************************************)
(* "When the former is configured, event for tick time is available for    *)
(* handle_tick_time_event. When the latter is configured, event for real   *)
(* time is available for handle_real_time_event": every record is decoded  *)
(* in the format that the kernel wrote it in.                              *)
(***************************************************************************)
DecodedAsWritten ==
    \A i \in 1..Len(emitted) : emitted[i].signal = emitted[i].record.type

(***************************************************************************)
(* Events are emitted in the order in which the timer fired, none of them  *)
(* twice, also when the application attaches the instance anew or changes  *)
(* the type from a handler.                                                *)
(***************************************************************************)
EmittedInOrder ==
    \A i, j \in 1..Len(emitted) : i < j => emitted[i].record.n < emitted[j].record.n

\* A record that was read is emitted before the source reads again: no
\* record gets lost between read(2) and the signals.
NoneSkipped ==
    [][pc = "walk" /\ pc' = "idle" =>
          \E i \in 1..Len(emitted) : emitted[i].record = buf[Len(buf)]]_vars

\* What is queued is read in the end, unless the source is removed.
QueueDrained ==
    (source = "polled" /\ kqueue # <<>>) ~> (kqueue = <<>> \/ source = "removed")
=============================================================================
