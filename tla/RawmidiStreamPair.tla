-------------------------- MODULE RawmidiStreamPair --------------------------
(***************************************************************************)
(* ALSARawmidiStreamPair (src/rawmidi/stream-pair.c): the object, its      *)
(* descriptor and devnode string, reads and writes, and its sources in one *)
(* main context.  An iteration of the context is a frame on a stack, since *)
(* a handler may iterate it again.                                         *)
(*                                                                         *)
(* External: a substream buffers the bytes that came in, up to InSize, and *)
(* drops more; it takes up to OutSize bytes, which leave over time.  Bytes *)
(* that come in are numbered; of the ones that go out, only the number     *)
(* matters.  Not modelled is an object that is opened again while it is    *)
(* open.                                                                   *)
(***************************************************************************)
EXTENDS Naturals, Sequences, FiniteSets, SequencesExt

CONSTANTS Sources, NoSource,
          InSize, OutSize,   \* room of the buffers of the kernel
          MaxBytes,          \* bound on the bytes that come in
          MaxWritten,        \* bound on the bytes that are written
          MaxFailed,         \* bound on the calls of open() that fail half way
          MaxDepth           \* bound on nested iterations

ASSUME RawmidiAssumption ==
    /\ NoSource \notin Sources /\ IsFiniteSet(Sources)
    /\ InSize \in Nat \ {0} /\ OutSize \in Nat \ {0}
    /\ MaxBytes \in Nat /\ MaxWritten \in Nat /\ MaxFailed \in Nat /\ MaxDepth \in Nat \ {0}

VARIABLES fd,          \* priv->fd: "none", or the access mode it was opened with
          nonblock,    \* O_NONBLOCK was given
          refs,        \* reference count of the object; zero when finalized
          owner,       \* the application holds a reference
          strings,     \* devnode strings that are allocated
          failed,      \* calls of open() that failed after open(2)
          src,         \* the sources: "none", "attached", "destroyed", "final"
          frames,      \* iterations of the context, the innermost last
          connected, inbuf, received,  \* the kernel: bytes waiting, bytes that came in
          outbuf, taken,               \* bytes not sent yet, bytes that it took
          got,         \* bytes that the application was handed
          cut,         \* a write(2) took a part of the bytes
          told,        \* bytes that write_to_substream() succeeded for
          waits        \* the application waits in read(2)

objVars == <<fd, nonblock, refs, owner, strings, failed>>
srcVars == <<src, frames>>
kernVars == <<connected, inbuf, received, outbuf, taken>>
appVars == <<got, cut, told, waits>>
vars == <<objVars, srcVars, kernVars, appVars>>

Init ==
    /\ fd = "none" /\ nonblock = FALSE /\ refs = 1 /\ owner = TRUE
    /\ strings = 0 /\ failed = 0
    /\ src = [s \in Sources |-> "none"] /\ frames = <<>>
    /\ connected = TRUE /\ inbuf = <<>> /\ received = 0 /\ outbuf = 0 /\ taken = 0
    /\ got = <<>> /\ cut = FALSE /\ told = 0 /\ waits = FALSE

Readable == fd \in {"RDONLY", "RDWR"}
Writable == fd \in {"WRONLY", "RDWR"}

Idle == [conds |-> [s \in Sources |-> {}], run |-> NoSource, signal |-> "none"]
Top == Last(frames)
WithTop(f) == [frames EXCEPT ![Len(frames)] = f]

\* Code of the application runs: outside of the context or in a handler.
InApp == ~waits /\ (frames # <<>> => Top.run # NoSource)
\* It has the object: by its reference, or as the argument of a signal.
HasObject == InApp /\ (owner \/ frames # <<>>)
----------------------------------------------------------------------------
(***************************************************************************)
(* alsarawmidi_stream_pair_open().  Nothing is left when open(2) or a step *)
(* before it fails; the string is kept when PVERSION does.                 *)
(***************************************************************************)
Open(mode, nb) ==
    /\ HasObject /\ fd = "none"
    /\ strings' = strings + 1
    /\ \/ connected /\ fd' = mode /\ nonblock' = nb /\ UNCHANGED failed
       \/ failed < MaxFailed /\ failed' = failed + 1 /\ UNCHANGED <<fd, nonblock>>
    /\ UNCHANGED <<refs, owner, srcVars, kernVars, appVars>>

\* rawmidi_stream_pair_finalize(), when n references are left.
Finalize(n) ==
    /\ fd' = IF n = 0 THEN "none" ELSE fd
    /\ strings' = IF n = 0 /\ fd # "none" THEN strings - 1 ELSE strings

\* g_object_unref() by the one or by several holders.
Unref(n) == refs' = refs - n /\ Finalize(refs - n)

UnrefFromOwner ==
    /\ InApp /\ owner
    /\ owner' = FALSE
    /\ Unref(1)
    /\ UNCHANGED <<nonblock, failed, srcVars, kernVars, appVars>>

\* Mutant of TakeRef: src->self is a borrowed reference.
TakeNoRef == UNCHANGED refs

TakeRef == refs' = refs + 1

\* The test of the access modes in create_source(): neither O_RDWR nor
\* O_WRONLY is UNREADABLE.
Refused == fd = "RDONLY"

\* alsarawmidi_stream_pair_create_source(), and the caller attaches it.
CreateSource(s) ==
    /\ HasObject /\ fd # "none" /\ src[s] = "none"
    /\ ~Refused
    /\ TakeRef
    /\ src' = [src EXCEPT ![s] = "attached"]
    /\ UNCHANGED <<fd, nonblock, owner, strings, failed, frames, kernVars, appVars>>

\* External: a source is finalized once it is destroyed and not dispatched.
Running(s, fs) == \E i \in 1..Len(fs) : fs[i].run = s

\* rawmidi_stream_pair_finalize_src(), of the sources that D destroys.
Destroy(D, fs) ==
    LET gone == {s \in Sources : (s \in D \/ src[s] = "destroyed") /\ ~Running(s, fs)} IN
    /\ src' = [s \in Sources |-> IF s \in gone THEN "final"
                                 ELSE IF s \in D THEN "destroyed" ELSE src[s]]
    /\ Unref(Cardinality(gone))

\* g_source_destroy() by the application.
DropSource(s) ==
    /\ InApp /\ src[s] = "attached"
    /\ Destroy({s}, frames)
    /\ UNCHANGED <<nonblock, owner, failed, frames, kernVars, appVars>>
----------------------------------------------------------------------------
\* External: poll(2) with G_IO_IN.
Poll == (IF Readable /\ inbuf # <<>> THEN {"IN"} ELSE {}) \cup (IF connected THEN {} ELSE {"ERR"})

\* Mutant of check_src: dispatched for an error only.
check_src_err(cond) == "ERR" \in cond

\* rawmidi_stream_pair_check_src()
check_src(cond) == cond \cap {"IN", "ERR"} # {}

\* A source that is found ready and is still attached when its turn comes.
Ready(f, s) == src[s] = "attached" /\ check_src(f.conds[s])

\* External: the context polls, outside of a handler or in one.
Iterate ==
    LET f == [Idle EXCEPT !.conds = [s \in Sources |-> IF src[s] = "attached" THEN Poll ELSE {}]]
    IN  /\ InApp /\ Len(frames) < MaxDepth
        /\ \E s \in Sources : Ready(f, s)
        /\ frames' = Append(frames, f)
        /\ UNCHANGED <<objVars, src, kernVars, appVars>>

\* Mutant of SignalFor: messages come first.
SignalForMessages(cond) == IF "IN" \in cond THEN "messages" ELSE "disconnection"

SignalFor(cond) == IF "ERR" \in cond THEN "disconnection" ELSE "messages"

\* rawmidi_stream_pair_dispatch_src() up to the handler.
Dispatch(s) ==
    LET signal == SignalFor(Top.conds[s]) IN
    /\ ~waits /\ frames # <<>> /\ Top.run = NoSource /\ Ready(Top, s)
    /\ frames' = WithTop([Top EXCEPT !.run = s, !.conds[s] = {}, !.signal = signal])
    /\ UNCHANGED <<objVars, src, kernVars, appVars>>

\* The handler returns: G_SOURCE_REMOVE after the disconnection.
DispatchReturns ==
    LET s == Top.run
        fs == WithTop([Top EXCEPT !.run = NoSource, !.signal = "none"]) IN
    /\ ~waits /\ frames # <<>> /\ s # NoSource
    /\ frames' = fs
    /\ Destroy(IF Top.signal = "disconnection" /\ src[s] = "attached" THEN {s} ELSE {}, fs)
    /\ UNCHANGED <<nonblock, owner, failed, kernVars, appVars>>

IterationEnds ==
    /\ frames # <<>> /\ Top.run = NoSource /\ \A s \in Sources : ~Ready(Top, s)
    /\ frames' = Front(frames)
    /\ UNCHANGED <<objVars, src, kernVars, appVars>>
----------------------------------------------------------------------------
\* Mutant of BufSize: *buf_size is left alone.
BufSizeKept(size, len) == size

\* *buf_size after a read(2) that read len bytes.
BufSize(size, len) == len

\* What the caller finds in the first n bytes of its buffer: zeroes behind the
\* bytes that were read.
Found(n, len) == [i \in 1..n |-> IF i <= len THEN inbuf[i] ELSE 0]

\* External: read(2) returns with bytes.
ReadBytes(size) ==
    LET len == IF size < Len(inbuf) THEN size ELSE Len(inbuf) IN
    /\ got' = got \o Found(BufSize(size, len), len)
    /\ inbuf' = SubSeq(inbuf, len + 1, Len(inbuf))

(***************************************************************************)
(* alsarawmidi_stream_pair_read_from_substream().  When it fails, which it *)
(* does for a disconnection and on a descriptor that is not readable, or,  *)
(* with O_NONBLOCK, when there is nothing, nothing changes.                *)
(***************************************************************************)
read_from_substream(size) ==
    /\ HasObject /\ Readable /\ connected
    /\ \/ inbuf # <<>> /\ ReadBytes(size) /\ UNCHANGED waits
       \/ /\ inbuf = <<>> /\ ~nonblock
          /\ waits' = TRUE
          /\ UNCHANGED <<got, inbuf>>
    /\ UNCHANGED <<objVars, srcVars, connected, received, outbuf, taken, cut, told>>

\* A read(2) that waited goes on, or fails since the card is gone.
ReadWakes(size) ==
    /\ waits
    /\ \/ connected /\ inbuf # <<>> /\ ReadBytes(size)
       \/ ~connected /\ UNCHANGED <<got, inbuf>>
    /\ waits' = FALSE
    /\ UNCHANGED <<objVars, srcVars, connected, received, outbuf, taken, cut, told>>

\* Mutant of WriteSucceeds: a failure is not seen.
WriteAlwaysSucceeds(len) == TRUE

\* The test of the length that write(2) returned.
WriteSucceeds(len) == len > 0

(***************************************************************************)
(* alsarawmidi_stream_pair_write_to_substream().  External: write(2) waits *)
(* for room for all of the bytes; with O_NONBLOCK it takes as many as      *)
(* there is room for, and fails, with len = 0 here, if there is none.      *)
(***************************************************************************)
write_to_substream(size) ==
    LET room == OutSize - outbuf
        len == IF size < room THEN size ELSE room IN
    /\ HasObject /\ Writable /\ connected /\ told + size <= MaxWritten
    /\ nonblock \/ len = size
    /\ outbuf' = outbuf + len
    /\ taken' = taken + len
    /\ cut' = (cut \/ len \in 1..size - 1)
    /\ told' = IF WriteSucceeds(len) THEN told + size ELSE told
    /\ UNCHANGED <<objVars, srcVars, connected, inbuf, received, got, waits>>

\* Drain and drop of the output, drain of the input, and set_substream_params(),
\* which drains: the buffer is empty after them.
ClearOutput ==
    /\ HasObject /\ Writable /\ connected
    /\ outbuf' = 0
    /\ UNCHANGED <<objVars, srcVars, connected, inbuf, received, taken, appVars>>
ClearInput ==
    /\ HasObject /\ Readable /\ connected
    /\ inbuf' = <<>>
    /\ UNCHANGED <<objVars, srcVars, connected, received, outbuf, taken, appVars>>
drain_substream == ClearOutput \/ ClearInput
drop_substream == ClearOutput
set_substream_params == ClearOutput \/ ClearInput

\* The device: a byte comes in, or is dropped; a byte goes out; it is removed.
Receive ==
    /\ connected /\ Readable /\ received < MaxBytes
    /\ received' = received + 1
    /\ inbuf' = IF Len(inbuf) < InSize THEN Append(inbuf, received + 1) ELSE inbuf
    /\ UNCHANGED <<objVars, srcVars, connected, outbuf, taken, appVars>>
Send ==
    /\ connected /\ outbuf > 0
    /\ outbuf' = outbuf - 1
    /\ UNCHANGED <<objVars, srcVars, connected, inbuf, received, taken, appVars>>
Disconnect ==
    /\ connected
    /\ connected' = FALSE
    /\ UNCHANGED <<objVars, srcVars, inbuf, received, outbuf, taken, appVars>>

Next ==
    \/ \E mode \in {"RDONLY", "WRONLY", "RDWR"}, nb \in BOOLEAN : Open(mode, nb)
    \/ UnrefFromOwner
    \/ \E s \in Sources : CreateSource(s) \/ DropSource(s) \/ Dispatch(s)
    \/ Iterate \/ DispatchReturns \/ IterationEnds
    \/ \E size \in 1..InSize + 1 : read_from_substream(size) \/ ReadWakes(size)
    \/ \E size \in 1..OutSize + 1 : write_to_substream(size)
    \/ drain_substream \/ drop_substream \/ set_substream_params
    \/ Receive \/ Send \/ Disconnect

\* The application runs its main loop, and its handlers return.
Spec ==
    /\ Init /\ [][Next]_vars
    /\ WF_vars(Iterate /\ frames = <<>>) /\ WF_vars(DispatchReturns) /\ WF_vars(IterationEnds)
    /\ \A s \in Sources : WF_vars(Dispatch(s))
    /\ \A size \in 1..InSize + 1 : WF_vars(ReadWakes(size))
----------------------------------------------------------------------------
Alive == refs > 0

(***************************************************************************)
(* The object is released once and whole.  It is not finalized under a     *)
(* source, under its dispatch, or under a handler, also when the handler   *)
(* drops the reference of the owner and the source, as the documentation   *)
(* of handle-disconnection asks for.  When it is gone, so is its           *)
(* descriptor and, but for each open() that failed after open(2)           *)
(* succeeded, its devnode string.                                          *)
(***************************************************************************)
ReleasedOnce ==
    /\ \A s \in Sources : src[s] = "attached" \/ Running(s, frames) => Alive /\ fd # "none"
    /\ waits => Alive
    /\ ~Alive => fd = "none" /\ strings = failed

(***************************************************************************)
(* Bytes that came in are handed out in order, none twice and none that    *)
(* did not come in; and those still in the buffer come later.              *)
(***************************************************************************)
ReadInOrder ==
    LET all == got \o inbuf IN
    /\ \A i \in 1..Len(all) : all[i] \in 1..received
    /\ \A i, j \in 1..Len(all) : i < j => all[i] < all[j]

\* What write_to_substream() succeeded for is what the device took, unless it
\* took a part of it, which happens with O_NONBLOCK only.
WrittenIsTaken == (told = taken \/ cut) /\ (cut => nonblock)

\* "When any input message is available, this event is emit": bytes that wait
\* while a source is attached are announced, or they are read or cleared, or
\* the source or the card goes.
Notified ==
    \A s \in Sources :
        src[s] = "attached" /\ inbuf # <<>> ~>
            \/ src[s] # "attached" \/ inbuf = <<>>
            \/ \E i \in 1..Len(frames) : frames[i].run = s

\* After a disconnection every source is removed.
EventuallyRemoved == \A s \in Sources : src[s] = "attached" /\ ~connected ~> src[s] # "attached"
=============================================================================
