---------------------------- MODULE EventProofs -----------------------------
(***************************************************************************)
(* Proofs about events: the fields of an event of the sequencer, and the   *)
(* records a timer instance reads and emits.                               *)
(***************************************************************************)
EXTENDS SeqEvent, TimerUserInstance, Integers, FiniteSetTheorems, SequenceTheorems, TLAPS

(***************************************************************************)
(* SeqEvent, for any number of events, blocks and types, and blobs of any  *)
(* bounded length.                                                         *)
(***************************************************************************)

(***************************************************************************)
(* What every setter and constructor of src/seq/event.c leaves behind in   *)
(* one structure: the mode of length agrees with what is in the union, the *)
(* type admits it, and only a blob with bytes has a block.                 *)
(***************************************************************************)
EventSound(r) ==
    /\ r \in Event
    /\ r.mode = "VARIABLE" <=> r.kind = "BLOB"
    /\ r.mode = "VARUSR" <=> r.kind = "POINTER"
    /\ r.kind # "ZERO" => r.kind \in seq_event_data_flags(r.type)
    /\ r.ptr # NoBlock <=> r.len > 0
    /\ r.ptr # NoBlock => r.mode = "VARIABLE"

\* The events and the blocks belong together, one to one, in length and, for
\* the events whose blob is known, in content.
EventsSound ==
    /\ Live \subseteq Events
    /\ \A e \in Live : EventSound(ev[e])

HeapSound ==
    /\ DOMAIN heap \subseteq Blocks
    /\ \A e \in Live : ev[e].ptr # NoBlock =>
          ev[e].ptr \in DOMAIN heap /\ Len(heap[ev[e].ptr]) = ev[e].len
    /\ \A e, f \in Live : ev[e].ptr # NoBlock /\ ev[e].ptr = ev[f].ptr => e = f
    /\ \A p \in DOMAIN heap : \E e \in Live : ev[e].ptr = p

MeantSound ==
    /\ DOMAIN meant \subseteq Live
    /\ \A e \in DOMAIN meant : ev[e].ptr # NoBlock => heap[ev[e].ptr] = meant[e]

\* The inductive invariant.
EventInv == EventsSound /\ HeapSound /\ MeantSound
----------------------------------------------------------------------------
\* A blob is a sequence of bytes of bounded length, and there is an empty one.
LEMMA BlobLength ==
    /\ \A b \in Blobs : Len(b) \in 0..MaxLen /\ (b = <<>> <=> Len(b) = 0)
    /\ <<>> \in Blobs
<1>1. ASSUME NEW b \in Blobs PROVE Len(b) \in 0..MaxLen /\ (b = <<>> <=> Len(b) = 0)
  <2>1. PICK n \in 0..MaxLen : b \in [1..n -> Bytes]
    BY DEF Blobs
  <2>2. n \in Nat /\ b \in Seq(Bytes)
    BY <2>1, SeqEventAssumption
  <2>3. Len(b) = n
    BY <2>1, <2>2, LenProperties
  <2>4. QED
    BY <2>1, <2>2, <2>3, EmptySeq
<1>2. <<>> \in [1..0 -> Bytes]
  OBVIOUS
<1>3. 0 \in 0..MaxLen
  BY SeqEventAssumption
<1>4. QED
  BY <1>1, <1>2, <1>3 DEF Blobs

\* free_blob_data() takes the block of the event, if it has one, off the heap.
LEMMA Freed ==
    ASSUME EventInv, NEW e \in Live
    PROVE  LET h == free_blob_data(ev[e], heap) IN
           /\ DOMAIN h = DOMAIN heap \ {ev[e].ptr}
           /\ \A p \in DOMAIN h : h[p] = heap[p]
<1>1. CASE ev[e].ptr = NoBlock
  <2>1. NoBlock \notin DOMAIN heap
    BY SeqEventAssumption DEF EventInv, HeapSound
  <2>2. QED
    BY <1>1, <2>1 DEF free_blob_data
<1>2. CASE ev[e].ptr # NoBlock
  <2>1. ev[e].mode = "VARIABLE"
    BY <1>2 DEF EventInv, EventsSound, EventSound
  <2>2. QED
    BY <1>2, <2>1 DEF free_blob_data, Without
<1>3. QED
  BY <1>1, <1>2

(***************************************************************************)
(* What every operation that writes an event does: it puts a sound         *)
(* structure r in a place e, old or new, whose former block was freed,     *)
(* which leaves the heap h, with a fresh block for its blob b.             *)
(***************************************************************************)
Places(e, r, h, b) ==
    /\ EventSound(r)
    /\ DOMAIN h = IF e \in Live THEN DOMAIN heap \ {ev[e].ptr} ELSE DOMAIN heap
    /\ \A p \in DOMAIN h : h[p] = heap[p]
    /\ Malloc(b, r.ptr, h) /\ Len(b) = r.len /\ heap' = Store(h, r.ptr, b)
    /\ DOMAIN ev' = Live \cup {e} /\ ev'[e] = r
    /\ \A f \in Live \ {e} : ev'[f] = ev[f]
    /\ \/ meant' = Set(meant, e, b)
       \/ meant' = meant /\ e \notin DOMAIN meant

LEMMA Placed ==
    ASSUME EventInv, NEW e \in Events, NEW r, NEW h, NEW b \in Blobs, Places(e, r, h, b)
    PROVE  EventInv'
<1> USE DEF Places
<1>1. r.ptr # NoBlock <=> b # <<>>
  BY BlobLength, SeqEventAssumption DEF EventSound, Event
<1>2. /\ r.ptr # NoBlock => r.ptr \in Blocks \ DOMAIN h
      /\ DOMAIN heap' = IF r.ptr # NoBlock THEN DOMAIN h \cup {r.ptr} ELSE DOMAIN h
      /\ \A p \in DOMAIN h : heap'[p] = heap[p]
      /\ r.ptr # NoBlock => heap'[r.ptr] = b
  BY <1>1, SeqEventAssumption DEF Malloc, Store, Set
<1>3. EventsSound'
  BY DEF EventInv, EventsSound, Live
\* The blocks of the other events stay.
<1>4. ASSUME NEW f \in Live \ {e}, ev[f].ptr # NoBlock
      PROVE  ev[f].ptr \in DOMAIN h
  BY <1>4 DEF EventInv, HeapSound
<1>5. HeapSound'
  <2>1. DOMAIN heap' \subseteq Blocks
    BY <1>2 DEF EventInv, HeapSound
  <2>2. ASSUME NEW f \in Live', ev'[f].ptr # NoBlock
        PROVE  ev'[f].ptr \in DOMAIN heap' /\ Len(heap'[ev'[f].ptr]) = ev'[f].len
    <3>1. CASE f = e
      BY <3>1, <2>2, <1>2
    <3>2. CASE f # e
      BY <3>2, <2>2, <1>2, <1>4 DEF EventInv, HeapSound, Live
    <3>3. QED
      BY <3>1, <3>2
  <2>3. ASSUME NEW f \in Live', NEW g \in Live', ev'[f].ptr # NoBlock, ev'[f].ptr = ev'[g].ptr
        PROVE  f = g
    <3>1. CASE f # e /\ g # e
      BY <3>1, <2>3 DEF EventInv, HeapSound, Live
    <3>2. CASE f = e /\ g # e
      BY <3>2, <2>3, <1>2, <1>4 DEF Live
    <3>3. CASE f # e /\ g = e
      BY <3>3, <2>3, <1>2, <1>4 DEF Live
    <3>4. QED
      BY <3>1, <3>2, <3>3
  <2>4. ASSUME NEW p \in DOMAIN heap' PROVE \E f \in Live' : ev'[f].ptr = p
    <3>1. CASE p \in DOMAIN h
      <4>1. PICK f \in Live : ev[f].ptr = p
        BY <3>1 DEF EventInv, HeapSound
      <4>2. f # e
        BY <4>1, <3>1
      <4>3. QED
        BY <4>1, <4>2 DEF Live
    <3>2. CASE p \notin DOMAIN h
      BY <3>2, <1>2 DEF Live
    <3>3. QED
      BY <3>1, <3>2
  <2>5. QED
    BY <2>1, <2>2, <2>3, <2>4 DEF HeapSound
<1>6. MeantSound'
  <2>1. /\ DOMAIN meant' \subseteq DOMAIN meant \cup {e}
        /\ e \in DOMAIN meant' => meant'[e] = b
        /\ \A f \in DOMAIN meant' \ {e} : f \in DOMAIN meant /\ meant'[f] = meant[f]
    BY DEF Set
  <2>2. DOMAIN meant' \subseteq Live'
    BY <2>1 DEF EventInv, MeantSound, Live
  <2>3. ASSUME NEW f \in DOMAIN meant', ev'[f].ptr # NoBlock
        PROVE  heap'[ev'[f].ptr] = meant'[f]
    <3>1. CASE f = e
      BY <3>1, <2>1, <2>3, <1>2
    <3>2. CASE f # e
      <4>1. f \in DOMAIN meant /\ f \in Live \ {e} /\ ev'[f] = ev[f] /\ meant'[f] = meant[f]
        BY <3>2, <2>1 DEF EventInv, MeantSound
      <4>2. QED
        BY <4>1, <2>3, <1>2, <1>4 DEF EventInv, MeantSound
    <3>3. QED
      BY <3>1, <3>2
  <2>4. QED
    BY <2>2, <2>3 DEF MeantSound
<1>7. QED
  BY <1>3, <1>5, <1>6 DEF EventInv
----------------------------------------------------------------------------
\* The structures that the operations put in place are sound.
LEMMA ClearedFields ==
    ASSUME NEW r \in Event
    PROVE  /\ Cleared(r) \in Event
           /\ Cleared(r).type = r.type /\ Cleared(r).kind = "ZERO"
           /\ Cleared(r).ptr = NoBlock /\ Cleared(r).len = 0
<1>1. "ZERO" \in ANY \cup {"ZERO"} /\ NoBlock \in Blocks \cup {NoBlock} /\ 0 \in 0..MaxLen
  BY SeqEventAssumption
<1>2. QED
  BY <1>1 DEF Cleared, Event

LEMMA FixedSound ==
    ASSUME NEW r, EventSound(r), NEW flag \in FIXED_ANY, validate_event_type(r, flag)
    PROVE  LET s == [ensure_fixed_length_event(r) EXCEPT !.kind = flag] IN
           EventSound(s) /\ s.ptr = NoBlock /\ s.len = 0
<1> DEFINE c == Cleared(r)
           s == [[c EXCEPT !.mode = "FIXED"] EXCEPT !.kind = flag]
<1>1. r \in Event /\ flag \in seq_event_data_flags(r.type)
  BY DEF EventSound, validate_event_type
<1>2. /\ "FIXED" \in Modes /\ flag \in ANY /\ flag \notin {"BLOB", "POINTER"}
  BY DEF Modes, ANY, FIXED_ANY
<1>3. /\ s \in Event /\ s.type = r.type /\ s.mode = "FIXED" /\ s.kind = flag
      /\ s.ptr = NoBlock /\ s.len = 0
  <2>1. c \in Event /\ c.type = r.type /\ c.ptr = NoBlock /\ c.len = 0
    BY <1>1, ClearedFields
  <2> HIDE DEF c
  <2>2. QED
    BY <1>2, <2>1 DEF Event
<1>4. [ensure_fixed_length_event(r) EXCEPT !.kind = flag] = s
  BY DEF ensure_fixed_length_event
<1> HIDE DEF s
<1>5. EventSound(s)
  BY <1>1, <1>2, <1>3 DEF EventSound
<1>6. QED
  BY <1>3, <1>4, <1>5

LEMMA PointerSound ==
    ASSUME NEW r, EventSound(r), validate_event_type(r, "POINTER")
    PROVE  LET s == [ensure_pointer_length_event(r) EXCEPT !.kind = "POINTER"] IN
           EventSound(s) /\ s.ptr = NoBlock /\ s.len = 0
<1> DEFINE c == Cleared(r)
           s == [[c EXCEPT !.mode = "VARUSR"] EXCEPT !.kind = "POINTER"]
<1>1. r \in Event /\ "POINTER" \in seq_event_data_flags(r.type)
  BY DEF EventSound, validate_event_type
<1>2. "VARUSR" \in Modes /\ "POINTER" \in ANY
  BY DEF Modes, ANY, VARUSR_ANY
<1>3. /\ s \in Event /\ s.type = r.type /\ s.mode = "VARUSR" /\ s.kind = "POINTER"
      /\ s.ptr = NoBlock /\ s.len = 0
  <2>1. c \in Event /\ c.type = r.type /\ c.ptr = NoBlock /\ c.len = 0
    BY <1>1, ClearedFields
  <2> HIDE DEF c
  <2>2. QED
    BY <1>2, <2>1 DEF Event
<1>4. [ensure_pointer_length_event(r) EXCEPT !.kind = "POINTER"] = s
  BY DEF ensure_pointer_length_event
<1> HIDE DEF s
<1>5. EventSound(s)
  BY <1>1, <1>3 DEF EventSound
<1>6. QED
  BY <1>3, <1>4, <1>5

LEMMA VariableSound ==
    ASSUME NEW r, EventSound(r), validate_event_type(r, "BLOB"),
           NEW p \in Blocks \cup {NoBlock}, NEW n \in 0..MaxLen, p # NoBlock <=> n > 0
    PROVE  LET s == ensure_variable_length_event(r, p, n) IN
           EventSound(s) /\ s.ptr = p /\ s.len = n
<1> DEFINE c == Cleared(r)
           s == [c EXCEPT !.mode = "VARIABLE", !.kind = "BLOB", !.ptr = p, !.len = n]
<1>1. r \in Event /\ "BLOB" \in seq_event_data_flags(r.type)
  BY DEF EventSound, validate_event_type
<1>2. "VARIABLE" \in Modes /\ "BLOB" \in ANY \cup {"ZERO"}
  BY DEF Modes, ANY, VARIABLE_ANY
<1>3. c \in Event /\ c.type = r.type
  BY <1>1, ClearedFields
<1>4. /\ s \in Event /\ s.type = r.type /\ s.mode = "VARIABLE" /\ s.kind = "BLOB"
      /\ s.ptr = p /\ s.len = n
  <2> HIDE DEF c
  <2>1. QED
    BY <1>2, <1>3 DEF Event
<1>5. ensure_variable_length_event(r, p, n) = s
  BY DEF ensure_variable_length_event
<1> HIDE DEF s
<1>6. EventSound(s)
  BY <1>1, <1>4 DEF EventSound
<1>7. QED
  BY <1>4, <1>5, <1>6

LEMMA CopySound ==
    ASSUME NEW r \in Event, r.mode = "VARIABLE" <=> r.kind = "BLOB",
           r.mode = "VARUSR" <=> r.kind = "POINTER",
           r.kind # "ZERO" => r.kind \in seq_event_data_flags(r.type),
           r.mode # "VARIABLE" => r.ptr = NoBlock /\ r.len = 0,
           NEW p \in Blocks \cup {NoBlock}, p # NoBlock <=> r.len > 0
    PROVE  /\ EventSound(seq_event_copy(r, p))
           /\ seq_event_copy(r, p).ptr = p
           /\ seq_event_copy(r, p).len = r.len
BY SeqEventAssumption DEF EventSound, Event, seq_event_copy
----------------------------------------------------------------------------
\* A setter that leaves no blob frees the one that was there.
LEMMA Unblobbed ==
    ASSUME EventInv, NEW e \in Live, NEW r, EventSound(r), r.ptr = NoBlock, r.len = 0,
           heap' = free_blob_data(ev[e], heap), ev' = [ev EXCEPT ![e] = r],
           meant' = Set(meant, e, <<>>)
    PROVE  EventInv'
<1> DEFINE h == free_blob_data(ev[e], heap)
<1>1. e \in Events /\ <<>> \in Blobs
  BY BlobLength DEF EventInv, EventsSound
<1>2. Malloc(<<>>, r.ptr, h) /\ heap' = Store(h, r.ptr, <<>>) /\ Len(<<>>) = r.len
  BY DEF Malloc, Store
<1>3. DOMAIN ev' = Live \cup {e} /\ ev'[e] = r /\ \A f \in Live \ {e} : ev'[f] = ev[f]
  BY DEF Live
<1>4. DOMAIN h = DOMAIN heap \ {ev[e].ptr} /\ \A p \in DOMAIN h : h[p] = heap[p]
  BY Freed
<1> HIDE DEF h
<1>5. Places(e, r, h, <<>>)
  BY <1>2, <1>3, <1>4 DEF Places
<1>6. QED
  BY <1>1, <1>5, Placed

\* A setter of data of fixed length.
LEMMA SetFixedInductive ==
    ASSUME EventInv, NEW e \in Live, NEW flag \in FIXED_ANY, SetFixedData(e, flag)
    PROVE  EventInv'
<1> DEFINE r == [ensure_fixed_length_event(ev[e]) EXCEPT !.kind = flag]
<1>1. EventSound(ev[e]) /\ validate_event_type(ev[e], flag)
  BY DEF EventInv, EventsSound, SetFixedData
<1>2. EventSound(r) /\ r.ptr = NoBlock /\ r.len = 0
  BY <1>1, FixedSound
<1>3. /\ heap' = free_blob_data(ev[e], heap) /\ ev' = [ev EXCEPT ![e] = r]
      /\ meant' = Set(meant, e, <<>>)
  BY DEF SetFixedData, SetFixed
<1> HIDE DEF r
<1>4. QED
  BY <1>2, <1>3, Unblobbed

LEMMA SetPointerInductive ==
    ASSUME EventInv, NEW e \in Live, set_pointer_data(e)
    PROVE  EventInv'
<1> DEFINE r == [ensure_pointer_length_event(ev[e]) EXCEPT !.kind = "POINTER"]
<1>1. EventSound(ev[e]) /\ validate_event_type(ev[e], "POINTER")
  BY DEF EventInv, EventsSound, set_pointer_data
<1>2. EventSound(r) /\ r.ptr = NoBlock /\ r.len = 0
  BY <1>1, PointerSound
<1>3. /\ heap' = free_blob_data(ev[e], heap) /\ ev' = [ev EXCEPT ![e] = r]
      /\ meant' = Set(meant, e, <<>>)
  BY DEF set_pointer_data
<1> HIDE DEF r
<1>4. QED
  BY <1>2, <1>3, Unblobbed

LEMMA SetBlobInductive ==
    ASSUME EventInv, NEW e \in Live, NEW b \in Blobs, set_blob_data(e, b)
    PROVE  EventInv'
<1> DEFINE h == free_blob_data(ev[e], heap)
<1>1. e \in Events /\ EventSound(ev[e]) /\ validate_event_type(ev[e], "BLOB")
  BY DEF EventInv, EventsSound, set_blob_data
<1>2. PICK p \in Blocks \cup {NoBlock} :
         /\ Malloc(b, p, h)
         /\ heap' = Store(h, p, b)
         /\ ev' = [ev EXCEPT ![e] = ensure_variable_length_event(ev[e], p, Len(b))]
  BY DEF set_blob_data
<1> DEFINE r == ensure_variable_length_event(ev[e], p, Len(b))
<1>3. p # NoBlock <=> Len(b) > 0
  BY <1>2, BlobLength, SeqEventAssumption DEF Malloc
<1>4. EventSound(r) /\ r.ptr = p /\ r.len = Len(b)
  BY <1>1, <1>3, VariableSound, BlobLength
<1>5. /\ meant' = Set(meant, e, b)
      /\ DOMAIN ev' = Live \cup {e} /\ ev'[e] = r /\ \A f \in Live \ {e} : ev'[f] = ev[f]
  BY <1>2 DEF set_blob_data, Live
<1>6. DOMAIN h = DOMAIN heap \ {ev[e].ptr} /\ \A q \in DOMAIN h : h[q] = heap[q]
  BY Freed
<1> HIDE DEF r, h
<1>7. Places(e, r, h, b)
  BY <1>2, <1>4, <1>5, <1>6 DEF Places
<1>8. QED
  BY <1>1, <1>7, Placed
----------------------------------------------------------------------------
\* A new event, or the copy of one, in a place of its own.
LEMMA NewInductive ==
    ASSUME EventInv, NEW e \in Events, NEW t \in Types, New(e, t)
    PROVE  EventInv'
<1> DEFINE r == [type |-> t, mode |-> "FIXED", tstamp |-> "TICK", queue |-> 0,
                 kind |-> "ZERO", ptr |-> NoBlock, len |-> 0]
<1>1. r \in Event
  BY SeqEventAssumption DEF Event, Modes
<1>2. EventSound(r) /\ r.ptr = NoBlock /\ r.len = 0
  BY <1>1 DEF EventSound
<1>3. e \notin Live /\ ev' = Set(ev, e, r) /\ heap' = heap /\ meant' = Set(meant, e, <<>>)
  BY DEF New
<1> HIDE DEF r
<1>4. Malloc(<<>>, r.ptr, heap) /\ heap' = Store(heap, r.ptr, <<>>) /\ Len(<<>>) = r.len
  BY <1>2, <1>3 DEF Malloc, Store
<1>5. DOMAIN ev' = Live \cup {e} /\ ev'[e] = r /\ \A f \in Live \ {e} : ev'[f] = ev[f]
  BY <1>3 DEF Set, Live
<1>6. Places(e, r, heap, <<>>)
  BY <1>2, <1>3, <1>4, <1>5 DEF Places
<1>7. QED
  BY <1>6, Placed, BlobLength

LEMMA CopyToInductive ==
    ASSUME EventInv, NEW c \in Events, c \notin Live, NEW b \in Blobs,
           NEW r \in Event, r.mode = "VARIABLE" <=> r.kind = "BLOB",
           r.mode = "VARUSR" <=> r.kind = "POINTER",
           r.kind # "ZERO" => r.kind \in seq_event_data_flags(r.type),
           r.mode # "VARIABLE" => r.ptr = NoBlock, Len(b) = r.len,
           r.mode # "VARIABLE" => b = <<>>, CopyTo(c, r, b),
           meant' = Set(meant, c, b) \/ meant' = meant
    PROVE  EventInv'
<1>1. PICK p \in Blocks \cup {NoBlock} :
         /\ Malloc(b, p, heap)
         /\ heap' = Store(heap, p, b)
         /\ ev' = Set(ev, c, seq_event_copy(r, p))
  BY DEF CopyTo
<1> DEFINE s == seq_event_copy(r, p)
<1>2. p # NoBlock <=> r.len > 0
  BY <1>1, BlobLength, SeqEventAssumption DEF Malloc
<1>3. EventSound(s) /\ s.ptr = p /\ s.len = Len(b)
  BY <1>2, CopySound, BlobLength
<1>4. DOMAIN ev' = Live \cup {c} /\ ev'[c] = s /\ \A f \in Live \ {c} : ev'[f] = ev[f]
  BY <1>1 DEF Set, Live
<1>5. c \notin DOMAIN meant
  BY DEF EventInv, MeantSound
<1> HIDE DEF s
<1>6. Places(c, s, heap, b)
  BY <1>1, <1>3, <1>4, <1>5 DEF Places
<1>7. QED
  BY <1>6, Placed

LEMMA CopyInductive ==
    ASSUME EventInv, NEW e \in Live, NEW c \in Events, Copy(e, c)
    PROVE  EventInv'
<1> DEFINE r == ev[e]
<1>1. EventSound(r)
  BY DEF EventInv, EventsSound
<1>2. PICK b \in Blobs : /\ Len(b) = IF r.mode = "VARIABLE" THEN r.len ELSE 0
                        /\ CopyTo(c, r, b)
  BY DEF Copy
<1>3. c \notin Live /\ meant' = IF r.mode = "VARIABLE" THEN meant ELSE Set(meant, c, <<>>)
  BY DEF Copy
<1>4. r.mode # "VARIABLE" => r.ptr = NoBlock /\ r.len = 0 /\ b = <<>>
  <2>1. r.len \in Nat
    BY <1>1, SeqEventAssumption DEF EventSound, Event
  <2>2. r.mode # "VARIABLE" => r.ptr = NoBlock /\ ~(r.len > 0)
    BY <1>1 DEF EventSound
  <2>3. QED
    BY <1>2, <2>1, <2>2, BlobLength
<1>5. Len(b) = r.len /\ (meant' = Set(meant, c, b) \/ meant' = meant)
  BY <1>2, <1>3, <1>4
<1>6. QED
  BY <1>1, <1>2, <1>3, <1>4, <1>5, CopyToInductive DEF EventSound

\* The types of variable length are those that admit a blob and nothing of
\* fixed length.
LEMMA BlobTypes ==
    ASSUME NEW t \in 130..149
    PROVE  "BLOB" \in seq_event_data_flags(t)
<1>1. CASE t \in 130..134
  BY <1>1 DEF seq_event_data_flags
<1>2. CASE t \in 135..139
  BY <1>2 DEF seq_event_data_flags, VARIABLE_ANY
<1>3. CASE t \in 140..149
  BY <1>3 DEF seq_event_data_flags, VARIABLE_ANY
<1>4. QED
  BY <1>1, <1>2, <1>3

LEMMA ReceiveInductive ==
    ASSUME EventInv, NEW c \in Events, NEW t \in Types, NEW ts \in {"TICK", "REAL"},
           NEW b \in Blobs, Receive(c, t, ts, b)
    PROVE  EventInv'
<1> DEFINE blob == t \in 130..149
           kinds == IF blob THEN {"BLOB"}
                    ELSE (seq_event_data_flags(t) \cap FIXED_ANY) \cup {"ZERO"}
           r(k) == [type |-> t, mode |-> IF blob THEN "VARIABLE" ELSE "FIXED",
                    tstamp |-> ts, queue |-> DIRECT, kind |-> k,
                    ptr |-> NoBlock, len |-> Len(b)]
<1>1. /\ c \notin Live /\ (blob \/ b = <<>>) /\ meant' = Set(meant, c, b)
      /\ \E k \in kinds : CopyTo(c, r(k), b)
  BY DEF Receive
<1>2. PICK k \in kinds : CopyTo(c, r(k), b)
  BY <1>1
<1>3. /\ k \in ANY \cup {"ZERO"} /\ (blob <=> k = "BLOB")
      /\ k # "POINTER" /\ (k # "ZERO" => k \in seq_event_data_flags(t))
  <2>1. CASE blob
    BY <2>1, <1>2, BlobTypes DEF ANY, VARIABLE_ANY
  <2>2. CASE ~blob
    BY <2>2, <1>2 DEF ANY, FIXED_ANY
  <2>3. QED
    BY <2>1, <2>2
<1> HIDE DEF kinds, blob
<1>4. Len(b) \in 0..MaxLen /\ (IF blob THEN "VARIABLE" ELSE "FIXED") \in Modes
  BY BlobLength DEF Modes
<1>5. /\ r(k) \in Event /\ r(k).type = t /\ r(k).kind = k /\ r(k).ptr = NoBlock
      /\ r(k).len = Len(b) /\ r(k).mode = IF blob THEN "VARIABLE" ELSE "FIXED"
  BY <1>3, <1>4 DEF Event
<1> HIDE DEF r
<1>6. QED
  BY <1>1, <1>2, <1>3, <1>5, CopyToInductive

\* seq_event_free() frees what the event alone has.
LEMMA FreeInductive ==
    ASSUME EventInv, NEW e \in Live, Free(e)
    PROVE  EventInv'
<1> DEFINE h == free_blob_data(ev[e], heap)
<1>1. DOMAIN h = DOMAIN heap \ {ev[e].ptr} /\ \A p \in DOMAIN h : h[p] = heap[p]
  BY Freed
<1>2. /\ heap' = h
      /\ Live' = Live \ {e} /\ \A f \in Live' : ev'[f] = ev[f]
      /\ DOMAIN meant' = DOMAIN meant \ {e} /\ \A f \in DOMAIN meant' : meant'[f] = meant[f]
  BY DEF Free, Without, Live
<1> HIDE DEF h
<1>3. EventsSound'
  BY <1>2 DEF EventInv, EventsSound
<1>4. ASSUME NEW f \in Live', ev'[f].ptr # NoBlock
      PROVE  ev'[f].ptr \in DOMAIN heap' /\ heap'[ev'[f].ptr] = heap[ev[f].ptr]
  BY <1>1, <1>2, <1>4 DEF EventInv, HeapSound
<1>5. HeapSound'
  <2>1. /\ DOMAIN heap' \subseteq Blocks
        /\ \A f, g \in Live' : ev'[f].ptr # NoBlock /\ ev'[f].ptr = ev'[g].ptr => f = g
    BY <1>1, <1>2 DEF EventInv, HeapSound
  <2>2. \A f \in Live' : ev'[f].ptr # NoBlock =>
           ev'[f].ptr \in DOMAIN heap' /\ Len(heap'[ev'[f].ptr]) = ev'[f].len
    BY <1>2, <1>4 DEF EventInv, HeapSound
  <2>3. \A p \in DOMAIN heap' : \E f \in Live' : ev'[f].ptr = p
    BY <1>1, <1>2 DEF EventInv, HeapSound
  <2>4. QED
    BY <2>1, <2>2, <2>3 DEF HeapSound
<1>6. MeantSound'
  BY <1>2, <1>4 DEF EventInv, MeantSound
<1>7. QED
  BY <1>3, <1>5, <1>6 DEF EventInv

LEMMA SetQueueInductive ==
    ASSUME EventInv, NEW e \in Live, NEW q \in {0, DIRECT}, set_queue_id(e, q)
    PROVE  EventInv'
<1> DEFINE r == [ev[e] EXCEPT !.queue = q]
<1>1. ev[e] \in Event
  BY DEF EventInv, EventsSound, EventSound
<1>2. /\ r \in Event /\ r.type = ev[e].type /\ r.mode = ev[e].mode /\ r.kind = ev[e].kind
      /\ r.ptr = ev[e].ptr /\ r.len = ev[e].len
  BY <1>1 DEF Event
<1>3. /\ Live' = Live /\ ev'[e] = r /\ \A f \in Live \ {e} : ev'[f] = ev[f]
      /\ heap' = heap /\ meant' = meant
  BY DEF set_queue_id, Live
<1> HIDE DEF r
<1>4. EventsSound'
  BY <1>2, <1>3 DEF EventInv, EventsSound, EventSound
<1>5. \A f \in Live' : ev'[f].ptr = ev[f].ptr /\ ev'[f].len = ev[f].len
  BY <1>2, <1>3
<1>6. HeapSound' /\ MeantSound'
  BY <1>3, <1>5 DEF EventInv, HeapSound, MeantSound
<1>7. QED
  BY <1>4, <1>6 DEF EventInv
----------------------------------------------------------------------------
LEMMA InitEvents == EventInit => EventInv
BY DEF EventInit, EventInv, EventsSound, HeapSound, MeantSound, Live

LEMMA EventInductive == EventInv /\ [EventNext]_eventVars => EventInv'
<1> SUFFICES ASSUME EventInv, [EventNext]_eventVars
             PROVE  EventInv'
  OBVIOUS
<1>1. ASSUME NEW e \in Events, NEW t \in Types, New(e, t)
      PROVE  EventInv'
  BY <1>1, NewInductive
<1>2. ASSUME NEW c \in Events, NEW t \in Types, NEW ts \in {"TICK", "REAL"},
             NEW b \in Blobs, Receive(c, t, ts, b)
      PROVE  EventInv'
  BY <1>2, ReceiveInductive
<1>3. ASSUME NEW e \in Live, NEW q \in {0, DIRECT}, set_queue_id(e, q)
      PROVE  EventInv'
  BY <1>3, SetQueueInductive
<1>4. ASSUME NEW e \in Live, NEW flag \in FIXED_ANY, SetFixedData(e, flag)
      PROVE  EventInv'
  BY <1>4, SetFixedInductive
<1>5. ASSUME NEW e \in Live, NEW b \in Blobs, set_blob_data(e, b)
      PROVE  EventInv'
  BY <1>5, SetBlobInductive
<1>6. ASSUME NEW e \in Live, set_pointer_data(e)
      PROVE  EventInv'
  BY <1>6, SetPointerInductive
<1>7. ASSUME NEW e \in Live, NEW c \in Events, Copy(e, c)
      PROVE  EventInv'
  BY <1>7, CopyInductive
<1>8. ASSUME NEW e \in Live, Free(e)
      PROVE  EventInv'
  BY <1>8, FreeInductive
<1>9. CASE UNCHANGED eventVars
  BY <1>9 DEF eventVars, EventInv, EventsSound, HeapSound, MeantSound, Live
\* The setters of time stamps are setters of fixed length that refuse more.
<1>10. ASSUME NEW e \in Live, NEW ts, SetTimeData(e, ts)
       PROVE  EventInv'
  <2>1. SetFixedData(e, "TSTAMP") /\ "TSTAMP" \in FIXED_ANY
    BY <1>10 DEF SetTimeData, SetFixedData, FIXED_ANY
  <2>2. QED
    BY <2>1, <1>4
<1>11. ASSUME NEW e \in Live,
              \/ set_note_data(e) \/ set_ctl_data(e) \/ set_byte_data(e)
              \/ set_quadlet_data(e) \/ set_queue_data(e) \/ set_addr_data(e)
              \/ set_connect_data(e) \/ set_result_data(e)
              \/ set_tick_time_data(e) \/ set_real_time_data(e)
       PROVE  EventInv'
  <2>1. CASE set_tick_time_data(e) \/ set_real_time_data(e)
    BY <2>1, <1>10 DEF set_tick_time_data, set_real_time_data
  <2>2. CASE \E flag \in FIXED_ANY : SetFixedData(e, flag)
    BY <2>2, <1>4
  <2>3. QED
    BY <1>11, <2>1, <2>2 DEF set_note_data, set_ctl_data, set_byte_data, set_quadlet_data,
       set_queue_data, set_addr_data, set_connect_data, set_result_data, FIXED_ANY
<1>12. QED
  BY <1>1, <1>2, <1>3, <1>5, <1>6, <1>7, <1>8, <1>9, <1>11 DEF EventNext

LEMMA EventInvariant == EventSpec => []EventInv
BY InitEvents, EventInductive, PTL DEF EventSpec

\* Whatever order the setters of src/seq/event.c, g_boxed_copy() and
\* g_boxed_free() are called in, each heap block has exactly one event that
\* will free it, and each event with a blob has an allocated block of its length.
THEOREM BlobsAreOwned == EventSpec => []BlobsOwned
<1>1. EventInv => BlobsOwned
  <2> SUFFICES ASSUME EventInv PROVE BlobsOwned
    OBVIOUS
  <2>1. ASSUME NEW p \in DOMAIN heap
        PROVE  Cardinality({e \in Live : ev[e].mode = "VARIABLE" /\ ev[e].ptr = p}) = 1
    <3>1. PICK o \in Live : ev[o].ptr = p
      BY DEF EventInv, HeapSound
    <3>2. p # NoBlock
      BY SeqEventAssumption DEF EventInv, HeapSound
    <3>3. ev[o].mode = "VARIABLE"
      BY <3>1, <3>2 DEF EventInv, EventsSound, EventSound
    <3>4. {e \in Live : ev[e].mode = "VARIABLE" /\ ev[e].ptr = p} = {o}
      BY <3>1, <3>2, <3>3 DEF EventInv, HeapSound
    <3>5. QED
      BY <3>4, FS_Singleton
  <2>2. ASSUME NEW e \in Live, ev[e].mode = "VARIABLE", ev[e].len > 0
        PROVE  ev[e].ptr \in DOMAIN heap /\ Len(heap[ev[e].ptr]) = ev[e].len
    BY <2>2 DEF EventInv, EventsSound, EventSound, HeapSound
  <2>3. QED
    BY <2>1, <2>2 DEF BlobsOwned
<1>2. QED
  BY <1>1, EventInvariant, PTL

\* The getters of src/seq/event.c never take what a setter left in the union
\* for data of another length class.
THEOREM UnionIsSound == EventSpec => []UnionSound
<1>1. EventInv => UnionSound
  <2> SUFFICES ASSUME EventInv, NEW e \in Live
               PROVE  LET r == ev[e] IN
                      /\ get_blob_data(r) => r.kind = "BLOB"
                      /\ get_pointer_data(r) => r.kind = "POINTER"
                      /\ GetFixed(r) => r.kind \notin {"BLOB", "POINTER"}
    BY DEF UnionSound
  <2>1. EventSound(ev[e])
    BY DEF EventInv, EventsSound
  <2>2. GetFixed(ev[e]) => ev[e].mode = "FIXED"
    BY DEF GetFixed, get_note_data, get_ctl_data, get_byte_data, get_quadlet_data,
       get_queue_data, get_addr_data, get_connect_data, get_result_data,
       get_tick_time_data, get_real_time_data, validate_event_type_and_length, ExpectedMode
  <2>3. /\ get_blob_data(ev[e]) => ev[e].mode = "VARIABLE"
        /\ get_pointer_data(ev[e]) => ev[e].mode = "VARUSR"
    BY DEF get_blob_data, get_pointer_data, validate_event_type_and_length, ExpectedMode
  <2>4. QED
    BY <2>1, <2>2, <2>3 DEF EventSound
<1>2. QED
  BY <1>1, EventInvariant, PTL

\* get_blob_data() finds the bytes that set_blob_data() stored or that came
\* with the event; a block is never overwritten or handed to another event.
THEOREM BlobsStayIntact == EventSpec => []BlobIntact
<1>1. EventInv => BlobIntact
  <2> SUFFICES ASSUME EventInv, NEW e \in DOMAIN meant, ev[e].mode = "VARIABLE",
                      ev[e].len > 0
               PROVE  ev[e].ptr \in DOMAIN heap /\ heap[ev[e].ptr] = meant[e]
    BY DEF BlobIntact
  <2>1. e \in Live /\ ev[e].ptr # NoBlock
    BY DEF EventInv, MeantSound, EventsSound, EventSound
  <2>2. QED
    BY <2>1 DEF EventInv, HeapSound, MeantSound
<1>2. QED
  BY <1>1, EventInvariant, PTL

\* What a setter of src/seq/event.c accepts, seq_event_is_deliverable() lets
\* through, for all 256 types, given a queue that suits.
THEOREM AcceptedIsDeliverable == EventSpec => []SetIsDeliverable
<1>1. EventInv => SetIsDeliverable
  <2> SUFFICES ASSUME EventInv, NEW e \in Live, ev[e].kind # "ZERO", QueueSuits(ev[e])
               PROVE  seq_event_is_deliverable(ev[e])
    BY DEF SetIsDeliverable
  <2> DEFINE r == ev[e]
  <2>1. EventSound(r) /\ r.kind \in seq_event_data_flags(r.type)
    BY DEF EventInv, EventsSound, EventSound
  <2>2. r.mode \in Modes /\ r.kind \in ANY
    BY <2>1 DEF EventSound, Event
  <2>3. CASE r.mode = "FIXED"
    <3>1. r.kind \in FIXED_ANY
      BY <2>1, <2>2, <2>3 DEF EventSound, ANY, VARIABLE_ANY, VARUSR_ANY
    <3>2. QED
      BY <2>1, <2>3, <3>1 DEF seq_event_is_deliverable, QueueSuits
  <2>4. CASE r.mode = "VARIABLE"
    BY <2>1, <2>4 DEF EventSound, seq_event_is_deliverable, VARIABLE_ANY
  <2>5. CASE r.mode = "VARUSR"
    BY <2>1, <2>5 DEF EventSound, seq_event_is_deliverable, VARUSR_ANY, QueueSuits
  <2>6. QED
    BY <2>2, <2>3, <2>4, <2>5 DEF Modes
<1>2. QED
  BY <1>1, EventInvariant, PTL

(***************************************************************************)
(* TimerUserInstance, for any size of the page, of the records and of the  *)
(* queue, and any number of events.                                        *)
(***************************************************************************)

Emission == [signal : EventTypes, record : Record]

TypeOK ==
    /\ event_type \in EventTypes /\ tread \in EventTypes /\ as \in EventTypes
    /\ kqueue \in Seq(Record) /\ buf \in Seq(Record) /\ emitted \in Seq(Emission)
    /\ posted \in 0..MaxEvents /\ at \in Nat
    /\ pc \in {"idle", "ready", "switch", "walk"}

(***************************************************************************)
(* priv->event_type is the format of the descriptor, which open() gives    *)
(* back to a descriptor, and of all that is queued.                        *)
(***************************************************************************)
Agree ==
    /\ event_type = tread
    /\ ~fd => tread = "TICK_TIME"
    /\ \A i \in 1..Len(kqueue) : kqueue[i].type = tread

\* The records of the page that the loop of dispatch has passed.
Passed == at \div Units(as)

\* The page has records of one format: the one of the descriptor up to the
\* switch, and then the one that the loop decodes.
PageSound ==
    /\ pc = "switch" => buf # <<>> /\ \A i \in 1..Len(buf) : buf[i].type = event_type
    /\ pc = "walk" =>
          /\ buf # <<>> /\ \A i \in 1..Len(buf) : buf[i].type = as
          /\ Passed \in 0..Len(buf) /\ at = Passed * Units(as)
          /\ Passed > 0 => \E i \in 1..Len(emitted) : emitted[i].record = buf[Passed]

\* The records that dispatch has to emit.
Pending(j) == j \in 1..Len(buf) /\ (pc = "switch" \/ (pc = "walk" /\ j > Passed))

\* What was emitted came before what is in the page, that before the queue.
InOrder ==
    /\ EmittedInOrder
    /\ \A i, j \in 1..Len(kqueue) : i < j => kqueue[i].n < kqueue[j].n
    /\ \A i, j \in 1..Len(buf) : i < j => buf[i].n < buf[j].n
    /\ \A i \in 1..Len(kqueue) : kqueue[i].n <= posted
    /\ \A i \in 1..Len(buf) : /\ buf[i].n <= posted
                              /\ \A j \in 1..Len(kqueue) : buf[i].n < kqueue[j].n
    /\ \A i \in 1..Len(emitted) :
          /\ emitted[i].record.n <= posted
          /\ \A j \in 1..Len(kqueue) : emitted[i].record.n < kqueue[j].n
          /\ \A j \in 1..Len(buf) : Pending(j) => emitted[i].record.n < buf[j].n

TimerInv == TypeOK /\ Agree /\ PageSound /\ DecodedAsWritten /\ InOrder
----------------------------------------------------------------------------
\* Counting records in units.
LEMMA Mult ==
    ASSUME NEW a \in Nat, NEW b \in Nat, NEW u \in Nat \ {0}
    PROVE  b * u - a * u >= u <=> a < b
<1>1. a < b => a * u + u <= b * u
  OBVIOUS
<1>2. a >= b => a * u >= b * u
  OBVIOUS
<1>3. a * u \in Nat /\ b * u \in Nat
  OBVIOUS
<1>4. QED
  BY <1>1, <1>2, <1>3

LEMMA OneMore ==
    ASSUME NEW k \in Nat, NEW u \in Nat
    PROVE  k * u + u = (k + 1) * u /\ k * u + u \in Nat
OBVIOUS

LEMMA Div ==
    ASSUME NEW k \in Nat, NEW u \in Nat \ {0}
    PROVE  (k * u) \div u = k
OBVIOUS

LEMMA Room ==
    ASSUME NEW x \in Nat, NEW u \in Nat \ {0}, x >= u
    PROVE  x \div u \in Nat /\ x \div u >= 1
OBVIOUS

LEMMA UnitsPositive ==
    ASSUME NEW type \in EventTypes
    PROVE  Units(type) \in Nat \ {0} /\ Units(type) <= BufUnits
BY TimerAssumption DEF Units, EventTypes

\* A queue splits into what is read and what stays.
LEMMA Split ==
    ASSUME NEW S, NEW q \in Seq(S), NEW n \in 0..Len(q)
    PROVE  /\ SubSeq(q, 1, n) \in Seq(S) /\ Len(SubSeq(q, 1, n)) = n
           /\ \A i \in 1..n : SubSeq(q, 1, n)[i] = q[i]
           /\ SubSeq(q, n + 1, Len(q)) \in Seq(S)
           /\ Len(SubSeq(q, n + 1, Len(q))) = Len(q) - n
           /\ \A i \in 1..Len(q) - n : SubSeq(q, n + 1, Len(q))[i] = q[n + i]
<1>1. Len(q) \in Nat /\ n \in Nat /\ n <= Len(q) /\ \A i \in 1..Len(q) : q[i] \in S
  BY LenProperties, ElementOfSeq
<1>2. /\ SubSeq(q, 1, n) \in Seq(S) /\ Len(SubSeq(q, 1, n)) = n
      /\ \A i \in 1..n : SubSeq(q, 1, n)[i] = q[i]
  BY <1>1, SubSeqProperties
<1>3. /\ SubSeq(q, n + 1, Len(q)) \in Seq(S)
      /\ Len(SubSeq(q, n + 1, Len(q))) = Len(q) - n
      /\ \A i \in 1..Len(q) - n : SubSeq(q, n + 1, Len(q))[i] = q[n + i]
  BY <1>1, SubSeqProperties
<1>4. QED
  BY <1>2, <1>3

LEMMA Pushed ==
    ASSUME NEW S, NEW q \in Seq(S), NEW x \in S, NEW new, new = Append(q, x)
    PROVE  /\ new \in Seq(S) /\ Len(new) = Len(q) + 1 /\ new[Len(q) + 1] = x
           /\ \A i \in 1..Len(q) : new[i] = q[i]
BY AppendProperties

\* The lengths are natural numbers, and a page with records has a first one.
LEMMA Lengths ==
    ASSUME TypeOK
    PROVE  /\ Len(kqueue) \in Nat /\ Len(buf) \in Nat /\ Len(emitted) \in Nat
           /\ buf # <<>> <=> Len(buf) > 0
           /\ kqueue # <<>> <=> Len(kqueue) > 0
BY LenProperties, EmptySeq DEF TypeOK
----------------------------------------------------------------------------
(***************************************************************************)
(* The order of the events, when none is added to the page or emitted.     *)
(***************************************************************************)
LEMMA QuietOrder ==
    ASSUME TypeOK, InOrder, UNCHANGED <<posted, buf, emitted>>, kqueue' \in {kqueue, <<>>},
           \A j \in 1..Len(buf) : Pending(j)' => Pending(j)
    PROVE  InOrder'
<1>1. ASSUME NEW i \in 1..Len(kqueue') PROVE kqueue' = kqueue
  BY EmptySeq
<1>2. EmittedInOrder'
  BY DEF InOrder, EmittedInOrder
<1>3. /\ \A i, j \in 1..Len(kqueue') : i < j => kqueue'[i].n < kqueue'[j].n
      /\ \A i \in 1..Len(kqueue') : kqueue'[i].n <= posted
  BY <1>1 DEF InOrder
<1>4. \A i \in 1..Len(buf) : \A j \in 1..Len(kqueue') : buf[i].n < kqueue'[j].n
  BY <1>1 DEF InOrder
<1>5. \A i \in 1..Len(emitted) : \A j \in 1..Len(kqueue') : emitted[i].record.n < kqueue'[j].n
  BY <1>1 DEF InOrder
<1>6. QED
  BY <1>2, <1>3, <1>4, <1>5 DEF InOrder

\* A step of Next is one of these.
AppStep ==
    \/ Open \/ \E type \in EventTypes : ChooseEventType(type)
    \/ Attach \/ SetParams \/ Start \/ Stop \/ Pause \/ ContinueTimer
    \/ CreateSource \/ Disconnect \/ UNCHANGED vars

LEMMA Steps ==
    ASSUME [Next]_vars
    PROVE  AppStep \/ Fire \/ Check \/ Dispatch \/ Switch \/ Emit \/ DispatchContinues
BY DEF Next, Step, AppStep

(***************************************************************************)
(* Methods of the application and the kernel leave the dispatch alone; the *)
(* format changes for the descriptor and for the library at once, and      *)
(* never between the read(2) and the switch.                               *)
(***************************************************************************)
LEMMA AppEffect ==
    ASSUME TypeOK, Agree, AppStep
    PROVE  /\ UNCHANGED <<posted, pc, buf, as, at, emitted>> /\ kqueue' \in {kqueue, <<>>}
           /\ event_type' \in EventTypes /\ tread' \in EventTypes
           /\ Agree' /\ (pc = "switch" => event_type' = event_type)
<1>1. \A i \in 1..Len(<<>>) : FALSE
  BY EmptySeq
<1>2. CASE Open
  <2>1. /\ UNCHANGED <<posted, pc, buf, as, at, emitted, event_type>> /\ kqueue' = <<>>
        /\ tread' = "TICK_TIME" /\ ~fd
    BY <1>2 DEF Open, OpenedType, loopVars
  <2>2. QED
    BY <1>1, <2>1 DEF Agree, TypeOK, EventTypes
<1>3. ASSUME NEW type \in EventTypes, ChooseEventType(type)
      PROVE  /\ UNCHANGED <<posted, pc, buf, as, at, emitted>> /\ kqueue' \in {kqueue, <<>>}
             /\ event_type' \in EventTypes /\ tread' \in EventTypes
             /\ Agree' /\ (pc = "switch" => event_type' = event_type)
  <2>1. /\ UNCHANGED <<fd, posted, pc, buf, as, at, emitted>> /\ fd /\ pc # "switch"
        /\ tread' = type /\ event_type' = type
        /\ kqueue' = IF type = tread THEN kqueue ELSE <<>>
    BY <1>3 DEF ChooseEventType, Calls, loopVars
  <2>2. QED
    BY <1>1, <2>1 DEF Agree, EventTypes
<1>4. CASE SetParams
  <2>1. /\ UNCHANGED <<fd, posted, pc, buf, as, at, emitted, event_type, tread>>
        /\ kqueue' = <<>>
    BY <1>4 DEF SetParams, loopVars
  <2>2. QED
    BY <1>1, <2>1 DEF Agree, TypeOK
<1>5. CASE \/ Attach \/ Start \/ Stop \/ Pause \/ ContinueTimer
           \/ CreateSource \/ Disconnect \/ UNCHANGED vars
  <2>1. UNCHANGED <<fd, posted, pc, buf, as, at, emitted, event_type, tread, kqueue>>
    BY <1>5 DEF Attach, Start, Stop, Pause, ContinueTimer, Control, CreateSource,
       Disconnect, vars, loopVars, deviceVars
  <2>2. QED
    BY <2>1 DEF Agree, TypeOK
<1>6. QED
  BY <1>2, <1>3, <1>4, <1>5 DEF AppStep

LEMMA AppInductive ==
    ASSUME TimerInv, AppStep
    PROVE  TimerInv'
<1> USE DEF TimerInv
<1>1. /\ UNCHANGED <<posted, pc, buf, as, at, emitted>> /\ kqueue' \in {kqueue, <<>>}
      /\ event_type' \in EventTypes /\ tread' \in EventTypes
      /\ Agree' /\ (pc = "switch" => event_type' = event_type)
  BY AppEffect
<1>2. TypeOK'
  BY <1>1, EmptySeq DEF TypeOK
<1>3. PageSound'
  BY <1>1 DEF PageSound, Passed
<1>4. DecodedAsWritten'
  BY <1>1 DEF DecodedAsWritten
<1>5. \A j \in 1..Len(buf) : Pending(j)' => Pending(j)
  BY <1>1 DEF Pending, Passed
<1>6. InOrder'
  BY <1>1, <1>5, QuietOrder
<1>7. QED
  BY <1>1, <1>2, <1>3, <1>4, <1>6

\* The timer fires: the record has the format of the descriptor, and comes last.
LEMMA FireInductive ==
    ASSUME TimerInv, Fire
    PROVE  TimerInv'
<1> USE DEF TimerInv
<1> DEFINE x == [type |-> tread, n |-> posted']
<1>1. /\ UNCHANGED <<fd, event_type, tread, pc, buf, as, at, emitted>>
      /\ posted' = posted + 1 /\ posted' \in 1..MaxEvents /\ posted \in Nat
      /\ kqueue' = Append(kqueue, x)
  BY TimerAssumption DEF Fire, TypeOK, loopVars
<1>2. x \in Record /\ x.type = tread /\ x.n = posted + 1
  BY <1>1 DEF Record, TypeOK
<1> HIDE DEF x
<1>3. kqueue \in Seq(Record)
  BY DEF TypeOK
<1>4. /\ kqueue' \in Seq(Record) /\ Len(kqueue') = Len(kqueue) + 1
      /\ kqueue'[Len(kqueue) + 1] = x /\ \A i \in 1..Len(kqueue) : kqueue'[i] = kqueue[i]
  BY ONLY <1>1, <1>2, <1>3, Pushed
<1>5. ASSUME NEW i \in 1..Len(kqueue')
      PROVE  \/ i \in 1..Len(kqueue) /\ kqueue'[i] = kqueue[i]
             \/ i = Len(kqueue) + 1 /\ kqueue'[i] = x
  <2>1. Len(kqueue) \in Nat
    BY Lengths
  <2>2. QED
    BY <1>4, <2>1
<1>6. TypeOK'
  <2>1. posted' \in 0..MaxEvents
    BY <1>1
  <2>2. QED
    BY <1>1, <1>4, <2>1 DEF TypeOK
<1>7. Agree'
  BY <1>1, <1>2, <1>5 DEF Agree
<1>8. PageSound' /\ DecodedAsWritten'
  BY <1>1 DEF PageSound, Passed, DecodedAsWritten
<1>9. InOrder'
  <2>1. EmittedInOrder'
    BY <1>1 DEF InOrder, EmittedInOrder
  <2>2. ASSUME NEW i \in 1..Len(kqueue) PROVE kqueue[i].n \in Nat /\ kqueue[i].n <= posted
    <3>1. kqueue[i] \in Record
      BY <1>3, <2>2, ElementOfSeq
    <3>2. kqueue[i].n \in Nat
      BY <3>1, TimerAssumption DEF Record
    <3>3. kqueue[i].n <= posted
      BY <2>2 DEF InOrder
    <3>4. QED
      BY <3>2, <3>3
  <2>3. ASSUME NEW i \in 1..Len(buf) PROVE buf[i].n \in Nat /\ buf[i].n <= posted
    <3>1. buf[i] \in Record
      BY <2>3, ElementOfSeq DEF TypeOK
    <3>2. buf[i].n \in Nat
      BY <3>1, TimerAssumption DEF Record
    <3>3. buf[i].n <= posted
      BY <2>3 DEF InOrder
    <3>4. QED
      BY <3>2, <3>3
  <2>4. ASSUME NEW i \in 1..Len(emitted)
        PROVE  emitted[i].record.n \in Nat /\ emitted[i].record.n <= posted
    <3>1. emitted[i] \in Emission
      BY <2>4, ElementOfSeq DEF TypeOK
    <3>2. emitted[i].record.n \in Nat
      BY <3>1, TimerAssumption DEF Emission, Record
    <3>3. QED
      BY <2>4, <3>2 DEF InOrder
  <2>5. ASSUME NEW i \in 1..Len(kqueue'), NEW j \in 1..Len(kqueue'), i < j
        PROVE  kqueue'[i].n < kqueue'[j].n
    <3>1. i \in 1..Len(kqueue) /\ kqueue'[i] = kqueue[i]
      BY <1>4, <1>5, <2>5, Lengths
    <3>2. CASE j \in 1..Len(kqueue) /\ kqueue'[j] = kqueue[j]
      BY <2>5, <3>1, <3>2 DEF InOrder
    <3>3. CASE kqueue'[j] = x
      BY <1>1, <1>2, <2>2, <3>1, <3>3
    <3>4. QED
      BY <1>5, <3>2, <3>3
  <2>6. ASSUME NEW i \in 1..Len(kqueue') PROVE kqueue'[i].n <= posted'
    BY <1>1, <1>2, <1>5, <2>2
  <2>7. ASSUME NEW i \in 1..Len(buf), NEW j \in 1..Len(kqueue') PROVE buf[i].n < kqueue'[j].n
    BY <1>1, <1>2, <1>5, <2>3 DEF InOrder
  <2>8. ASSUME NEW i \in 1..Len(emitted), NEW j \in 1..Len(kqueue')
        PROVE  emitted[i].record.n < kqueue'[j].n
    BY <1>1, <1>2, <1>5, <2>4 DEF InOrder
  <2>9. /\ \A i \in 1..Len(buf) : buf[i].n <= posted'
        /\ \A i \in 1..Len(emitted) : emitted[i].record.n <= posted'
    BY <1>1, <2>3, <2>4
  <2>10. /\ \A i, j \in 1..Len(buf) : i < j => buf[i].n < buf[j].n
         /\ \A i \in 1..Len(emitted), j \in 1..Len(buf) :
               Pending(j)' => emitted[i].record.n < buf[j].n
    BY <1>1 DEF InOrder, Pending, Passed
  <2>11. QED
    BY <1>1, <2>1, <2>5, <2>6, <2>7, <2>8, <2>9, <2>10 DEF InOrder
<1>10. QED
  BY <1>6, <1>7, <1>8, <1>9

\* An iteration that reads nothing, or ends.
LEMMA IdleInductive ==
    ASSUME TimerInv, UNCHANGED <<fd, event_type, tread, kqueue, posted, buf, as, at, emitted>>,
           pc' \in {"idle", "ready"}
    PROVE  TimerInv'
<1> USE DEF TimerInv
<1>1. TypeOK' /\ Agree' /\ PageSound' /\ DecodedAsWritten'
  BY DEF TypeOK, Agree, PageSound, DecodedAsWritten
<1>2. \A j \in 1..Len(buf) : Pending(j)' => Pending(j)
  BY DEF Pending
<1>3. InOrder'
  BY <1>2, QuietOrder
<1>4. QED
  BY <1>1, <1>3

\* read(2) takes at least one record, all of the format of the descriptor.
LEMMA ReadInductive ==
    ASSUME TimerInv, UNCHANGED <<fd, event_type, tread, posted, as, at, emitted>>,
           kqueue # <<>>, buf' = SubSeq(kqueue, 1, RecordsRead),
           kqueue' = SubSeq(kqueue, RecordsRead + 1, Len(kqueue)), pc' = "switch"
    PROVE  TimerInv'
<1> USE DEF TimerInv
<1> DEFINE n == RecordsRead
<1>1. n \in 1..Len(kqueue)
  <2>1. Units(tread) \in Nat \ {0} /\ BufUnits \in Nat /\ BufUnits >= Units(tread)
    BY UnitsPositive, TimerAssumption DEF TypeOK
  <2>2. BufUnits \div Units(tread) \in Nat /\ BufUnits \div Units(tread) >= 1
    BY <2>1, Room
  <2>3. Len(kqueue) \in Nat /\ Len(kqueue) > 0
    BY Lengths
  <2>4. QED
    BY <2>2, <2>3 DEF RecordsRead
<1>2. buf' = SubSeq(kqueue, 1, n) /\ kqueue' = SubSeq(kqueue, n + 1, Len(kqueue))
  OBVIOUS
<1> HIDE DEF n
<1>3. kqueue \in Seq(Record) /\ n \in 0..Len(kqueue) /\ Len(kqueue) \in Nat
  BY <1>1, Lengths DEF TypeOK
<1>4. /\ buf' \in Seq(Record) /\ Len(buf') = n /\ \A i \in 1..n : buf'[i] = kqueue[i]
      /\ kqueue' \in Seq(Record) /\ Len(kqueue') = Len(kqueue) - n
      /\ \A i \in 1..Len(kqueue) - n : kqueue'[i] = kqueue[n + i]
  <2>1. /\ SubSeq(kqueue, 1, n) \in Seq(Record) /\ Len(SubSeq(kqueue, 1, n)) = n
        /\ \A i \in 1..n : SubSeq(kqueue, 1, n)[i] = kqueue[i]
        /\ SubSeq(kqueue, n + 1, Len(kqueue)) \in Seq(Record)
        /\ Len(SubSeq(kqueue, n + 1, Len(kqueue))) = Len(kqueue) - n
        /\ \A i \in 1..Len(kqueue) - n : SubSeq(kqueue, n + 1, Len(kqueue))[i] = kqueue[n + i]
    BY ONLY <1>3, Split
  <2>2. QED
    BY ONLY <1>2, <2>1
<1>5. ASSUME NEW i \in 1..Len(buf') PROVE i \in 1..Len(kqueue) /\ i <= n /\ buf'[i] = kqueue[i]
  BY <1>1, <1>3, <1>4
<1>6. ASSUME NEW i \in 1..Len(kqueue')
      PROVE  n + i \in 1..Len(kqueue) /\ n + i > n /\ kqueue'[i] = kqueue[n + i]
  <2>1. i \in 1..Len(kqueue) - n
    BY ONLY i \in 1..Len(kqueue'), <1>4
  <2>2. n + i \in 1..Len(kqueue) /\ n + i > n
    BY ONLY <1>1, <1>3, <2>1
  <2>3. QED
    BY ONLY <1>4, <2>1, <2>2
<1>7. TypeOK'
  BY <1>4 DEF TypeOK
<1>8. Agree'
  BY <1>6 DEF Agree
<1>9. PageSound'
  <2>1. buf' # <<>>
    BY <1>1, <1>4, EmptySeq
  <2>2. \A i \in 1..Len(buf') : buf'[i].type = event_type
    BY <1>5 DEF Agree
  <2>3. QED
    BY <2>1, <2>2 DEF PageSound
<1>10. DecodedAsWritten'
  BY DEF DecodedAsWritten
<1>11. InOrder'
  <2>1. EmittedInOrder'
    BY DEF InOrder, EmittedInOrder
  <2>2. ASSUME NEW i \in 1..Len(kqueue'), NEW j \in 1..Len(kqueue'), i < j
        PROVE  kqueue'[i].n < kqueue'[j].n
    <3>1. n + i < n + j
      BY <1>1, <1>3, <1>4, <2>2
    <3>2. QED
      BY <1>6, <3>1 DEF InOrder
  <2>3. ASSUME NEW i \in 1..Len(buf'), NEW j \in 1..Len(buf'), i < j
        PROVE  buf'[i].n < buf'[j].n
    BY <1>5, <2>3 DEF InOrder
  <2>4. ASSUME NEW i \in 1..Len(buf'), NEW j \in 1..Len(kqueue')
        PROVE  buf'[i].n < kqueue'[j].n
    <3>1. i < n + j
      <4>1. i \in Nat /\ j \in Nat /\ n \in Nat /\ i <= n /\ n + j > n
        BY <1>1, <1>3, <1>4, <1>5, <1>6
      <4>2. QED
        BY ONLY <4>1
    <3>2. QED
      BY <1>5, <1>6, <3>1 DEF InOrder
  <2>5. /\ \A i \in 1..Len(kqueue') : kqueue'[i].n <= posted
        /\ \A i \in 1..Len(buf') : buf'[i].n <= posted
    BY <1>5, <1>6 DEF InOrder
  <2>6. ASSUME NEW i \in 1..Len(emitted)
        PROVE  /\ emitted[i].record.n <= posted
               /\ \A j \in 1..Len(kqueue') : emitted[i].record.n < kqueue'[j].n
               /\ \A j \in 1..Len(buf') : emitted[i].record.n < buf'[j].n
    BY <1>5, <1>6 DEF InOrder
  <2>7. QED
    BY <2>1, <2>2, <2>3, <2>4, <2>5, <2>6 DEF InOrder
<1>12. QED
  BY <1>7, <1>8, <1>9, <1>10, <1>11

\* The loop begins at the first record.
LEMMA SwitchInductive ==
    ASSUME TimerInv, Switch
    PROVE  TimerInv'
<1> USE DEF TimerInv
<1>1. /\ UNCHANGED <<fd, event_type, tread, kqueue, posted, buf, emitted>>
      /\ pc = "switch" /\ as' = event_type /\ at' = 0 /\ pc' = "walk"
  BY DEF Switch, deviceVars
<1>2. Units(as') \in Nat \ {0}
  BY <1>1, UnitsPositive DEF TypeOK
<1>3. Passed' = 0 /\ at' = Passed' * Units(as')
  <2>1. 0 * Units(as') = 0 /\ (0 * Units(as')) \div Units(as') = 0
    BY <1>2, Div
  <2>2. QED
    BY <1>1, <1>2, <2>1 DEF Passed
<1>4. TypeOK' /\ Agree' /\ DecodedAsWritten'
  BY <1>1 DEF TypeOK, Agree, DecodedAsWritten
<1>5. PageSound'
  <2>1. Passed' \in 0..Len(buf)
    BY <1>3, Lengths
  <2>2. QED
    BY <1>1, <1>3, <2>1 DEF PageSound
<1>6. \A j \in 1..Len(buf) : Pending(j)' => Pending(j)
  BY <1>1 DEF Pending
<1>7. InOrder'
  BY <1>1, <1>6, QuietOrder
<1>8. QED
  BY <1>4, <1>5, <1>7

\* "length >= sizeof(*ev)" tells whether a record is left.
LEMMA Walk ==
    ASSUME TypeOK, PageSound, pc = "walk"
    PROVE  /\ Passed \in 0..Len(buf) /\ Len(buf) \in Nat
           /\ Units(buf[1].type) = Units(as) /\ Units(as) \in Nat \ {0}
           /\ (MoreRecords <=> Passed < Len(buf))
<1>1. /\ Passed \in 0..Len(buf) /\ at = Passed * Units(as) /\ Len(buf) \in Nat
      /\ buf[1].type = as
  <2>1. /\ Passed \in 0..Len(buf) /\ at = Passed * Units(as) /\ buf # <<>>
        /\ \A i \in 1..Len(buf) : buf[i].type = as
    BY DEF PageSound
  <2>2. Len(buf) \in Nat /\ 1 \in 1..Len(buf)
    BY <2>1, Lengths
  <2>3. QED
    BY <2>1, <2>2
<1>2. Units(as) \in Nat \ {0}
  BY UnitsPositive DEF TypeOK
<1>3. MoreRecords <=> Len(buf) * Units(as) - Passed * Units(as) >= Units(as)
  BY <1>1 DEF MoreRecords, Length
<1>4. Passed \in Nat
  BY <1>1
<1>5. QED
  BY <1>1, <1>2, <1>3, <1>4, Mult

LEMMA EmitInductive ==
    ASSUME TimerInv, Emit
    PROVE  TimerInv'
<1> USE DEF TimerInv
<1> DEFINE p == Passed
           x == [signal |-> as, record |-> buf[p + 1]]
<1>1. /\ UNCHANGED <<fd, event_type, tread, kqueue, posted, buf, as, pc>>
      /\ pc = "walk" /\ MoreRecords /\ at' = at + Units(as)
      /\ emitted' = Append(emitted, [signal |-> as,
                                     record |-> buf[at \div Units(buf[1].type) + 1]])
  BY DEF Emit, Advanced, deviceVars
<1>2. /\ p \in Nat /\ p + 1 \in 1..Len(buf) /\ Len(buf) \in Nat /\ Units(as) \in Nat \ {0}
      /\ Units(buf[1].type) = Units(as)
  <2>1. Passed \in 0..Len(buf) /\ Len(buf) \in Nat /\ Passed < Len(buf)
    BY <1>1, Walk
  <2>2. Units(buf[1].type) = Units(as) /\ Units(as) \in Nat \ {0}
    BY <1>1, Walk
  <2>3. Passed \in Nat /\ Passed + 1 \in 1..Len(buf)
    BY ONLY <2>1
  <2>4. QED
    BY <2>1, <2>2, <2>3
<1>3. emitted' = Append(emitted, x)
  BY <1>1, <1>2 DEF Passed
<1>4. at = p * Units(as) /\ \A i \in 1..Len(buf) : buf[i].type = as
  BY <1>1 DEF PageSound
<1>5. Passed' = p + 1 /\ at' = Passed' * Units(as) /\ at' \in Nat
  <2>1. at' = (p + 1) * Units(as) /\ at' \in Nat
    <3>1. p \in Nat /\ Units(as) \in Nat /\ at' = p * Units(as) + Units(as)
      BY <1>1, <1>2, <1>4
    <3>2. QED
      BY ONLY <3>1, OneMore
  <2>2. p + 1 \in Nat
    BY <1>2
  <2>3. ((p + 1) * Units(as)) \div Units(as) = p + 1
    BY <1>2, <2>2, Div
  <2>4. Passed' = at' \div Units(as)
    BY <1>1 DEF Passed
  <2>5. QED
    BY <2>1, <2>3, <2>4
<1>6. buf[p + 1] \in Record
  BY <1>2, ElementOfSeq DEF TypeOK
<1>7. x \in Emission /\ x.record = buf[p + 1] /\ x.signal = as
  BY <1>6 DEF Emission, TypeOK
<1> HIDE DEF x
<1>8. emitted \in Seq(Emission) /\ Len(emitted) \in Nat
  BY Lengths DEF TypeOK
<1>9. /\ emitted' \in Seq(Emission) /\ Len(emitted') = Len(emitted) + 1
      /\ emitted'[Len(emitted) + 1] = x
      /\ \A i \in 1..Len(emitted) : emitted'[i] = emitted[i]
  BY ONLY <1>3, <1>7, <1>8, Pushed
<1>10. ASSUME NEW i \in 1..Len(emitted')
       PROVE  \/ i \in 1..Len(emitted) /\ emitted'[i] = emitted[i]
              \/ i = Len(emitted) + 1 /\ emitted'[i] = x
  BY ONLY i \in 1..Len(emitted'), <1>8, <1>9
<1> HIDE DEF p
<1>11. TypeOK'
  BY <1>1, <1>5, <1>9 DEF TypeOK
<1>12. Agree'
  BY <1>1 DEF Agree
<1>13. PageSound'
  <2>1. Len(emitted) + 1 \in 1..Len(emitted') /\ emitted'[Len(emitted) + 1].record = buf[p + 1]
    BY <1>7, <1>8, <1>9
  <2>2. Passed' \in 0..Len(buf)
    BY <1>2, <1>5
  <2>3. QED
    BY <1>1, <1>4, <1>5, <2>1, <2>2 DEF PageSound
<1>14. DecodedAsWritten'
  BY <1>2, <1>4, <1>7, <1>10 DEF DecodedAsWritten
<1>15. Pending(p + 1)
  BY <1>1, <1>2 DEF Pending, p
<1>16. ASSUME NEW j \in 1..Len(buf), Pending(j)' PROVE Pending(j) /\ p + 1 < j
  BY <1>1, <1>2, <1>5, <1>16 DEF Pending, p
<1>17. InOrder'
  <2>1. ASSUME NEW i \in 1..Len(emitted'), NEW j \in 1..Len(emitted'), i < j
        PROVE  emitted'[i].record.n < emitted'[j].record.n
    <3>1. i \in 1..Len(emitted) /\ emitted'[i] = emitted[i]
      BY ONLY i \in 1..Len(emitted'), j \in 1..Len(emitted'), i < j, <1>8, <1>9
    <3>2. CASE j \in 1..Len(emitted) /\ emitted'[j] = emitted[j]
      BY <2>1, <3>1, <3>2 DEF InOrder, EmittedInOrder
    <3>3. CASE emitted'[j] = x
      BY <1>2, <1>7, <1>15, <3>1, <3>3 DEF InOrder
    <3>4. QED
      BY <1>10, <3>2, <3>3
  <2>2. ASSUME NEW i \in 1..Len(emitted')
        PROVE  /\ emitted'[i].record.n <= posted
               /\ \A j \in 1..Len(kqueue) : emitted'[i].record.n < kqueue[j].n
               /\ \A j \in 1..Len(buf) : Pending(j)' => emitted'[i].record.n < buf[j].n
    <3>1. CASE i \in 1..Len(emitted) /\ emitted'[i] = emitted[i]
      BY <1>16, <3>1 DEF InOrder
    <3>2. CASE emitted'[i] = x
      BY <1>2, <1>7, <1>16, <3>2 DEF InOrder
    <3>3. QED
      BY <1>10, <3>1, <3>2
  <2>3. QED
    BY <1>1, <2>1, <2>2 DEF InOrder, EmittedInOrder
<1>18. QED
  BY <1>11, <1>12, <1>13, <1>14, <1>17
----------------------------------------------------------------------------
LEMMA TimerInductive == TimerInv /\ [Next]_vars => TimerInv'
<1> SUFFICES ASSUME TimerInv, [Next]_vars PROVE TimerInv'
  OBVIOUS
<1>1. CASE Check \/ DispatchContinues
  BY <1>1, IdleInductive DEF Check, DispatchContinues, deviceVars
<1>2. CASE Dispatch
  <2>1. UNCHANGED <<fd, event_type, tread, posted, as, at, emitted>>
    BY <1>2 DEF Dispatch
  <2>2. CASE pc' = "idle" /\ UNCHANGED <<buf, kqueue>>
    BY <2>1, <2>2, IdleInductive
  <2>3. CASE /\ kqueue # <<>> /\ buf' = SubSeq(kqueue, 1, RecordsRead)
             /\ kqueue' = SubSeq(kqueue, RecordsRead + 1, Len(kqueue)) /\ pc' = "switch"
    BY <2>1, <2>3, ReadInductive
  <2>4. QED
    BY <1>2, <2>2, <2>3 DEF Dispatch
<1>3. QED
  BY <1>1, <1>2, Steps, AppInductive, FireInductive, SwitchInductive, EmitInductive

LEMMA InitTimer == Init => TimerInv
<1> SUFFICES ASSUME Init PROVE TimerInv
  OBVIOUS
<1>1. Len(<<>>) = 0 /\ <<>> \in Seq(Record) /\ <<>> \in Seq(Emission)
  BY EmptySeq
<1>2. kqueue = <<>> /\ buf = <<>> /\ emitted = <<>> /\ posted = 0 /\ at = 0 /\ pc = "idle"
  BY DEF Init
<1>3. TypeOK
  BY <1>1, TimerAssumption DEF Init, TypeOK, EventTypes
<1>4. Agree /\ PageSound /\ DecodedAsWritten
  BY <1>1 DEF Init, Agree, PageSound, DecodedAsWritten
<1>5. InOrder
  BY <1>1, <1>2 DEF InOrder, EmittedInOrder
<1>6. QED
  BY <1>3, <1>4, <1>5 DEF TimerInv

LEMMA TimerInvariant == Spec => []TimerInv
BY InitTimer, TimerInductive, PTL DEF Spec

(***************************************************************************)
(* The loops of dispatch decode every record in the format that the kernel *)
(* wrote it in, whenever the application changes priv->event_type.         *)
(***************************************************************************)
THEOREM RecordsDecodedAsWritten == Spec => []DecodedAsWritten
<1>1. TimerInv => DecodedAsWritten
  BY DEF TimerInv
<1>2. QED
  BY <1>1, TimerInvariant, PTL

(***************************************************************************)
(* Events are emitted in the order in which the timer fired, none twice,   *)
(* for any sizes of page, records and queue.                               *)
(***************************************************************************)
THEOREM EventsEmittedInOrder == Spec => []EmittedInOrder
<1>1. TimerInv => EmittedInOrder
  BY DEF TimerInv, InOrder
<1>2. QED
  BY <1>1, TimerInvariant, PTL

(***************************************************************************)
(* The loop of dispatch ends only after the last record of the page: the   *)
(* test of the length and the step by the size of a record leave no record *)
(* out, for any sizes.                                                     *)
(***************************************************************************)
THEOREM NoRecordSkipped == Spec => NoneSkipped
<1> DEFINE End == pc = "walk" /\ pc' = "idle" =>
                    \E i \in 1..Len(emitted) : emitted[i].record = buf[Len(buf)]
<1>1. TimerInv /\ [Next]_vars => [End]_vars
  <2> SUFFICES ASSUME TimerInv, [Next]_vars, pc = "walk", pc' = "idle"
               PROVE  \E i \in 1..Len(emitted) : emitted[i].record = buf[Len(buf)]
    OBVIOUS
  <2>1. ~MoreRecords
    <3>1. AppStep => pc' = pc
      BY AppEffect DEF TimerInv
    <3>2. QED
      BY <3>1, Steps DEF Fire, Check, Dispatch, Switch, Emit, DispatchContinues, loopVars
  <2>2. Passed = Len(buf) /\ Len(buf) > 0
    <3>1. Passed \in 0..Len(buf) /\ Len(buf) \in Nat /\ ~(Passed < Len(buf))
      BY <2>1, Walk DEF TimerInv
    <3>2. Len(buf) > 0
      BY Lengths DEF TimerInv, PageSound
    <3>3. QED
      BY <3>1, <3>2
  <2>3. QED
    BY <2>2 DEF TimerInv, PageSound
<1>2. QED
  BY <1>1, TimerInvariant, PTL DEF Spec, NoneSkipped
=============================================================================
