------------------------ MODULE SeqUserClientProofs ------------------------
(***************************************************************************)
(* Proofs about the flat layout of events and about the event path of      *)
(* ALSASeqUserClient.                                                      *)
(***************************************************************************)
EXTENDS SeqUserClient, SequenceTheorems, NaturalsInduction, WellFoundedInduction, TLAPS

\* The events, and the bytes of a buffer.
Events == [id : Nat, variable : BOOLEAN, len : Nat]
Bytes == [what : {"struct", "blob", "zero"}, of : Events, at : Nat]

\* f[i] is what the first i sequences of parts make when they are joined.
Joins(f, parts, n) ==
    \A i \in 1..n : f[i] = IF i = 1 THEN parts[i] ELSE f[i - 1] \o parts[i]

\* The bytes that an event takes in a buffer.
Piece(event, aligned) ==
    seq_event_copy_flattened(event, seq_event_calculate_flattened_length(event, aligned))

\* The buffer for the first k events of a list.
BufferOf(events, k, aligned) == seq_event_cntr_serialize(SubSeq(events, 1, k), aligned)

\* The length of the blob that follows the structure of an event.
BlobLen(event) == IF event.variable THEN event.len ELSE 0

\* The events of a list have increasing numbers.
Increasing(events) ==
    \A i, j \in 1..Len(events) : i < j => events[i].id < events[j].id

\* A handler has the buffer of a list of events, and its iterator is between
\* two of them or at an end.
AtPiece(h, events, k) ==
    /\ h.buf = seq_event_cntr_serialize(events, TRUE)
    /\ h.offset = Len(BufferOf(events, k, TRUE))

Batch(h) == \E events \in Seq(Events) :
                Increasing(events) /\ \E k \in 0..Len(events) : AtPiece(h, events, k)

\* The numbers of the events that a handler has still to get.
Pending(h) == {h.buf[i].of.id : i \in (h.offset + 1)..Len(h.buf)}

ClientType ==
    /\ posted \in Nat
    /\ fifo \in Seq(Events)
    /\ handlers \in Seq([buf : Seq(Bytes), offset : Nat])
    /\ received \in Seq([depth : Nat,
                          copy : [event : Events, intact : BOOLEAN, blob : Seq(Bytes)]])

\* The event of number n was scheduled before those of the FIFO.
BeforeFifo(n) == n <= posted /\ \A i \in 1..Len(fifo) : n < fifo[i].id

\* The innermost handler has the latest events.
HandlersSound ==
    \A d \in 1..Depth :
        /\ Batch(handlers[d])
        /\ \A n \in Pending(handlers[d]) :
              /\ BeforeFifo(n)
              /\ \A e \in 1..Depth : d < e => \A m \in Pending(handlers[e]) : n < m

\* An event that was received is not in the FIFO, and no handler has still to
\* get it; a handler that is as deep, or deeper, has later ones.
ReceivedSound ==
    \A r \in 1..Len(received) :
        /\ BeforeFifo(Id(received[r]))
        /\ \A d \in 1..Depth : \A n \in Pending(handlers[d]) :
              /\ Id(received[r]) # n
              /\ received[r].depth <= d => Id(received[r]) < n

FifoSound == Increasing(fifo) /\ \A i \in 1..Len(fifo) : fifo[i].id <= posted

\* The inductive invariant.
ClientInv ==
    /\ ClientType /\ FifoSound /\ HandlersSound /\ ReceivedSound
    /\ ReceivedFaithful /\ ReceivedInOrder
----------------------------------------------------------------------------
\* A set of natural numbers that is not empty has a least member.
LEMMA Least ==
    ASSUME NEW T \in SUBSET Nat, T # {}
    PROVE  \E x \in T : \A y \in T : x <= y
<1> DEFINE R == {ss \in Nat \X Nat : ss[1] < ss[2]}
<1>1. IsWellFoundedOn(R, Nat)
  BY NatLessThanWellFounded, Zenon DEF OpToRel
<1>2. R = {ss \in Nat \X Nat : ss[1] < ss[2]}
  OBVIOUS
<1> HIDE DEF R
<1>3. PICK x \in T : \A y \in T : ~(<<y, x>> \in R)
  BY <1>1, WFMin
<1>4. ASSUME NEW y \in T PROVE x <= y
  <2>1. ~(y < x)
    BY <1>2, <1>3
  <2>2. QED
    BY <2>1
<1>5. QED
  BY <1>3, <1>4

\* Induction from 1: a set that has 1, and with a number the next one, as
\* far as n, has all the numbers from 1 to n.
LEMMA FromOne ==
    ASSUME NEW n \in Nat, NEW T,
           1 \in T,
           \A i \in 1..n : i \in T /\ i < n => i + 1 \in T
    PROVE  \A i \in 1..n : i \in T
<1> SUFFICES ASSUME NEW j \in 1..n, j \notin T PROVE FALSE
  OBVIOUS
<1> DEFINE U == {i \in 1..n : i \notin T}
<1>1. PICK x \in U : \A y \in U : x <= y
  <2>1. U \in SUBSET Nat /\ j \in U
    OBVIOUS
  <2>2. QED
    BY <2>1, Least
<1>2. x # 1 /\ x \in 1..n
  BY <1>1
<1>3. x - 1 \in 1..n /\ x - 1 < n /\ x - 1 \notin U
  BY <1>1, <1>2
<1>4. (x - 1) + 1 \in T
  BY <1>3
<1>5. QED
  BY <1>1, <1>2, <1>4

\* Any sequence of sequences can be joined.
LEMMA JoinExists ==
    ASSUME NEW B, NEW parts \in Seq(Seq(B))
    PROVE  \E f \in [1..Len(parts) -> Seq(B)] : Joins(f, parts, Len(parts))
<1> DEFINE n == Len(parts)
           T == {i \in 1..n : \E f \in [1..i -> Seq(B)] : Joins(f, parts, i)}
<1>1. n \in Nat /\ \A i \in 1..n : parts[i] \in Seq(B)
  OBVIOUS
<1>2. CASE n = 0
  <2>1. [i \in 1..0 |-> <<>>] \in [1..0 -> Seq(B)]
    OBVIOUS
  <2>2. Joins([i \in 1..0 |-> <<>>], parts, 0)
    BY DEF Joins
  <2>3. QED
    BY <1>2, <2>1, <2>2
<1>3. CASE n # 0
  <2>1. 1 \in T
    <3>1. [i \in 1..1 |-> parts[1]] \in [1..1 -> Seq(B)]
      BY <1>1, <1>3
    <3>2. Joins([i \in 1..1 |-> parts[1]], parts, 1)
      BY DEF Joins
    <3>3. QED
      BY <1>1, <1>3, <3>1, <3>2
  <2>2. ASSUME NEW i \in 1..n, i \in T, i < n PROVE i + 1 \in T
    <3>1. PICK f \in [1..i -> Seq(B)] : Joins(f, parts, i)
      BY <2>2
    <3> DEFINE g == [k \in 1..(i + 1) |-> IF k = i + 1 THEN f[i] \o parts[k] ELSE f[k]]
    <3>2. i + 1 \in 1..n /\ i \in 1..i /\ parts[i + 1] \in Seq(B)
      BY <1>1, <2>2
    <3>3. f[i] \o parts[i + 1] \in Seq(B)
      BY <3>1, <3>2, ConcatProperties
    <3>4. g \in [1..(i + 1) -> Seq(B)]
      BY <3>1, <3>2, <3>3
    <3>5. Joins(g, parts, i + 1)
      <4> SUFFICES ASSUME NEW k \in 1..(i + 1)
                   PROVE  g[k] = IF k = 1 THEN parts[k] ELSE g[k - 1] \o parts[k]
        BY DEF Joins
      <4>1. CASE k = i + 1
        <5>1. k # 1 /\ k - 1 = i /\ i \in 1..(i + 1) /\ i # i + 1
          BY <4>1
        <5>2. g[k] = f[i] \o parts[k] /\ g[i] = f[i]
          BY <4>1, <5>1, Zenon
        <5>3. QED
          BY <5>1, <5>2, Zenon
      <4>2. CASE k # i + 1
        <5>1. k \in 1..i /\ g[k] = f[k] /\ (k # 1 => g[k - 1] = f[k - 1])
          BY <3>2, <4>2
        <5>2. f[k] = IF k = 1 THEN parts[k] ELSE f[k - 1] \o parts[k]
          BY <3>1, <5>1 DEF Joins
        <5>3. QED
          BY <5>1, <5>2
      <4>3. QED
        BY <4>1, <4>2
    <3>6. QED
      BY <3>2, <3>4, <3>5
  <2>3. n \in T
    <3> HIDE DEF T
    <3>1. \A i \in 1..n : i \in T
      BY <1>1, <2>1, <2>2, FromOne
    <3>2. QED
      BY <1>1, <1>3, <3>1
  <2>4. QED
    BY <2>3
<1>4. QED
  BY <1>2, <1>3

\* They can be joined in one way only.
LEMMA JoinUnique ==
    ASSUME NEW n \in Nat, NEW parts, NEW f, NEW g,
           Joins(f, parts, n), Joins(g, parts, n)
    PROVE  \A i \in 1..n : f[i] = g[i]
<1> DEFINE T == {i \in Nat : i > n \/ f[i] = g[i]}
<1>1. 1 \in T
  BY DEF Joins
<1>2. ASSUME NEW i \in 1..n, i \in T, i < n PROVE i + 1 \in T
  <2>1. i + 1 \in 1..n /\ i + 1 # 1 /\ (i + 1) - 1 = i
    BY <1>2
  <2>2. f[i + 1] = f[i] \o parts[i + 1] /\ g[i + 1] = g[i] \o parts[i + 1]
    BY <2>1 DEF Joins
  <2>3. f[i] = g[i]
    BY <1>2
  <2>4. f[i + 1] = g[i + 1]
    BY <2>2, <2>3
  <2>5. QED
    BY <2>1, <2>4
<1>3. \A i \in 1..n : i \in T
  <2> HIDE DEF T
  <2>1. QED
    BY <1>1, <1>2, FromOne
<1>4. QED
  BY <1>3

\* What FlattenSeq() answers is what the parts make when they are joined.
LEMMA FlattenJoins ==
    ASSUME NEW B, NEW parts \in Seq(Seq(B)), Len(parts) # 0,
           NEW f \in [1..Len(parts) -> Seq(B)], Joins(f, parts, Len(parts))
    PROVE  FlattenSeq(parts) = f[Len(parts)]
<1> DEFINE n == Len(parts)
           Rule(g) == [i \in 1..n |-> IF i = 1 THEN parts[i] ELSE g[i - 1] \o parts[i]]
           flatten == CHOOSE g : g = Rule(g)
<1>1. n \in Nat /\ n \in 1..n
  OBVIOUS
<1>2. f = Rule(f)
  BY DEF Joins
<1>3. flatten = Rule(flatten)
  BY <1>2
<1>4. Joins(flatten, parts, n)
  <2> HIDE DEF flatten
  <2>1. QED
    BY <1>3 DEF Joins
<1>5. flatten[n] = f[n]
  <2> HIDE DEF flatten
  <2>1. QED
    BY <1>1, <1>4, JoinUnique
<1>6. FlattenSeq(parts) = flatten[n]
  BY DEF FlattenSeq
<1>7. QED
  BY <1>5, <1>6
----------------------------------------------------------------------------
\* Rounding up to a multiple: seq_event_calculate_flattened_length() with
\* the alignment that read(2) uses never gives less than the length.
LEMMA RoundUp ==
    ASSUME NEW length \in Nat, NEW size \in Nat \ {0}
    PROVE  /\ ((length + size - 1) \div size) * size \in Nat
           /\ ((length + size - 1) \div size) * size >= length
<1> DEFINE x == length + size - 1
           d == x \div size
<1>1. x \in Nat /\ x = length + size - 1
  OBVIOUS
<1> HIDE DEF x
<1>2. d \in Nat /\ x % size \in 0..(size - 1) /\ x = size * d + (x % size)
  BY <1>1
<1> HIDE DEF d
<1>3. size * d = d * size /\ d * size \in Nat
  BY <1>2
<1>4. d * size >= length
  BY <1>1, <1>2, <1>3
<1>5. QED
  BY <1>3, <1>4 DEF d, x

\* The structure of an event and its blob have room in its piece.
LEMMA FlatLength ==
    ASSUME NEW event \in Events, NEW aligned \in BOOLEAN
    PROVE  /\ seq_event_calculate_flattened_length(event, aligned) \in Nat
           /\ seq_event_calculate_flattened_length(event, aligned)
                >= EvSize + BlobLen(event)
           /\ BlobLen(event) \in Nat
<1> DEFINE length == EvSize + BlobLen(event)
<1>1. BlobLen(event) \in Nat /\ length \in Nat
  BY EvSizeAssumption DEF Events, BlobLen
<1>2. ((length + EvSize - 1) \div EvSize) * EvSize \in Nat
      /\ ((length + EvSize - 1) \div EvSize) * EvSize >= length
  <2> HIDE DEF length
  <2>1. QED
    BY <1>1, EvSizeAssumption, RoundUp
<1>3. seq_event_calculate_flattened_length(event, aligned) =
        IF aligned THEN ((length + EvSize - 1) \div EvSize) * EvSize ELSE length
  BY DEF seq_event_calculate_flattened_length, BlobLen
<1> HIDE DEF length
<1>4. seq_event_calculate_flattened_length(event, aligned) \in Nat
      /\ seq_event_calculate_flattened_length(event, aligned) >= length
  <2>1. CASE aligned
    BY <1>2, <1>3, <2>1
  <2>2. CASE ~aligned
    BY <1>1, <1>3, <2>2
  <2>3. QED
    BY <2>1, <2>2
<1>5. QED
  BY <1>1, <1>4 DEF length

\* What seq_event_copy_flattened() puts into the piece of an event.
LEMMA PieceBytes ==
    ASSUME NEW event \in Events, NEW aligned \in BOOLEAN
    PROVE  LET n == seq_event_calculate_flattened_length(event, aligned) IN
           /\ Piece(event, aligned) \in Seq(Bytes)
           /\ Len(Piece(event, aligned)) = n
           /\ n \in Nat /\ n >= EvSize + BlobLen(event)
           /\ \A i \in 1..n : Piece(event, aligned)[i].of = event
           /\ \A i \in 1..EvSize : Piece(event, aligned)[i] = Byte("struct", event, i)
           /\ \A i \in 1..BlobLen(event) :
                 Piece(event, aligned)[EvSize + i] = Byte("blob", event, i)
<1> DEFINE n == seq_event_calculate_flattened_length(event, aligned)
           p == Piece(event, aligned)
           b == BlobLen(event)
<1>1. n \in Nat /\ n >= EvSize + b /\ b \in Nat /\ EvSize \in Nat
  BY FlatLength, EvSizeAssumption
<1>2. p = [i \in 1..n |->
              IF i <= EvSize THEN Byte("struct", event, i)
              ELSE IF event.variable /\ i <= EvSize + event.len
                   THEN Byte("blob", event, i - EvSize)
                   ELSE Byte("zero", event, 0)]
  BY DEF Piece, seq_event_copy_flattened
<1>3. b = IF event.variable THEN event.len ELSE 0
  BY DEF BlobLen
<1>4. event.variable \in BOOLEAN /\ event.len \in Nat
  BY DEF Events
<1> HIDE DEF n, p, b
<1>5. ASSUME NEW i \in 1..n PROVE p[i] \in Bytes /\ p[i].of = event
  <2>1. CASE i <= EvSize
    BY <1>1, <1>2, <2>1 DEF Byte, Bytes
  <2>2. CASE i > EvSize /\ event.variable /\ i <= EvSize + event.len
    <3>1. p[i] = Byte("blob", event, i - EvSize) /\ i - EvSize \in Nat
      BY <1>1, <1>2, <2>2
    <3>2. QED
      BY <3>1 DEF Byte, Bytes
  <2>3. CASE i > EvSize /\ ~(event.variable /\ i <= EvSize + event.len)
    <3>1. p[i] = Byte("zero", event, 0)
      BY <1>1, <1>2, <2>3
    <3>2. QED
      BY <3>1 DEF Byte, Bytes
  <2>4. QED
    BY <1>1, <2>1, <2>2, <2>3
<1>6. p \in [1..n -> Bytes]
  BY <1>2, <1>5
<1>7. p \in Seq(Bytes) /\ Len(p) = n
  BY <1>1, <1>6
<1>8. ASSUME NEW i \in 1..EvSize PROVE p[i] = Byte("struct", event, i)
  BY <1>1, <1>2
<1>9. ASSUME NEW i \in 1..b PROVE p[EvSize + i] = Byte("blob", event, i)
  <2>1. event.variable /\ i <= event.len
    BY <1>1, <1>3, <1>4
  <2>2. EvSize + i \in 1..n /\ ~(EvSize + i <= EvSize) /\ EvSize + i <= EvSize + event.len
        /\ (EvSize + i) - EvSize = i
    BY <1>1, <1>4, <2>1
  <2>3. QED
    BY <1>2, <2>1, <2>2
<1>10. QED
  BY <1>1, <1>5, <1>7, <1>8, <1>9 DEF n, p, b
----------------------------------------------------------------------------
\* The buffer for no event is empty.
LEMMA FrontEmpty ==
    ASSUME NEW events, NEW aligned
    PROVE  BufferOf(events, 0, aligned) = <<>>
<1>1. SubSeq(events, 1, 0) = <<>>
  BY SubSeqEmpty
<1>2. QED
  BY <1>1 DEF BufferOf, seq_event_cntr_serialize, FlattenSeq

\* seq_event_cntr_serialize() is the joining of the pieces of the events, also
\* for a part of the list.
LEMMA FrontJoins ==
    ASSUME NEW events \in Seq(Events), NEW aligned \in BOOLEAN
    PROVE  LET parts == [i \in 1..Len(events) |-> Piece(events[i], aligned)] IN
           \E f \in [1..Len(events) -> Seq(Bytes)] :
               /\ Joins(f, parts, Len(events))
               /\ \A k \in 1..Len(events) : BufferOf(events, k, aligned) = f[k]
<1> DEFINE n == Len(events)
           parts == [i \in 1..n |-> Piece(events[i], aligned)]
<1>1. n \in Nat /\ \A i \in 1..n : events[i] \in Events
  OBVIOUS
<1>2. \A i \in 1..n : Piece(events[i], aligned) \in Seq(Bytes)
  BY <1>1, PieceBytes
<1>3. parts \in Seq(Seq(Bytes)) /\ Len(parts) = n
  <2>1. parts \in [1..n -> Seq(Bytes)]
    BY <1>2
  <2>2. QED
    BY <1>1, <2>1
<1>4. PICK f \in [1..n -> Seq(Bytes)] : Joins(f, parts, n)
  <2> HIDE DEF parts
  <2>1. QED
    BY <1>3, JoinExists
<1>5. ASSUME NEW k \in 1..n PROVE BufferOf(events, k, aligned) = f[k]
  <2> DEFINE some == SubSeq(events, 1, k)
             those == [i \in 1..k |-> parts[i]]
             h == [i \in 1..k |-> f[i]]
  <2>1. some \in Seq(Events) /\ Len(some) = k /\ \A i \in 1..k : some[i] = events[i]
    BY <1>1
  <2>2. those = [i \in 1..Len(some) |->
            seq_event_copy_flattened(some[i],
                seq_event_calculate_flattened_length(some[i], aligned))]
    BY <2>1 DEF Piece
  <2>3. BufferOf(events, k, aligned) = FlattenSeq(those)
    BY <2>2 DEF BufferOf, seq_event_cntr_serialize
  <2>4. those \in Seq(Seq(Bytes)) /\ Len(those) = k
    <3>1. \A i \in 1..k : i \in 1..n
      BY <1>1
    <3>2. those \in [1..k -> Seq(Bytes)]
      BY <1>2, <3>1
    <3>3. k \in Nat
      BY <1>1
    <3> HIDE DEF those
    <3>4. QED
      BY <3>2, <3>3
  <2>5. h \in [1..k -> Seq(Bytes)]
    BY <1>4
  <2>6. Joins(h, those, k)
    <3> SUFFICES ASSUME NEW i \in 1..k
                 PROVE  h[i] = IF i = 1 THEN those[i] ELSE h[i - 1] \o those[i]
      BY DEF Joins
    <3>1. i \in 1..n /\ h[i] = f[i] /\ those[i] = parts[i]
          /\ (i # 1 => h[i - 1] = f[i - 1])
      BY <1>1
    <3>2. f[i] = IF i = 1 THEN parts[i] ELSE f[i - 1] \o parts[i]
      BY <1>4, <3>1 DEF Joins
    <3>3. QED
      BY <3>1, <3>2
  <2>7. k # 0 /\ k \in 1..k /\ h[k] = f[k]
    BY <1>1
  <2> HIDE DEF some, those, h
  <2>8. QED
    BY <2>3, <2>4, <2>5, <2>6, <2>7, FlattenJoins
<1>6. QED
  BY <1>4, <1>5

\* Each event of a list adds its piece to the buffer.
LEMMA FrontNext ==
    ASSUME NEW events \in Seq(Events), NEW aligned \in BOOLEAN, NEW k \in 1..Len(events)
    PROVE  /\ BufferOf(events, k - 1, aligned) \in Seq(Bytes)
           /\ BufferOf(events, k, aligned) =
                 BufferOf(events, k - 1, aligned) \o Piece(events[k], aligned)
           /\ Piece(events[k], aligned) \in Seq(Bytes)
<1> DEFINE n == Len(events)
           parts == [i \in 1..n |-> Piece(events[i], aligned)]
<1>1. PICK f \in [1..n -> Seq(Bytes)] :
          Joins(f, parts, n) /\ \A i \in 1..n : BufferOf(events, i, aligned) = f[i]
  BY FrontJoins
<1>2. f[k] = (IF k = 1 THEN parts[k] ELSE f[k - 1] \o parts[k])
      /\ parts[k] = Piece(events[k], aligned)
  BY <1>1 DEF Joins
<1>3. Piece(events[k], aligned) \in Seq(Bytes)
  BY PieceBytes
<1>4. BufferOf(events, k, aligned) = f[k]
  BY <1>1
<1> HIDE DEF parts
<1>5. CASE k = 1
  <2>1. BufferOf(events, k - 1, aligned) = <<>>
    <3>1. k - 1 = 0
      BY <1>5
    <3>2. QED
      BY <3>1, FrontEmpty
  <2>2. <<>> \o Piece(events[k], aligned) = Piece(events[k], aligned)
    BY <1>3, ConcatEmptySeq
  <2>3. BufferOf(events, k, aligned) = Piece(events[k], aligned)
    BY <1>2, <1>4, <1>5
  <2>4. <<>> \in Seq(Bytes)
    OBVIOUS
  <2>5. QED
    BY <1>3, <2>1, <2>2, <2>3, <2>4
<1>6. CASE k # 1
  <2>1. k - 1 \in 1..n
    BY <1>6
  <2>2. BufferOf(events, k - 1, aligned) = f[k - 1] /\ f[k - 1] \in Seq(Bytes)
    BY <1>1, <2>1
  <2>3. QED
    BY <1>2, <1>3, <1>4, <1>6, <2>2
<1>7. QED
  BY <1>5, <1>6

LEMMA FrontType ==
    ASSUME NEW events \in Seq(Events), NEW aligned \in BOOLEAN, NEW k \in 0..Len(events)
    PROVE  /\ BufferOf(events, k, aligned) \in Seq(Bytes)
           /\ Len(BufferOf(events, k, aligned)) \in Nat
<1>1. CASE k = 0
  <2>1. BufferOf(events, k, aligned) = <<>>
    BY <1>1, FrontEmpty
  <2>2. QED
    BY <2>1
<1>2. CASE k # 0
  <2>1. k \in 1..Len(events)
    BY <1>2
  <2>2. BufferOf(events, k, aligned) \in Seq(Bytes)
    <3>1. PICK s \in Seq(Bytes), t \in Seq(Bytes) : BufferOf(events, k, aligned) = s \o t
      BY <2>1, FrontNext
    <3>2. QED
      BY <3>1, ConcatProperties
  <2>3. QED
    BY <2>2
<1>3. QED
  BY <1>1, <1>2

\* The buffer for the whole list.
LEMMA FrontWhole ==
    ASSUME NEW events \in Seq(Events), NEW aligned
    PROVE  BufferOf(events, Len(events), aligned) = seq_event_cntr_serialize(events, aligned)
<1>1. SubSeq(events, 1, Len(events)) = events
  BY SubSeqFull
<1>2. QED
  BY <1>1 DEF BufferOf

\* Each event makes the buffer longer, by the length of its piece.
LEMMA FrontGrows ==
    ASSUME NEW events \in Seq(Events), NEW aligned \in BOOLEAN, NEW k \in 1..Len(events)
    PROVE  /\ Len(BufferOf(events, k, aligned)) = Len(BufferOf(events, k - 1, aligned))
                  + seq_event_calculate_flattened_length(events[k], aligned)
           /\ Len(BufferOf(events, k - 1, aligned)) < Len(BufferOf(events, k, aligned))
           /\ Len(BufferOf(events, k - 1, aligned)) \in Nat
<1> DEFINE s == BufferOf(events, k - 1, aligned)
           p == Piece(events[k], aligned)
           m == seq_event_calculate_flattened_length(events[k], aligned)
<1>1. s \in Seq(Bytes) /\ p \in Seq(Bytes) /\ BufferOf(events, k, aligned) = s \o p
  BY FrontNext
<1>2. Len(p) = m /\ m \in Nat /\ m >= EvSize + BlobLen(events[k])
  BY PieceBytes
<1>3. BlobLen(events[k]) \in Nat /\ EvSize \in Nat \ {0}
  BY FlatLength, EvSizeAssumption
<1> HIDE DEF s, p, m
<1>4. Len(s \o p) = Len(s) + Len(p) /\ Len(s) \in Nat
  BY <1>1, ConcatProperties
<1>5. QED
  BY <1>1, <1>2, <1>3, <1>4 DEF s, p, m

\* The more events of a list, the longer their buffer: the loop of
\* alsaseq_user_client_schedule_events() can tell them by it.
LEMMA EndsIncrease ==
    ASSUME NEW events \in Seq(Events), NEW aligned \in BOOLEAN,
           NEW i \in 0..Len(events), NEW j \in 0..Len(events), i < j
    PROVE  Len(BufferOf(events, i, aligned)) < Len(BufferOf(events, j, aligned))
<1> DEFINE n == Len(events)
           e(k) == Len(BufferOf(events, k, aligned))
           T == {k \in 1..n : \A h \in 0..n : h < k => e(h) < e(k)}
<1>1. n \in Nat /\ n # 0
  OBVIOUS
<1>2. \A k \in 0..n : e(k) \in Nat
  BY FrontType
<1>3. \A k \in 1..n : e(k - 1) < e(k)
  BY FrontGrows
<1> HIDE DEF e
<1>4. 1 \in T
  BY <1>1, <1>3
<1>5. ASSUME NEW k \in 1..n, k \in T, k < n PROVE k + 1 \in T
  <2>1. e(k) < e(k + 1) /\ k + 1 \in 1..n
    BY <1>1, <1>3, <1>5
  <2>2. ASSUME NEW h \in 0..n, h < k + 1 PROVE e(h) < e(k + 1)
    <3>1. CASE h = k
      BY <2>1, <3>1
    <3>2. CASE h # k
      <4>1. e(h) < e(k)
        BY <1>5, <2>2, <3>2
      <4>2. e(h) \in Nat /\ e(k) \in Nat /\ e(k + 1) \in Nat
        BY <1>2, <2>1
      <4>3. QED
        BY <2>1, <4>1, <4>2
    <3>3. QED
      BY <3>1, <3>2
  <2>3. QED
    BY <2>1, <2>2
<1>6. \A k \in 1..n : k \in T
  <2> HIDE DEF T
  <2>1. QED
    BY <1>1, <1>4, <1>5, FromOne
<1>7. j \in T
  BY <1>6
<1>8. QED
  BY <1>7 DEF e

\* The bytes of the first events stay where they are when events follow.
LEMMA FrontKept ==
    ASSUME NEW events \in Seq(Events), NEW aligned \in BOOLEAN,
           NEW k \in 0..Len(events), NEW j \in k..Len(events),
           NEW b \in 1..Len(BufferOf(events, k, aligned))
    PROVE  BufferOf(events, j, aligned)[b] = BufferOf(events, k, aligned)[b]
<1> DEFINE n == Len(events)
           f(x) == BufferOf(events, x, aligned)
           T == {x \in 0..n : x < k \/ f(x)[b] = f(k)[b]}
<1>1. n \in Nat /\ k \in 0..n
  OBVIOUS
<1>2. \A x \in 0..n : f(x) \in Seq(Bytes) /\ Len(f(x)) \in Nat
  BY FrontType
<1>3. \A x \in 1..n : f(x) = f(x - 1) \o Piece(events[x], aligned)
                      /\ Piece(events[x], aligned) \in Seq(Bytes)
  BY FrontNext
<1>4. \A x, y \in 0..n : x < y => Len(f(x)) < Len(f(y))
  BY EndsIncrease
<1>5. b \in 1..Len(f(k))
  OBVIOUS
<1> HIDE DEF f
<1>6. ASSUME NEW x \in 1..n, x - 1 \in T PROVE x \in T
  <2>1. CASE x <= k
    BY <1>1, <2>1
  <2>2. CASE x > k
    <3>1. x - 1 \in 0..n /\ f(x - 1)[b] = f(k)[b]
      BY <1>1, <1>6, <2>2
    <3>2. Len(f(k)) <= Len(f(x - 1))
      <4>1. CASE x - 1 = k
        BY <1>2, <4>1
      <4>2. CASE x - 1 # k
        <5>1. k < x - 1
          BY <1>1, <2>2, <4>2
        <5>2. Len(f(k)) < Len(f(x - 1))
          BY <1>1, <1>4, <3>1, <5>1
        <5>3. QED
          BY <1>1, <1>2, <3>1, <5>2
      <4>3. QED
        BY <4>1, <4>2
    <3>3. b \in 1..Len(f(x - 1))
      BY <1>1, <1>2, <1>5, <3>1, <3>2
    <3> DEFINE p == Piece(events[x], aligned)
    <3>4. f(x - 1) \in Seq(Bytes) /\ p \in Seq(Bytes) /\ f(x) = f(x - 1) \o p
      BY <1>2, <1>3, <3>1
    <3> HIDE DEF p
    <3>5. f(x)[b] = f(x - 1)[b]
      BY <3>3, <3>4
    <3>6. QED
      BY <3>1, <3>5
  <2>3. QED
    BY <1>1, <2>1, <2>2
<1>7. 0 \in T
  <2>1. CASE k = 0
    BY <1>1, <2>1
  <2>2. CASE k # 0
    BY <1>1, <2>2
  <2>3. QED
    BY <2>1, <2>2
<1>8. \A x \in 1..n : x \in T
  <2>1. CASE n = 0
    BY <2>1
  <2>2. CASE n # 0
    <3>1. 1 \in T
      BY <1>1, <1>6, <1>7, <2>2
    <3>2. ASSUME NEW x \in 1..n, x \in T, x < n PROVE x + 1 \in T
      <4>1. x + 1 \in 1..n /\ (x + 1) - 1 = x
        BY <1>1, <3>2
      <4> HIDE DEF T
      <4>2. QED
        BY <1>6, <3>2, <4>1
    <3> HIDE DEF T
    <3>3. QED
      BY <1>1, <3>1, <3>2, FromOne
  <2>3. QED
    BY <2>1, <2>2
<1>9. j \in T
  <2>1. j = 0 \/ j \in 1..n
    BY <1>1
  <2> HIDE DEF T
  <2>2. QED
    BY <1>7, <1>8, <2>1
<1>10. QED
  BY <1>1, <1>9 DEF f

\* Where the piece of the k-th event is in the buffer of a list.
LEMMA Layout ==
    ASSUME NEW events \in Seq(Events), NEW aligned \in BOOLEAN, NEW k \in 1..Len(events)
    PROVE  LET buf == seq_event_cntr_serialize(events, aligned)
               at == Len(BufferOf(events, k - 1, aligned))
               m == seq_event_calculate_flattened_length(events[k], aligned)
           IN  /\ buf \in Seq(Bytes) /\ Len(buf) \in Nat
               /\ at \in Nat /\ at + m = Len(BufferOf(events, k, aligned))
               /\ at + m <= Len(buf)
               /\ \A i \in 1..m : buf[at + i] = Piece(events[k], aligned)[i]
<1> DEFINE n == Len(events)
           buf == seq_event_cntr_serialize(events, aligned)
           s == BufferOf(events, k - 1, aligned)
           p == Piece(events[k], aligned)
           m == seq_event_calculate_flattened_length(events[k], aligned)
<1>1. n \in Nat /\ n \in 0..n /\ k \in 0..n /\ n \in k..n
  OBVIOUS
<1>2. buf = BufferOf(events, n, aligned) /\ buf \in Seq(Bytes) /\ Len(buf) \in Nat
  BY <1>1, FrontWhole, FrontType
<1>3. s \in Seq(Bytes) /\ p \in Seq(Bytes) /\ BufferOf(events, k, aligned) = s \o p
  BY FrontNext
<1>4. Len(p) = m /\ m \in Nat
  BY PieceBytes
<1>5. Len(BufferOf(events, k, aligned)) <= Len(buf)
  <2>1. CASE k = n
    BY <1>2, <2>1
  <2>2. CASE k # n
    <3>1. k < n
      BY <1>1, <2>2
    <3>2. Len(BufferOf(events, k, aligned)) < Len(BufferOf(events, n, aligned))
      BY <1>1, <3>1, EndsIncrease
    <3>3. Len(BufferOf(events, k, aligned)) \in Nat
      BY <1>1, FrontType
    <3>4. QED
      BY <1>2, <3>2, <3>3
  <2>3. QED
    BY <2>1, <2>2
<1>6. \A b \in 1..Len(BufferOf(events, k, aligned)) : buf[b] = BufferOf(events, k, aligned)[b]
  BY <1>1, <1>2, FrontKept
<1> HIDE DEF buf, s, p, m
<1>7. Len(s \o p) = Len(s) + m /\ Len(s) \in Nat
  BY <1>3, <1>4, ConcatProperties
<1>8. ASSUME NEW i \in 1..m PROVE buf[Len(s) + i] = p[i]
  <2>1. Len(s) + i \in 1..(Len(s) + Len(p)) /\ ~(Len(s) + i <= Len(s))
        /\ (Len(s) + i) - Len(s) = i
    BY <1>4, <1>7
  <2>2. (s \o p)[Len(s) + i] = p[i]
    BY <1>3, <2>1, ConcatProperties
  <2>3. buf[Len(s) + i] = (s \o p)[Len(s) + i]
    BY <1>3, <1>4, <1>6, <1>7, <2>1
  <2>4. QED
    BY <2>2, <2>3
<1>9. QED
  BY <1>2, <1>3, <1>5, <1>7, <1>8 DEF buf, s, p, m

\* An iterator at the piece of an event finds the event there, and goes on to
\* the end of the piece: seq_event_iter_next().
LEMMA NextAtPiece ==
    ASSUME NEW events \in Seq(Events), NEW aligned \in BOOLEAN, NEW k \in 1..Len(events)
    PROVE  LET buf == seq_event_cntr_serialize(events, aligned)
               at == Len(BufferOf(events, k - 1, aligned))
           IN  /\ EventAt(buf, at) = events[k]
               /\ NextOffset(buf, at, aligned) = Len(BufferOf(events, k, aligned))
               /\ HasNext(buf, at, aligned)
<1> DEFINE buf == seq_event_cntr_serialize(events, aligned)
           at == Len(BufferOf(events, k - 1, aligned))
           m == seq_event_calculate_flattened_length(events[k], aligned)
           p == Piece(events[k], aligned)
<1>1. /\ Len(buf) \in Nat /\ at \in Nat /\ at + m = Len(BufferOf(events, k, aligned))
      /\ at + m <= Len(buf) /\ \A i \in 1..m : buf[at + i] = p[i]
  BY Layout
<1>2. m \in Nat /\ m >= EvSize + BlobLen(events[k]) /\ \A i \in 1..m : p[i].of = events[k]
  BY PieceBytes
<1>3. EvSize \in Nat \ {0} /\ BlobLen(events[k]) \in Nat
  BY FlatLength, EvSizeAssumption
<1>4. 1 \in 1..m
  BY <1>2, <1>3
<1>5. EventAt(buf, at) = events[k]
  BY <1>1, <1>2, <1>4 DEF EventAt
<1>6. NextOffset(buf, at, aligned) = at + m
  BY <1>5 DEF NextOffset
<1> HIDE DEF buf, at, m, p
<1>7. at < Len(buf)
  BY <1>1, <1>2, <1>4
<1>8. HasNext(buf, at, aligned)
  BY <1>1, <1>6, <1>7 DEF HasNext
<1>9. QED
  BY <1>1, <1>5, <1>6, <1>8 DEF buf, at, m

\* The copy that seq_event_copy() makes there is the event, blob included.
LEMMA CopyAtPiece ==
    ASSUME NEW events \in Seq(Events), NEW aligned \in BOOLEAN, NEW k \in 1..Len(events)
    PROVE  seq_event_copy(seq_event_cntr_serialize(events, aligned),
                          Len(BufferOf(events, k - 1, aligned))) = Faithful(events[k])
<1> DEFINE buf == seq_event_cntr_serialize(events, aligned)
           at == Len(BufferOf(events, k - 1, aligned))
           ev == events[k]
           m == seq_event_calculate_flattened_length(ev, aligned)
           p == Piece(ev, aligned)
           b == BlobLen(ev)
<1>1. /\ buf \in Seq(Bytes) /\ Len(buf) \in Nat /\ at \in Nat
      /\ at + m <= Len(buf) /\ \A i \in 1..m : buf[at + i] = p[i]
  BY Layout
<1>2. /\ m \in Nat /\ m >= EvSize + b
      /\ \A i \in 1..EvSize : p[i] = Byte("struct", ev, i)
      /\ \A i \in 1..b : p[EvSize + i] = Byte("blob", ev, i)
  BY PieceBytes
<1>3. EvSize \in Nat \ {0} /\ b \in Nat /\ ev \in Events
  BY FlatLength, EvSizeAssumption
<1>4. EventAt(buf, at) = ev
  BY NextAtPiece
<1>5. b = IF ev.variable THEN ev.len ELSE 0
  BY DEF BlobLen
<1> HIDE DEF buf, at, ev, m, p, b
<1>6. ASSUME NEW i \in 1..EvSize PROVE buf[at + i] = Byte("struct", ev, i)
  <2>1. i \in 1..m
    BY <1>2, <1>3
  <2>2. QED
    BY <1>1, <1>2, <2>1
<1>7. ASSUME NEW i \in 1..b PROVE buf[at + EvSize + i] = Byte("blob", ev, i)
  <2>1. EvSize + i \in 1..m /\ at + EvSize + i = at + (EvSize + i)
    BY <1>1, <1>2, <1>3
  <2>2. QED
    BY <1>1, <1>2, <2>1
<1> DEFINE blob == [i \in 1..b |-> Byte("blob", ev, i)]
<1>8. SubSeq(buf, at + EvSize + 1, at + EvSize + b) = blob
  <2> DEFINE m1 == at + EvSize + 1
             m2 == at + EvSize + b
             sub == SubSeq(buf, m1, m2)
  <2>1. m1 \in Nat /\ m2 \in Nat /\ m2 - m1 + 1 = b /\ (m1 <= m2 <=> b > 0)
        /\ m1..m2 \subseteq 1..Len(buf)
        /\ \A i \in 1..b : m1 + i - 1 = at + EvSize + i
    BY <1>1, <1>2, <1>3
  <2>2. \A i \in m1..m2 : buf[i] \in Bytes
    BY <1>1, <2>1
  <2> HIDE DEF m1, m2
  <2>3. /\ sub \in Seq(Bytes) /\ Len(sub) = (IF m1 <= m2 THEN m2 - m1 + 1 ELSE 0)
        /\ \A i \in 1..(m2 - m1 + 1) : sub[i] = buf[m1 + i - 1]
    BY <2>1, <2>2, SubSeqProperties
  <2>4. Len(sub) = b
    BY <1>3, <2>1, <2>3
  <2>5. \A i \in 1..b : sub[i] = blob[i]
    BY <1>7, <2>1, <2>3
  <2> HIDE DEF sub
  <2>6. sub = [i \in 1..b |-> sub[i]]
    BY <2>3, <2>4
  <2>7. sub = blob
    BY <2>5, <2>6
  <2>8. QED
    BY <2>7 DEF sub, m1, m2
<1>9. (IF ev.variable THEN SubSeq(buf, at + EvSize + 1, at + EvSize + ev.len) ELSE <<>>)
        = blob
  <2>1. CASE ev.variable
    BY <1>5, <1>8, <2>1
  <2>2. CASE ~ev.variable
    <3>1. b = 0
      BY <1>5, <2>2
    <3>2. QED
      BY <2>2, <3>1
  <2>3. QED
    BY <2>1, <2>2
<1>10. Faithful(ev) = [event |-> ev, intact |-> TRUE, blob |-> blob]
  BY <1>5 DEF Faithful
<1>11. seq_event_copy(buf, at) = [event |-> ev, intact |-> TRUE, blob |-> blob]
  <2>1. (\A i \in 1..EvSize : buf[at + i] = Byte("struct", ev, i)) = TRUE
    BY <1>6
  <2> HIDE DEF blob
  <2>2. QED
    BY <1>4, <1>9, <2>1 DEF seq_event_copy
<1>12. QED
  BY <1>10, <1>11 DEF buf, at, ev

(***************************************************************************)
(* seq_event_cntr_serialize(), seq_event_iter_next() and seq_event_copy()  *)
(* agree on the flat layout: the iterator over the buffer of any list of   *)
(* events, aligned or not, comes to each of them in order, copies it       *)
(* whole, and ends with the last one.                                      *)
(***************************************************************************)
THEOREM EventsReadBack ==
    ASSUME NEW events \in Seq(Events), NEW aligned \in BOOLEAN
    PROVE  LET buf == seq_event_cntr_serialize(events, aligned)
               at(k) == Len(BufferOf(events, k, aligned))
           IN  /\ at(0) = 0
               /\ \A k \in 1..Len(events) :
                     /\ HasNext(buf, at(k - 1), aligned)
                     /\ seq_event_copy(buf, at(k - 1)) = Faithful(events[k])
                     /\ NextOffset(buf, at(k - 1), aligned) = at(k)
               /\ ~HasNext(buf, at(Len(events)), aligned)
<1> DEFINE buf == seq_event_cntr_serialize(events, aligned)
           at(k) == Len(BufferOf(events, k, aligned))
<1>1. at(0) = 0
  BY FrontEmpty
<1>2. ASSUME NEW k \in 1..Len(events)
      PROVE  /\ HasNext(buf, at(k - 1), aligned)
             /\ NextOffset(buf, at(k - 1), aligned) = at(k)
  BY NextAtPiece, Zenon
<1>3. ASSUME NEW k \in 1..Len(events)
      PROVE  seq_event_copy(buf, at(k - 1)) = Faithful(events[k])
  BY CopyAtPiece, Zenon
<1>4. ~HasNext(buf, at(Len(events)), aligned)
  <2>1. at(Len(events)) = Len(buf) /\ Len(buf) \in Nat
    BY FrontWhole, FrontType, LenProperties
  <2> HIDE DEF buf, at
  <2>2. QED
    BY <2>1 DEF HasNext
<1>5. QED
  BY <1>1, <1>2, <1>3, <1>4, Zenon

\* Every byte of a buffer belongs to one of the events: past the first k
\* events, to a later one.
LEMMA ByteOwner ==
    ASSUME NEW events \in Seq(Events), NEW aligned \in BOOLEAN, NEW k \in 0..Len(events),
           NEW b \in (Len(BufferOf(events, k, aligned)) + 1)
                       ..Len(seq_event_cntr_serialize(events, aligned))
    PROVE  \E i \in (k + 1)..Len(events) :
               seq_event_cntr_serialize(events, aligned)[b].of = events[i]
<1> DEFINE n == Len(events)
           buf == seq_event_cntr_serialize(events, aligned)
           e(i) == Len(BufferOf(events, i, aligned))
           U == {i \in 0..n : b <= e(i)}
<1>1. n \in Nat /\ n \in 0..n /\ k \in 0..n
  OBVIOUS
<1>2. \A i \in 0..n : e(i) \in Nat
  BY FrontType
<1>3. e(n) = Len(buf)
  BY FrontWhole
<1>4. b \in Nat /\ e(k) < b /\ b <= e(n)
  BY <1>1, <1>2, <1>3
<1>5. \A i, j \in 0..n : i < j => e(i) < e(j)
  BY EndsIncrease
<1>6. \A i \in 1..n : e(i - 1) + seq_event_calculate_flattened_length(events[i], aligned) = e(i)
  BY Layout
<1> HIDE DEF e
<1>7. PICK x \in U : \A y \in U : x <= y
  <2>1. U \in SUBSET Nat /\ n \in U
    BY <1>1, <1>4
  <2>2. QED
    BY <2>1, Least
<1>8. x > k
  <2> SUFFICES ASSUME x <= k PROVE FALSE
    BY <1>1, <1>7
  <2>1. e(x) <= e(k)
    <3>1. CASE x = k
      BY <1>1, <1>2, <3>1
    <3>2. CASE x # k
      <4>1. e(x) < e(k)
        BY <1>1, <1>5, <1>7, <3>2
      <4>2. QED
        BY <1>1, <1>2, <1>7, <4>1
    <3>3. QED
      BY <3>1, <3>2
  <2>2. QED
    BY <1>1, <1>2, <1>4, <1>7, <2>1
<1>9. x \in (k + 1)..n /\ x \in 1..n /\ x - 1 \in 0..n /\ x - 1 \notin U
  BY <1>1, <1>7, <1>8
<1>10. e(x - 1) < b /\ b <= e(x)
  BY <1>2, <1>4, <1>7, <1>9
<1> DEFINE m == seq_event_calculate_flattened_length(events[x], aligned)
           j == b - e(x - 1)
<1>11. m \in Nat /\ \A i \in 1..m : Piece(events[x], aligned)[i].of = events[x]
  BY <1>9, PieceBytes
<1>12. j \in 1..m /\ e(x - 1) + j = b
  <2>1. e(x - 1) + m = e(x)
    BY <1>6, <1>9
  <2>2. e(x - 1) \in Nat /\ e(x) \in Nat
    BY <1>2, <1>7, <1>9
  <2> HIDE DEF m
  <2>3. QED
    BY <1>4, <1>10, <1>11, <2>1, <2>2
<1>13. \A i \in 1..m : buf[e(x - 1) + i] = Piece(events[x], aligned)[i]
  BY <1>9, Layout DEF e
<1> HIDE DEF m, j, buf
<1>14. buf[b].of = events[x]
  BY <1>11, <1>12, <1>13
<1>15. QED
  BY <1>9, <1>14 DEF buf

\* What a handler has still to get are the events that follow in its list.
LEMMA PendingLater ==
    ASSUME NEW h, NEW events \in Seq(Events), NEW k \in 0..Len(events),
           AtPiece(h, events, k), NEW n \in Pending(h)
    PROVE  \E i \in (k + 1)..Len(events) : n = events[i].id
<1>1. PICK b \in (h.offset + 1)..Len(h.buf) : n = h.buf[b].of.id
  BY DEF Pending
<1>2. h.buf = seq_event_cntr_serialize(events, TRUE)
      /\ h.offset = Len(BufferOf(events, k, TRUE))
  BY DEF AtPiece
<1>3. b \in (Len(BufferOf(events, k, TRUE)) + 1)
               ..Len(seq_event_cntr_serialize(events, TRUE))
  BY <1>1, <1>2
<1>4. \E i \in (k + 1)..Len(events) :
          seq_event_cntr_serialize(events, TRUE)[b].of = events[i]
  BY <1>3, ByteOwner
<1>5. QED
  BY <1>1, <1>2, <1>4

\* A handler has a next event if its iterator is not at the end of the list.
LEMMA NotAtEnd ==
    ASSUME NEW h, NEW events \in Seq(Events), NEW k \in 0..Len(events),
           AtPiece(h, events, k), HasNext(h.buf, h.offset, TRUE)
    PROVE  k + 1 \in 1..Len(events)
<1>1. h.offset < Len(h.buf)
  BY DEF HasNext
<1>2. CASE k = Len(events)
  <2>1. h.offset = Len(h.buf)
    BY <1>2, FrontWhole DEF AtPiece
  <2>2. Len(h.buf) \in Nat
    BY <1>2, <2>1, FrontType DEF AtPiece
  <2>3. QED
    BY <1>1, <2>1, <2>2
<1>3. CASE k # Len(events)
  BY <1>3
<1>4. QED
  BY <1>2, <1>3

\* What one turn of the loop of alsaseq_event_cntr_deserialize() gets, and
\* where it leaves the iterator.
LEMMA Turn ==
    ASSUME NEW h, NEW events \in Seq(Events), NEW k \in 0..Len(events),
           AtPiece(h, events, k), HasNext(h.buf, h.offset, TRUE)
    PROVE  /\ k + 1 \in 1..Len(events)
           /\ seq_event_copy(h.buf, h.offset) = Faithful(events[k + 1])
           /\ EventAt(h.buf, h.offset) = events[k + 1]
           /\ NextOffset(h.buf, h.offset, TRUE) = Len(BufferOf(events, k + 1, TRUE))
           /\ h.offset \in Nat /\ Len(h.buf) \in Nat
           /\ NextOffset(h.buf, h.offset, TRUE) \in Nat
           /\ h.offset < NextOffset(h.buf, h.offset, TRUE)
<1>1. k + 1 \in 1..Len(events)
  BY NotAtEnd
<1> DEFINE buf == seq_event_cntr_serialize(events, TRUE)
           at == Len(BufferOf(events, k, TRUE))
<1>0. (k + 1) - 1 = k
  OBVIOUS
<1>2. h.buf = buf /\ h.offset = at
  BY DEF AtPiece
<1>3. seq_event_copy(buf, at) = Faithful(events[k + 1])
  BY <1>0, <1>1, CopyAtPiece
<1>4. EventAt(buf, at) = events[k + 1]
      /\ NextOffset(buf, at, TRUE) = Len(BufferOf(events, k + 1, TRUE))
  BY <1>0, <1>1, NextAtPiece
<1>5. at < Len(BufferOf(events, k + 1, TRUE)) /\ at \in Nat
  BY <1>0, <1>1, FrontGrows
<1>6. Len(BufferOf(events, k + 1, TRUE)) \in Nat
  <2>1. k + 1 \in 0..Len(events)
    BY <1>1
  <2>2. QED
    BY <2>1, FrontType
<1>7. Len(buf) \in Nat
  BY <1>1, Layout
<1> HIDE DEF buf, at
<1>8. QED
  BY <1>1, <1>2, <1>3, <1>4, <1>5, <1>6, <1>7
----------------------------------------------------------------------------
\* read(2) takes no more events than there are in the FIFO.
LEMMA FittingType ==
    ASSUME fifo \in Seq(Events)
    PROVE  Fitting \in 0..Len(fifo)
<1> DEFINE n == Len(fifo)
           fit == {k \in 0..n : Len(BufferOf(fifo, k, TRUE)) <= BufLen}
           U == {n - k : k \in fit}
<1>1. n \in Nat
  OBVIOUS
<1>2. 0 \in fit
  <2>1. BufferOf(fifo, 0, TRUE) = <<>>
    BY FrontEmpty
  <2>2. 0 \in 0..n /\ 0 <= BufLen /\ Len(<<>>) = 0
    BY <1>1, ClientAssumption
  <2>3. QED
    BY <2>1, <2>2
<1> HIDE DEF n
<1>3. fit \subseteq 0..n
  OBVIOUS
<1> HIDE DEF fit
<1>4. PICK x \in U : \A y \in U : x <= y
  <2>1. U \in SUBSET Nat
    BY <1>1, <1>3
  <2>2. n - 0 \in U
    BY <1>2
  <2> HIDE DEF U
  <2>3. QED
    BY <2>1, <2>2, Least
<1>5. PICK k \in fit : x = n - k
  BY <1>4
<1>6. \A j \in fit : j <= k
  <2> TAKE j \in fit
  <2>1. n - k <= n - j
    BY <1>4, <1>5
  <2>2. k \in 0..n /\ j \in 0..n
    BY <1>3
  <2>3. QED
    BY <1>1, <2>1, <2>2
<1>7. Fitting = CHOOSE i \in fit : \A j \in fit : j <= i
  BY DEF Fitting, fit, n, BufferOf
<1>8. Fitting \in fit
  BY <1>6, <1>7
<1>9. QED
  BY <1>3, <1>8 DEF n

\* The loop of alsaseq_user_client_schedule_events() finds the number of
\* events from the length that write(2) answered.
LEMMA CountFound ==
    ASSUME NEW events \in Seq(Events), NEW k \in 1..Len(events)
    PROVE  ScheduledCount(events, Len(BufferOf(events, k, FALSE)))
              = [ok |-> TRUE, count |-> k]
<1> DEFINE n == Len(events)
           ends == [i \in 1..n |-> Len(BufferOf(events, i, FALSE))]
           result == Len(BufferOf(events, k, FALSE))
           S == Counted(ends, result)
<1>1. n \in Nat /\ k \in 1..n
  OBVIOUS
<1>2. \A i \in 1..n : ends[i] \in Nat
  <2> TAKE i \in 1..n
  <2>1. i \in 0..n
    BY <1>1
  <2>2. QED
    BY <2>1, FrontType
<1>3. \A i, j \in 1..n : i < j => ends[i] < ends[j]
  <2> TAKE i, j \in 1..n
  <2>1. i \in 0..n /\ j \in 0..n
    BY <1>1
  <2>2. QED
    BY <2>1, EndsIncrease
<1>4. ends[k] = result
  OBVIOUS
<1>5. Len(ends) = n
  <2>1. ends \in Seq(Nat)
    <3>1. ends \in [1..n -> Nat]
      BY <1>2
    <3> HIDE DEF ends
    <3>2. QED
      BY <1>1, <3>1
  <2>2. DOMAIN ends = 1..n
    OBVIOUS
  <2> HIDE DEF ends
  <2>3. QED
    BY <1>1, <2>1, <2>2
<1> DEFINE c == IF S = {} THEN n ELSE CHOOSE i \in S : \A j \in S : i <= j
<1>6. ScheduledCount(events, result) = [ok |-> ends[c] = result, count |-> c]
  BY DEF ScheduledCount, BufferOf
<1> HIDE DEF ends, result
<1>7. S = {i \in 1..n : ends[i] >= ends[k]}
  BY <1>4, <1>5 DEF Counted
<1>8. k \in S
  BY <1>1, <1>2, <1>7
<1>9. \A j \in S : k <= j
  <2> TAKE j \in S
  <2>1. j \in 1..n /\ ends[j] >= ends[k]
    BY <1>7
  <2>2. ~(j < k)
    BY <1>1, <1>2, <1>3, <2>1
  <2>3. QED
    BY <1>1, <2>1, <2>2
<1>10. \A i \in S : (\A j \in S : i <= j) => i = k
  <2> TAKE i \in S
  <2> HAVE \A j \in S : i <= j
  <2>1. i <= k /\ k <= i /\ i \in 1..n
    BY <1>7, <1>8, <1>9
  <2>2. QED
    BY <1>1, <2>1
<1> HIDE DEF S
<1>11. c = k
  BY <1>8, <1>9, <1>10
<1> HIDE DEF c
<1>12. QED
  BY <1>4, <1>6, <1>11 DEF result
----------------------------------------------------------------------------
LEMMA PendingType ==
    ASSUME ClientType, NEW d \in 1..Depth
    PROVE  /\ Pending(handlers[d]) \subseteq Nat
           /\ handlers[d].offset \in Nat
           /\ handlers[d].buf \in Seq(Bytes)
           /\ Depth \in Nat
<1> DEFINE H == [buf : Seq(Bytes), offset : Nat]
<1>1. handlers[d] \in H /\ Depth \in Nat
  <2>1. handlers \in Seq(H) /\ d \in 1..Len(handlers)
    BY DEF ClientType, Depth
  <2> HIDE DEF H
  <2>2. QED
    BY <2>1 DEF Depth
<1>2. handlers[d].buf \in Seq(Bytes) /\ handlers[d].offset \in Nat
  BY <1>1
<1>3. ASSUME NEW i \in (handlers[d].offset + 1)..Len(handlers[d].buf)
      PROVE  handlers[d].buf[i].of.id \in Nat
  <2>1. i \in 1..Len(handlers[d].buf)
    BY <1>2
  <2>2. handlers[d].buf[i] \in Bytes
    BY <1>2, <2>1
  <2>3. QED
    BY <2>2 DEF Bytes, Events
<1>4. QED
  BY <1>1, <1>2, <1>3 DEF Pending

LEMMA IdType ==
    ASSUME ClientType, NEW r \in 1..Len(received)
    PROVE  Id(received[r]) \in Nat /\ received[r].depth \in Nat
<1> DEFINE R == [depth : Nat,
                  copy : [event : Events, intact : BOOLEAN, blob : Seq(Bytes)]]
<1>1. received[r] \in R
  <2>1. received \in Seq(R)
    BY DEF ClientType
  <2> HIDE DEF R
  <2>2. QED
    BY <2>1
<1>2. QED
  BY <1>1 DEF Id, Events

\* The sequencer core adds events to the FIFO after all that it took before.
LEMMA PostKeeps ==
    ASSUME ClientInv, NEW k \in Nat, NEW new \in Seq(Events), Len(new) <= k,
           \A i \in 1..Len(new) : new[i].id = posted + i,
           posted' = posted + k, fifo' = fifo \o new,
           handlers' = handlers, received' = received
    PROVE  ClientInv'
<1>1. ClientType /\ posted \in Nat /\ fifo \in Seq(Events) /\ Len(new) \in Nat
  BY DEF ClientInv, ClientType
<1>2. /\ fifo' \in Seq(Events) /\ Len(fifo') = Len(fifo) + Len(new) /\ Len(fifo) \in Nat
      /\ \A i \in 1..Len(fifo') :
            fifo'[i] = IF i <= Len(fifo) THEN fifo[i] ELSE new[i - Len(fifo)]
  BY <1>1, ConcatProperties
<1>3. ClientType'
  BY <1>1, <1>2 DEF ClientType
<1>4. \A i \in 1..Len(fifo) : fifo[i].id \in Nat /\ fifo[i].id <= posted
  <2>1. \A i \in 1..Len(fifo) : fifo[i] \in Events
    BY <1>1
  <2>2. QED
    BY <2>1 DEF ClientInv, FifoSound, Events
<1>5. ASSUME NEW i \in 1..Len(fifo'), i > Len(fifo)
      PROVE  fifo'[i].id = posted + (i - Len(fifo)) /\ i - Len(fifo) \in 1..Len(new)
  <2>1. fifo'[i] = new[i - Len(fifo)] /\ i - Len(fifo) \in 1..Len(new)
    BY <1>1, <1>2, <1>5
  <2>2. QED
    BY <2>1
<1>6. ASSUME NEW i \in 1..Len(fifo'), i <= Len(fifo)
      PROVE  fifo'[i] = fifo[i] /\ i \in 1..Len(fifo)
  BY <1>2, <1>6
<1>7. FifoSound'
  <2>1. ASSUME NEW i \in 1..Len(fifo'), NEW j \in 1..Len(fifo'), i < j
        PROVE  fifo'[i].id < fifo'[j].id
    <3>1. CASE j <= Len(fifo)
      <4>1. i <= Len(fifo)
        BY <1>2, <2>1, <3>1
      <4>2. QED
        BY <1>6, <2>1, <3>1, <4>1 DEF ClientInv, FifoSound, Increasing
    <3>2. CASE j > Len(fifo) /\ i <= Len(fifo)
      <4>1. fifo'[i].id \in Nat /\ fifo'[i].id <= posted
        BY <1>4, <1>6, <3>2
      <4>2. fifo'[j].id = posted + (j - Len(fifo)) /\ j - Len(fifo) \in 1..Len(new)
        BY <1>5, <3>2
      <4> DEFINE a == fifo'[i].id
                 b == j - Len(fifo)
      <4>3. a \in Nat /\ a <= posted /\ b \in Nat /\ b > 0
        BY <1>1, <4>1, <4>2
      <4> HIDE DEF a, b
      <4>4. a < posted + b
        BY <1>1, <4>3
      <4>5. QED
        BY <4>2, <4>4, Zenon DEF a, b
    <3>3. CASE j > Len(fifo) /\ i > Len(fifo)
      <4>1. fifo'[i].id = posted + (i - Len(fifo)) /\ fifo'[j].id = posted + (j - Len(fifo))
        BY <1>5, <3>3
      <4>2. QED
        BY <1>1, <1>2, <2>1, <4>1
    <3>4. QED
      BY <1>2, <3>1, <3>2, <3>3
  <2>2. ASSUME NEW i \in 1..Len(fifo') PROVE fifo'[i].id <= posted'
    <3>1. CASE i <= Len(fifo)
      <4>1. fifo'[i].id \in Nat /\ fifo'[i].id <= posted
        BY <1>4, <1>6, <3>1
      <4>2. QED
        BY <1>1, <4>1
    <3>2. CASE i > Len(fifo)
      <4>1. fifo'[i].id = posted + (i - Len(fifo)) /\ i - Len(fifo) \in 1..Len(new)
        BY <1>5, <3>2
      <4>2. QED
        BY <1>1, <4>1
    <3>3. QED
      BY <1>2, <3>1, <3>2
  <2>3. QED
    BY <2>1, <2>2 DEF FifoSound, Increasing
<1>8. ASSUME NEW n \in Nat, BeforeFifo(n) PROVE BeforeFifo(n)'
  <2>1. n <= posted /\ n <= posted'
    BY <1>1, <1>8 DEF BeforeFifo
  <2>2. ASSUME NEW i \in 1..Len(fifo') PROVE n < fifo'[i].id
    <3>1. CASE i <= Len(fifo)
      BY <1>6, <1>8, <3>1 DEF BeforeFifo
    <3>2. CASE i > Len(fifo)
      <4>1. fifo'[i].id = posted + (i - Len(fifo)) /\ i - Len(fifo) \in 1..Len(new)
        BY <1>5, <3>2
      <4>2. QED
        BY <1>1, <2>1, <4>1
    <3>3. QED
      BY <1>2, <3>1, <3>2
  <2>3. QED
    BY <2>1, <2>2 DEF BeforeFifo
<1>9. Depth' = Depth
  BY DEF Depth
<1>10. HandlersSound'
  <2>1. ASSUME NEW d \in 1..Depth
        PROVE  Batch(handlers[d]) /\ \A n \in Pending(handlers[d]) :
                  /\ BeforeFifo(n)'
                  /\ \A e \in 1..Depth : d < e => \A m \in Pending(handlers[e]) : n < m
    BY <1>1, <1>8, PendingType DEF ClientInv, HandlersSound
  <2>2. QED
    BY <1>9, <2>1 DEF HandlersSound
<1>11. ReceivedSound'
  <2>1. ASSUME NEW r \in 1..Len(received) PROVE BeforeFifo(Id(received[r]))'
    <3>1. BeforeFifo(Id(received[r])) /\ Id(received[r]) \in Nat
      BY <1>1, IdType DEF ClientInv, ReceivedSound
    <3>2. BeforeFifo(Id(received[r]))'
      BY <1>8, <3>1 DEF BeforeFifo
    <3>3. QED
      BY <3>2
  <2>2. QED
    BY <1>9, <2>1 DEF ClientInv, ReceivedSound
<1>12. ReceivedFaithful' /\ ReceivedInOrder'
  BY DEF ClientInv, ReceivedFaithful, ReceivedInOrder
<1>13. QED
  BY <1>3, <1>7, <1>10, <1>11, <1>12 DEF ClientInv

LEMMA StutterKeeps ==
    ASSUME ClientInv, UNCHANGED <<posted, fifo, handlers, received>>
    PROVE  ClientInv'
<1>1. ClientType' /\ FifoSound'
  BY DEF ClientInv, ClientType, FifoSound
<1>2. \A n : BeforeFifo(n)' <=> BeforeFifo(n)
  BY DEF BeforeFifo
<1>3. HandlersSound'
  BY <1>2 DEF ClientInv, HandlersSound, Depth
<1>4. ReceivedSound'
  BY DEF ClientInv, ReceivedSound, Depth, BeforeFifo
<1>5. ReceivedFaithful' /\ ReceivedInOrder'
  BY DEF ClientInv, ReceivedFaithful, ReceivedInOrder
<1>6. QED
  BY <1>1, <1>3, <1>4, <1>5 DEF ClientInv

\* The list that the application schedules.
LEMMA NumberedType ==
    ASSUME posted \in Nat, NEW lens \in Lists
    PROVE  /\ Len(lens) \in Nat
           /\ Numbered(lens) \in Seq(Events)
           /\ Len(Numbered(lens)) = Len(lens)
           /\ \A i \in 1..Len(lens) : Numbered(lens)[i].id = posted + i
<1>1. PICK n \in 0..MaxList : lens \in [1..n -> Lens]
  BY DEF Lists
<1>2. n \in Nat /\ Lens \subseteq Nat
  BY ClientAssumption
<1>3. Len(lens) = n
  BY <1>1, <1>2
<1> DEFINE s == [i \in 1..n |-> EventOf(posted + i, lens[i])]
<1>4. Numbered(lens) = s
  BY <1>3 DEF Numbered
<1>5. \A i \in 1..n : EventOf(posted + i, lens[i]) \in Events
  <2> TAKE i \in 1..n
  <2>1. posted + i \in Nat
    BY <1>2
  <2>2. lens[i] \in Lens
    BY <1>1
  <2>3. lens[i] \in Nat
    BY <1>2, <2>2
  <2> HIDE DEF s
  <2>4. QED
    BY <2>1, <2>3 DEF EventOf, Events
<1>6. s \in [1..n -> Events]
  BY <1>5
<1>7. \A i \in 1..n : s[i].id = posted + i
  BY DEF EventOf
<1> HIDE DEF s
<1>8. s \in Seq(Events) /\ Len(s) = n
  BY <1>2, <1>6
<1>9. QED
  BY <1>2, <1>3, <1>4, <1>7, <1>8

LEMMA ScheduleEventsKeeps ==
    ASSUME ClientInv, NEW lens \in Lists, ScheduleEvents(lens)
    PROVE  ClientInv' /\ CountExact'
<1> DEFINE events == Numbered(lens)
<1>1. posted \in Nat /\ fifo \in Seq(Events)
  BY DEF ClientInv, ClientType
<1>2. /\ events \in Seq(Events) /\ Len(events) = Len(lens) /\ Len(lens) \in Nat
      /\ \A i \in 1..Len(events) : events[i].id = posted + i
  BY <1>1, NumberedType
<1> HIDE DEF events
<1>3. CASE /\ events = <<>>
           /\ \E garbage \in 0..1 :
                 call' = [ok |-> TRUE, list |-> 0, taken |-> 0, count |-> garbage]
           /\ UNCHANGED <<posted, fifo, overflow, handlers, received>>
  <2>1. ClientInv'
    BY <1>3, StutterKeeps
  <2>2. call'.list = 0 /\ call'.taken = 0
    BY <1>3
  <2>3. QED
    BY <2>1, <2>2 DEF CountExact
<1>4. ASSUME NEW k \in 1..Len(events),
             LET result == Len(seq_event_cntr_serialize(SubSeq(events, 1, k), FALSE))
                 answer == ScheduledCount(events, result)
                 fits == IF k < FifoLen - Len(fifo) THEN k ELSE FifoLen - Len(fifo)
             IN  /\ call' = [ok |-> answer.ok, list |-> Len(lens), taken |-> k,
                             count |-> answer.count]
                 /\ posted' = posted + k
                 /\ fifo' = fifo \o SubSeq(events, 1, fits)
                 /\ UNCHANGED <<handlers, received>>
      PROVE  ClientInv' /\ CountExact'
  <2> DEFINE fits == IF k < FifoLen - Len(fifo) THEN k ELSE FifoLen - Len(fifo)
             new == SubSeq(events, 1, fits)
  <2>1. fits \in Int /\ fits <= k /\ k \in Nat /\ k <= Len(events)
    BY <1>1, <1>2, ClientAssumption
  <2>2. fifo' = fifo \o new
    BY <1>4
  <2> HIDE DEF fits
  <2>3. \A i \in 1..fits : events[i] \in Events
    BY <1>2, <2>1
  <2>4. /\ new \in Seq(Events) /\ Len(new) = (IF 1 <= fits THEN fits ELSE 0)
        /\ \A i \in 1..fits : new[i] = events[i]
    BY <2>1, <2>3, SubSeqProperties
  <2>5. Len(new) <= k /\ \A i \in 1..Len(new) : new[i].id = posted + i
    <3>1. Len(new) <= k
      BY <2>1, <2>4
    <3>2. ASSUME NEW i \in 1..Len(new) PROVE i \in 1..fits /\ i \in 1..Len(events)
      BY <1>2, <2>1, <2>4
    <3>3. QED
      BY <1>2, <2>4, <3>1, <3>2
  <2> HIDE DEF new
  <2>6. ClientInv'
    BY <1>4, <2>1, <2>2, <2>4, <2>5, PostKeeps
  <2>7. ScheduledCount(events, Len(BufferOf(events, k, FALSE))) = [ok |-> TRUE, count |-> k]
    BY <1>2, CountFound
  <2> DEFINE answer == ScheduledCount(events, Len(BufferOf(events, k, FALSE)))
  <2>8. call' = [ok |-> answer.ok, list |-> Len(lens), taken |-> k, count |-> answer.count]
    BY <1>4 DEF BufferOf
  <2>9. answer = [ok |-> TRUE, count |-> k]
    BY <2>7
  <2> HIDE DEF answer
  <2>10. call'.ok = TRUE /\ call'.taken = k /\ call'.count = k
    BY <2>8, <2>9, Zenon
  <2>11. QED
    BY <2>6, <2>10 DEF CountExact
<1>5. CASE /\ call' = [ok |-> FALSE, list |-> Len(lens), taken |-> 0, count |-> 0]
           /\ UNCHANGED <<posted, fifo, overflow, handlers, received>>
  <2>1. ClientInv'
    BY <1>5, StutterKeeps
  <2>2. ~call'.ok /\ call'.taken = 0
    BY <1>5
  <2>3. QED
    BY <2>1, <2>2 DEF CountExact
<1>6. QED
  BY <1>3, <1>4, <1>5 DEF ScheduleEvents, events

LEMMA ScheduleEventKeeps ==
    ASSUME ClientInv, NEW len \in Lens, ScheduleEvent(len)
    PROVE  ClientInv' /\ CountExact'
<1> DEFINE event == EventOf(posted + 1, len)
<1>1. posted \in Nat /\ fifo \in Seq(Events)
  BY DEF ClientInv, ClientType
<1>2. event \in Events /\ event.id = posted + 1
  <2>1. len \in Nat /\ posted + 1 \in Nat
    BY <1>1, ClientAssumption
  <2>2. QED
    BY <2>1 DEF EventOf, Events
<1> HIDE DEF event
<1>3. CASE /\ call' = [ok |-> TRUE, list |-> 1, taken |-> 1, count |-> 1]
           /\ posted' = posted + 1
           /\ fifo' = IF Len(fifo) < FifoLen THEN Append(fifo, event) ELSE fifo
           /\ UNCHANGED <<handlers, received>>
  <2> DEFINE new == IF Len(fifo) < FifoLen THEN <<event>> ELSE <<>>
  <2>1. new \in Seq(Events) /\ Len(new) <= 1 /\ \A i \in 1..Len(new) : new[i].id = posted + i
    <3>1. CASE Len(fifo) < FifoLen
      BY <1>2, <3>1
    <3>2. CASE ~(Len(fifo) < FifoLen)
      BY <3>2
    <3>3. QED
      BY <3>1, <3>2
  <2>2. fifo' = fifo \o new
    <3>1. CASE Len(fifo) < FifoLen
      <4>1. Append(fifo, event) = fifo \o <<event>>
        BY <1>1, <1>2, AppendIsConcat
      <4>2. QED
        BY <1>3, <3>1, <4>1
    <3>2. CASE ~(Len(fifo) < FifoLen)
      <4>1. fifo \o <<>> = fifo
        BY <1>1, ConcatEmptySeq
      <4>2. QED
        BY <1>3, <3>2, <4>1
    <3>3. QED
      BY <3>1, <3>2
  <2> HIDE DEF new
  <2>3. ClientInv'
    BY <1>3, <2>1, <2>2, PostKeeps
  <2>4. QED
    BY <1>3, <2>3 DEF CountExact
<1>4. CASE /\ call' = [ok |-> FALSE, list |-> 1, taken |-> 0, count |-> 0]
           /\ UNCHANGED <<posted, fifo, overflow, handlers, received>>
  <2>1. ClientInv'
    BY <1>4, StutterKeeps
  <2>2. QED
    BY <1>4, <2>1 DEF CountExact
<1>5. QED
  BY <1>3, <1>4 DEF ScheduleEvent, event
----------------------------------------------------------------------------
\* read(2) after an overflow of the FIFO: its events are gone.
LEMMA FlushKeeps ==
    ASSUME ClientInv, fifo' = <<>>, UNCHANGED <<posted, handlers, received>>
    PROVE  ClientInv'
<1>1. \A n : BeforeFifo(n) => BeforeFifo(n)'
  BY DEF BeforeFifo
<1>2. ClientType'
  BY DEF ClientInv, ClientType
<1>3. FifoSound'
  BY DEF FifoSound, Increasing
<1>4. HandlersSound'
  BY <1>1 DEF ClientInv, HandlersSound, Depth
<1>5. ReceivedSound'
  BY <1>1, Zenon DEF ClientInv, ReceivedSound, Depth
<1>6. ReceivedFaithful' /\ ReceivedInOrder'
  BY DEF ClientInv, ReceivedFaithful, ReceivedInOrder
<1>7. QED
  BY <1>2, <1>3, <1>4, <1>5, <1>6 DEF ClientInv

\* The handler that starts with the first events of the FIFO.
LEMMA HandlerStarts ==
    ASSUME ClientType, FifoSound, NEW F \in 1..Len(fifo)
    PROVE  LET h == [buf |-> seq_event_cntr_serialize(SubSeq(fifo, 1, F), TRUE),
                     offset |-> 0]
           IN  /\ h \in [buf : Seq(Bytes), offset : Nat]
               /\ Batch(h)
               /\ \A n \in Pending(h) : \E i \in 1..F : n = fifo[i].id
<1> DEFINE some == SubSeq(fifo, 1, F)
           h == [buf |-> seq_event_cntr_serialize(some, TRUE), offset |-> 0]
<1>1. fifo \in Seq(Events) /\ Len(fifo) \in Nat
  BY DEF ClientType
<1>2. some \in Seq(Events) /\ Len(some) = F /\ \A i \in 1..F : some[i] = fifo[i]
  BY <1>1
<1> HIDE DEF some
<1>3. Increasing(some)
  <2> SUFFICES ASSUME NEW i \in 1..F, NEW j \in 1..F, i < j
               PROVE  some[i].id < some[j].id
    BY <1>2 DEF Increasing
  <2>1. i \in 1..Len(fifo) /\ j \in 1..Len(fifo)
    BY <1>1
  <2>2. fifo[i].id < fifo[j].id
    BY <2>1 DEF FifoSound, Increasing
  <2>3. QED
    BY <1>2, <2>2
<1>4. AtPiece(h, some, 0)
  <2>1. BufferOf(some, 0, TRUE) = <<>> /\ Len(<<>>) = 0
    BY FrontEmpty
  <2>2. QED
    BY <2>1 DEF AtPiece
<1>5. 0 \in 0..Len(some) /\ Len(some) \in 0..Len(some)
  BY <1>1, <1>2
<1>6. Batch(h)
  BY <1>2, <1>3, <1>4, <1>5 DEF Batch
<1>7. seq_event_cntr_serialize(some, TRUE) \in Seq(Bytes)
  BY <1>2, <1>5, FrontType, FrontWhole
<1>8. h \in [buf : Seq(Bytes), offset : Nat]
  BY <1>7
<1> HIDE DEF h
<1>9. ASSUME NEW n \in Pending(h) PROVE \E i \in 1..F : n = fifo[i].id
  <2>1. PICK i \in (0 + 1)..Len(some) : n = some[i].id
    BY <1>2, <1>4, <1>5, PendingLater
  <2>2. i \in 1..F
    BY <1>1, <1>2, <2>1
  <2>3. QED
    BY <1>2, <2>1, <2>2
<1>10. QED
  BY <1>6, <1>8, <1>9 DEF h, some

LEMMA DispatchKeeps ==
    ASSUME ClientInv, Dispatch
    PROVE  ClientInv'
<1>1. ClientType /\ FifoSound
  BY DEF ClientInv
<1>2. Fitting \in 0..Len(fifo) /\ fifo \in Seq(Events) /\ Len(fifo) \in Nat
  BY <1>1, FittingType DEF ClientType
<1>3. CASE fifo' = <<>> /\ UNCHANGED <<posted, handlers, received>>
  BY <1>3, FlushKeeps
<1>4. CASE UNCHANGED <<posted, fifo, handlers, received>>
  BY <1>4, StutterKeeps
<1> DEFINE F == Fitting
           h == [buf |-> seq_event_cntr_serialize(SubSeq(fifo, 1, F), TRUE), offset |-> 0]
<1>5. ASSUME F > 0, handlers' = Append(handlers, h),
             fifo' = SubSeq(fifo, F + 1, Len(fifo)), UNCHANGED <<posted, received>>
      PROVE  ClientInv'
  <2>1. F \in 1..Len(fifo)
    BY <1>2, <1>5
  <2>2. /\ h \in [buf : Seq(Bytes), offset : Nat] /\ Batch(h)
        /\ \A n \in Pending(h) : \E i \in 1..F : n = fifo[i].id
    BY <1>1, <2>1, HandlerStarts
  <2> HIDE DEF h, F
  <2>3. handlers \in Seq([buf : Seq(Bytes), offset : Nat])
    BY <1>1 DEF ClientType
  <2>4. /\ handlers' \in Seq([buf : Seq(Bytes), offset : Nat])
        /\ Depth' = Depth + 1 /\ Depth \in Nat
        /\ \A d \in 1..Depth : handlers'[d] = handlers[d]
        /\ handlers'[Depth + 1] = h
    BY <1>5, <2>2, <2>3, AppendProperties DEF Depth
  <2>5. /\ fifo' \in Seq(Events) /\ Len(fifo') = Len(fifo) - F
        /\ \A i \in 1..Len(fifo') : fifo'[i] = fifo[F + i] /\ F + i \in 1..Len(fifo)
    <3>1. F + 1 \in Nat /\ \A i \in (F + 1)..Len(fifo) : fifo[i] \in Events
      BY <1>2, <2>1
    <3>2. /\ fifo' \in Seq(Events)
          /\ Len(fifo') = (IF F + 1 <= Len(fifo) THEN Len(fifo) - (F + 1) + 1 ELSE 0)
          /\ \A i \in 1..(Len(fifo) - (F + 1) + 1) : fifo'[i] = fifo[(F + 1) + i - 1]
      BY <1>2, <1>5, <3>1, SubSeqProperties
    <3>3. Len(fifo') = Len(fifo) - F /\ Len(fifo) - (F + 1) + 1 = Len(fifo) - F
      BY <1>2, <2>1, <3>2
    <3>4. ASSUME NEW i \in 1..(Len(fifo) - F)
          PROVE  (F + 1) + i - 1 = F + i /\ F + i \in 1..Len(fifo)
      BY <1>2, <2>1
    <3>5. QED
      BY <3>2, <3>3, <3>4
  <2>6. \A i \in 1..Len(fifo) : fifo[i].id \in Nat /\ fifo[i].id <= posted
    <3>1. \A i \in 1..Len(fifo) : fifo[i] \in Events
      BY <1>2
    <3>2. QED
      BY <1>1, <3>1 DEF FifoSound, Events
  <2>7. ASSUME NEW i \in 1..F, NEW j \in 1..Len(fifo')
        PROVE  i \in 1..Len(fifo) /\ fifo[i].id < fifo'[j].id
    <3>1. i \in 1..Len(fifo) /\ F + j \in 1..Len(fifo) /\ i < F + j
      BY <1>2, <2>1, <2>5
    <3>2. QED
      BY <1>1, <2>5, <3>1 DEF FifoSound, Increasing
  <2>8. ClientType'
    BY <1>1, <1>5, <2>4, <2>5 DEF ClientType
  <2>9. FifoSound'
    <3>1. ASSUME NEW i \in 1..Len(fifo'), NEW j \in 1..Len(fifo'), i < j
          PROVE  fifo'[i].id < fifo'[j].id
      <4>1. F + i \in 1..Len(fifo) /\ F + j \in 1..Len(fifo) /\ F + i < F + j
        BY <1>2, <2>1, <2>5, <3>1
      <4>2. QED
        BY <1>1, <2>5, <4>1 DEF FifoSound, Increasing
    <3>2. QED
      BY <1>5, <2>5, <2>6, <3>1 DEF FifoSound, Increasing
  <2>10. ASSUME NEW n, BeforeFifo(n) PROVE BeforeFifo(n)'
    BY <1>5, <2>5, <2>10 DEF BeforeFifo
  <2>11. ASSUME NEW n \in Pending(h) PROVE BeforeFifo(n)'
    <3>1. PICK i \in 1..F : n = fifo[i].id
      BY <2>2
    <3>2. i \in 1..Len(fifo)
      BY <1>2, <2>1
    <3>3. n <= posted'
      BY <1>5, <2>6, <3>1, <3>2
    <3>4. \A j \in 1..Len(fifo') : n < fifo'[j].id
      BY <2>7, <3>1
    <3>5. QED
      BY <3>3, <3>4 DEF BeforeFifo
  <2>12. ASSUME NEW n, BeforeFifo(n), NEW m \in Pending(h) PROVE n < m
    <3>1. PICK i \in 1..F : m = fifo[i].id
      BY <2>2
    <3>2. i \in 1..Len(fifo)
      BY <1>2, <2>1
    <3>3. QED
      BY <2>12, <3>1, <3>2 DEF BeforeFifo
  <2>13. HandlersSound'
    <3>1. ASSUME NEW d \in 1..Depth
          PROVE  /\ Batch(handlers'[d])
                 /\ \A n \in Pending(handlers'[d]) :
                      /\ BeforeFifo(n)'
                      /\ \A e \in 1..Depth' : d < e => \A m \in Pending(handlers'[e]) : n < m
      <4>1. handlers'[d] = handlers[d] /\ Batch(handlers[d])
        BY <2>4 DEF ClientInv, HandlersSound
      <4>2. ASSUME NEW n \in Pending(handlers[d])
            PROVE  /\ BeforeFifo(n)'
                   /\ \A e \in 1..Depth' : d < e => \A m \in Pending(handlers'[e]) : n < m
        <5>1. BeforeFifo(n)
          BY DEF ClientInv, HandlersSound
        <5>2. ASSUME NEW e \in 1..Depth', d < e, NEW m \in Pending(handlers'[e])
              PROVE  n < m
          <6>1. CASE e \in 1..Depth
            BY <2>4, <5>2, <6>1 DEF ClientInv, HandlersSound
          <6>2. CASE e = Depth + 1
            BY <2>4, <2>12, <5>1, <5>2, <6>2
          <6>3. QED
            BY <2>4, <6>1, <6>2
        <5>3. QED
          BY <2>10, <5>1, <5>2
      <4>3. QED
        BY <4>1, <4>2
    <3>2. /\ Batch(handlers'[Depth + 1])
          /\ \A n \in Pending(handlers'[Depth + 1]) :
               /\ BeforeFifo(n)'
               /\ \A e \in 1..Depth' : Depth + 1 < e =>
                      \A m \in Pending(handlers'[e]) : n < m
      <4>1. \A e \in 1..Depth' : ~(Depth + 1 < e)
        BY <2>4
      <4>2. QED
        BY <2>2, <2>4, <2>11, <4>1
    <3>3. \A d \in 1..Depth' : d \in 1..Depth \/ d = Depth + 1
      BY <2>4
    <3>4. QED
      BY <3>1, <3>2, <3>3 DEF HandlersSound
  <2>14. ReceivedSound'
    <3>1. ASSUME NEW r \in 1..Len(received)
          PROVE  /\ BeforeFifo(Id(received[r]))'
                 /\ \A d \in 1..Depth' : \A n \in Pending(handlers'[d]) :
                       /\ Id(received[r]) # n
                       /\ received[r].depth <= d => Id(received[r]) < n
      <4>1. BeforeFifo(Id(received[r])) /\ Id(received[r]) \in Nat
        BY <1>1, IdType DEF ClientInv, ReceivedSound
      <4>2. ASSUME NEW d \in 1..Depth', NEW n \in Pending(handlers'[d])
            PROVE  /\ Id(received[r]) # n
                   /\ received[r].depth <= d => Id(received[r]) < n
        <5>1. CASE d \in 1..Depth
          BY <2>4, <4>2, <5>1 DEF ClientInv, ReceivedSound
        <5>2. CASE d = Depth + 1
          <6>1. Id(received[r]) < n
            BY <2>4, <2>12, <4>1, <4>2, <5>2
          <6>2. QED
            BY <4>1, <6>1
        <5>3. QED
          BY <2>4, <5>1, <5>2
      <4>3. BeforeFifo(Id(received[r]))'
        BY <1>5, <2>10, <4>1 DEF BeforeFifo
      <4>4. QED
        BY <4>2, <4>3
    <3>2. QED
      BY <1>5, <3>1 DEF ReceivedSound
  <2>15. ReceivedFaithful' /\ ReceivedInOrder'
    BY <1>5 DEF ClientInv, ReceivedFaithful, ReceivedInOrder
  <2>16. QED
    BY <2>8, <2>9, <2>13, <2>14, <2>15 DEF ClientInv
<1>6. QED
  BY <1>3, <1>4, <1>5 DEF Dispatch

\* One turn of the loop of a handler: the event that it gets was still to be
\* got by no other handler, and is earlier than what is left for this one.
LEMMA DeserializeKeeps ==
    ASSUME ClientInv, Deserialize
    PROVE  ClientInv'
<1> DEFINE D == Depth
           h == handlers[D]
           next == NextOffset(h.buf, h.offset, TRUE)
           new == [depth |-> D, copy |-> seq_event_copy(h.buf, h.offset)]
           H == [buf : Seq(Bytes), offset : Nat]
           R == [depth : Nat, copy : [event : Events, intact : BOOLEAN, blob : Seq(Bytes)]]
<1>1. /\ D > 0 /\ HasNext(h.buf, h.offset, TRUE)
      /\ received' = Append(received, new)
      /\ handlers' = [handlers EXCEPT ![D].offset = NextOffset(h.buf, @, TRUE)]
      /\ UNCHANGED <<posted, fifo>>
  BY DEF Deserialize, Top
<1>2. ClientType /\ handlers \in Seq(H) /\ received \in Seq(R) /\ D = Len(handlers)
  BY DEF ClientInv, ClientType, Depth
<1>3. D \in 1..D /\ D \in Nat
  BY <1>1, <1>2
<1>4. Batch(h)
  BY <1>3 DEF ClientInv, HandlersSound
<1>5. PICK events \in Seq(Events) :
          Increasing(events) /\ \E k \in 0..Len(events) : AtPiece(h, events, k)
  BY <1>4 DEF Batch
<1>6. PICK k \in 0..Len(events) : AtPiece(h, events, k)
  BY <1>5
<1>7. /\ k + 1 \in 1..Len(events)
      /\ seq_event_copy(h.buf, h.offset) = Faithful(events[k + 1])
      /\ EventAt(h.buf, h.offset) = events[k + 1]
      /\ next = Len(BufferOf(events, k + 1, TRUE))
      /\ h.offset \in Nat /\ Len(h.buf) \in Nat /\ next \in Nat /\ h.offset < next
  BY <1>1, <1>6, Turn
<1> DEFINE ev == events[k + 1]
           g == [h EXCEPT !.offset = next]
<1>8. h \in H /\ ev \in Events
  <2> HIDE DEF H
  <2>1. QED
    BY <1>2, <1>3, <1>5, <1>7
<1>9. g.buf = h.buf /\ g.offset = next /\ g \in H
  BY <1>7, <1>8
<1>10. /\ handlers' \in Seq(H) /\ Len(handlers') = D /\ handlers'[D] = g
       /\ \A d \in 1..D : d # D => handlers'[d] = handlers[d]
  <2>1. handlers' = [handlers EXCEPT ![D] = g]
    BY <1>1
  <2> HIDE DEF g, D, h, H
  <2>2. QED
    BY <1>2, <1>3, <1>9, <2>1, ExceptSeq
<1>11. Faithful(ev) \in [event : Events, intact : BOOLEAN, blob : Seq(Bytes)]
       /\ Faithful(ev).event = ev
  <2>1. BlobLen(ev) \in Nat
    BY <1>8, FlatLength
  <2> DEFINE blob == [i \in 1..BlobLen(ev) |-> Byte("blob", ev, i)]
  <2>2. Faithful(ev) = [event |-> ev, intact |-> TRUE, blob |-> blob]
    BY DEF Faithful, BlobLen
  <2>3. \A i \in 1..BlobLen(ev) : Byte("blob", ev, i) \in Bytes
    BY <1>8, <2>1 DEF Byte, Bytes
  <2>4. blob \in [1..BlobLen(ev) -> Bytes]
    BY <2>3
  <2> HIDE DEF blob
  <2>5. blob \in Seq(Bytes)
    BY <2>1, <2>4
  <2>6. QED
    BY <1>8, <2>2, <2>5
<1>12. new = [depth |-> D, copy |-> Faithful(ev)]
  BY <1>7
<1>13. new \in R /\ Id(new) = ev.id /\ new.depth = D /\ new.copy = Faithful(new.copy.event)
  <2> HIDE DEF D, ev, new
  <2>1. QED
    BY <1>3, <1>11, <1>12 DEF Id
<1>14. ev.id \in Pending(h) /\ ev.id \in Nat
  <2>1. h.offset < Len(h.buf)
    BY <1>1 DEF HasNext
  <2>2. h.offset + 1 \in (h.offset + 1)..Len(h.buf)
    BY <1>7, <2>1
  <2>3. h.buf[h.offset + 1].of = ev
    BY <1>7 DEF EventAt
  <2>4. QED
    BY <1>8, <2>2, <2>3 DEF Pending, Events
<1>15. k + 1 \in 0..Len(events) /\ AtPiece(g, events, k + 1)
  <2>1. k + 1 \in 0..Len(events)
    BY <1>7
  <2>2. h.buf = seq_event_cntr_serialize(events, TRUE)
    BY <1>6 DEF AtPiece
  <2> HIDE DEF g, h, next
  <2>3. AtPiece(g, events, k + 1)
    BY <1>7, <1>9, <2>2 DEF AtPiece
  <2>4. QED
    BY <2>1, <2>3
<1>16. Batch(g)
  BY <1>5, <1>15 DEF Batch
<1>17. Pending(g) \subseteq Pending(h)
  <2> SUFFICES ASSUME NEW i \in (g.offset + 1)..Len(g.buf)
               PROVE  g.buf[i].of.id \in Pending(h)
    BY DEF Pending
  <2> HIDE DEF next, h, g, H
  <2>1. i \in (h.offset + 1)..Len(h.buf)
    <3>1. i \in (next + 1)..Len(h.buf)
      BY <1>9
    <3>2. h.offset \in Nat /\ Len(h.buf) \in Nat /\ next \in Nat /\ h.offset < next
      BY <1>7
    <3>3. QED
      BY <3>1, <3>2
  <2>2. QED
    BY <1>9, <2>1 DEF Pending
<1>18. ASSUME NEW n \in Pending(g) PROVE ev.id < n
  <2> HIDE DEF g
  <2>1. PICK i \in ((k + 1) + 1)..Len(events) : n = events[i].id
    BY <1>15, PendingLater
  <2>2. i \in 1..Len(events) /\ k + 1 < i
    BY <1>7, <2>1
  <2>3. QED
    BY <1>5, <1>7, <2>1, <2>2 DEF Increasing
<1>19. /\ received' \in Seq(R) /\ Len(received') = Len(received) + 1 /\ Len(received) \in Nat
       /\ \A r \in 1..Len(received) : received'[r] = received[r]
       /\ received'[Len(received) + 1] = new
  <2> HIDE DEF R, new
  <2>1. QED
    BY <1>1, <1>2, <1>13, AppendProperties
<1>20. BeforeFifo(ev.id) /\ \A n : BeforeFifo(n)' <=> BeforeFifo(n)
  BY <1>1, <1>3, <1>14 DEF ClientInv, HandlersSound, BeforeFifo
<1>21. Depth' = D
  BY <1>10 DEF Depth
<1> HIDE DEF D, h, g, ev, new, H, R
\* What is left for a handler is what was left for it, or less.
<1>22. ASSUME NEW d \in 1..D, NEW n \in Pending(handlers'[d])
       PROVE  n \in Pending(handlers[d]) /\ (d = D => ev.id < n)
  <2>1. CASE d = D
    BY <1>10, <1>17, <1>18, <1>22, <2>1 DEF h
  <2>2. CASE d # D
    BY <1>10, <1>22, <2>2
  <2>3. QED
    BY <2>1, <2>2
<1>23. ClientType'
  BY <1>1, <1>2, <1>10, <1>19 DEF ClientType, H, R
<1>24. FifoSound'
  BY <1>1 DEF ClientInv, FifoSound
<1>25. HandlersSound'
  <2>1. ASSUME NEW d \in 1..D
        PROVE  /\ Batch(handlers'[d])
               /\ \A n \in Pending(handlers'[d]) :
                     /\ BeforeFifo(n)'
                     /\ \A e \in 1..D : d < e => \A m \in Pending(handlers'[e]) : n < m
    <3>1. Batch(handlers'[d])
      <4>1. CASE d = D
        BY <1>10, <1>16, <4>1
      <4>2. CASE d # D
        BY <1>10, <4>2 DEF ClientInv, HandlersSound, D
      <4>3. QED
        BY <4>1, <4>2
    <3>2. ASSUME NEW n \in Pending(handlers'[d])
          PROVE  /\ BeforeFifo(n)'
                 /\ \A e \in 1..D : d < e => \A m \in Pending(handlers'[e]) : n < m
      BY <1>20, <1>22, <3>2 DEF ClientInv, HandlersSound, D
    <3>3. QED
      BY <3>1, <3>2
  <2>2. QED
    BY <1>21, <2>1 DEF HandlersSound
<1>26. ReceivedSound'
  <2>1. ASSUME NEW r \in 1..Len(received')
        PROVE  /\ BeforeFifo(Id(received[r]))'
               /\ \A d \in 1..D : \A n \in Pending(handlers'[d]) :
                     /\ Id(received'[r]) # n
                     /\ received'[r].depth <= d => Id(received'[r]) < n
    <3>1. CASE r \in 1..Len(received)
      <4>1. received'[r] = received[r]
        BY <1>19, <3>1
      <4>2. BeforeFifo(Id(received[r]))
        BY <3>1 DEF ClientInv, ReceivedSound
      <4>3. BeforeFifo(Id(received[r]))'
        BY <1>1, <4>1, <4>2 DEF BeforeFifo
      <4>4. ASSUME NEW d \in 1..D, NEW n \in Pending(handlers'[d])
            PROVE  Id(received[r]) # n /\ (received[r].depth <= d => Id(received[r]) < n)
        BY <1>22, <3>1, <4>4 DEF ClientInv, ReceivedSound, D
      <4>5. QED
        BY <4>1, <4>3, <4>4
    <3>2. CASE r = Len(received) + 1
      <4>1. received'[r] = new
        BY <1>19, <3>2
      <4>2. Id(received'[r]) = ev.id /\ received'[r].depth = D
        BY <1>13, <4>1
      <4>3. BeforeFifo(Id(received[r]))'
        BY <1>1, <1>20, <4>2 DEF BeforeFifo
      <4>4. ASSUME NEW d \in 1..D, NEW n \in Pending(handlers'[d])
            PROVE  ev.id # n /\ (D <= d => ev.id < n)
        <5>1. n \in Pending(handlers[d]) /\ (d = D => ev.id < n)
          BY <1>22, <4>4
        <5>2. n \in Nat
          BY <1>2, <5>1, PendingType DEF D
        <5>3. d < D => n < ev.id
          BY <1>3, <1>14, <5>1 DEF ClientInv, HandlersSound, D, h
        <5>4. QED
          BY <1>3, <1>14, <5>1, <5>2, <5>3
      <4>5. QED
        BY <4>2, <4>3, <4>4
    <3>3. QED
      BY <1>19, <3>1, <3>2
  <2>2. QED
    BY <1>21, <2>1 DEF ReceivedSound
<1>27. ReceivedFaithful'
  <2>1. ASSUME NEW r \in 1..Len(received')
        PROVE  received'[r].copy = Faithful(received'[r].copy.event)
    <3>1. CASE r \in 1..Len(received)
      BY <1>19, <3>1 DEF ClientInv, ReceivedFaithful
    <3>2. CASE r = Len(received) + 1
      BY <1>13, <1>19, <3>2
    <3>3. QED
      BY <1>19, <3>1, <3>2
  <2>2. QED
    BY <2>1 DEF ReceivedFaithful
<1>28. ReceivedInOrder'
  <2>1. ASSUME NEW i \in 1..Len(received'), NEW j \in 1..Len(received'), i < j
        PROVE  /\ Id(received'[i]) # Id(received'[j])
               /\ received'[i].depth = received'[j].depth
                      => Id(received'[i]) < Id(received'[j])
    <3>1. i \in 1..Len(received) /\ received'[i] = received[i]
      BY <1>19, <2>1
    <3>2. CASE j \in 1..Len(received)
      BY <1>19, <2>1, <3>1, <3>2 DEF ClientInv, ReceivedInOrder
    <3>3. CASE j = Len(received) + 1
      <4>1. Id(received'[j]) = ev.id /\ received'[j].depth = D
        BY <1>13, <1>19, <3>3
      <4>2. /\ Id(received[i]) # ev.id
            /\ received[i].depth <= D => Id(received[i]) < ev.id
        BY <1>3, <1>14, <3>1 DEF ClientInv, ReceivedSound, D, h
      <4>3. QED
        BY <1>3, <3>1, <4>1, <4>2
    <3>4. QED
      BY <1>19, <3>2, <3>3
  <2>2. QED
    BY <2>1 DEF ReceivedInOrder
<1>29. QED
  BY <1>23, <1>24, <1>25, <1>26, <1>27, <1>28 DEF ClientInv

LEMMA HandlerReturnsKeeps ==
    ASSUME ClientInv, HandlerReturns
    PROVE  ClientInv'
<1> DEFINE H == [buf : Seq(Bytes), offset : Nat]
<1>1. /\ Depth > 0 /\ handlers' = SubSeq(handlers, 1, Depth - 1)
      /\ UNCHANGED <<posted, fifo, received>>
  BY DEF HandlerReturns
<1>2. handlers \in Seq(H) /\ Depth = Len(handlers) /\ Depth \in Nat
  BY DEF ClientInv, ClientType, Depth
<1> HIDE DEF H
<1>3. /\ handlers' \in Seq(H) /\ Depth' = Depth - 1
      /\ \A d \in 1..Depth' : handlers'[d] = handlers[d] /\ d \in 1..Depth
  <2>1. Depth - 1 \in Nat /\ \A i \in 1..(Depth - 1) : handlers[i] \in H
    BY <1>1, <1>2
  <2>2. handlers' \in Seq(H) /\ Len(handlers') = Depth - 1
        /\ \A i \in 1..(Depth - 1) : handlers'[i] = handlers[i]
    BY <1>1, <1>2, <2>1
  <2>3. QED
    BY <1>2, <2>1, <2>2 DEF Depth
<1>4. ClientType'
  BY <1>1, <1>3 DEF ClientInv, ClientType, H
<1>5. FifoSound' /\ ReceivedFaithful' /\ ReceivedInOrder'
  BY <1>1 DEF ClientInv, FifoSound, ReceivedFaithful, ReceivedInOrder
<1>6. \A n : BeforeFifo(n) <=> BeforeFifo(n)'
  BY <1>1 DEF BeforeFifo
<1>7. HandlersSound'
  BY <1>3, <1>6 DEF ClientInv, HandlersSound
<1>8. ReceivedSound'
  BY <1>1, <1>3 DEF ClientInv, ReceivedSound, BeforeFifo
<1>9. QED
  BY <1>4, <1>5, <1>7, <1>8 DEF ClientInv

LEMMA InitSound == Init => ClientInv
<1> SUFFICES ASSUME Init PROVE ClientInv
  OBVIOUS
<1>1. posted = 0 /\ fifo = <<>> /\ handlers = <<>> /\ received = <<>>
  BY DEF Init
<1>2. ClientType
  BY <1>1 DEF ClientType
<1>3. Depth = 0 /\ Len(received) = 0 /\ Len(fifo) = 0
  BY <1>1 DEF Depth
<1>4. FifoSound /\ HandlersSound /\ ReceivedSound
  BY <1>3 DEF FifoSound, Increasing, HandlersSound, ReceivedSound
<1>5. ReceivedFaithful /\ ReceivedInOrder
  BY <1>3 DEF ReceivedFaithful, ReceivedInOrder
<1>6. QED
  BY <1>2, <1>4, <1>5 DEF ClientInv

LEMMA NextKeeps == ClientInv /\ [Next]_vars => ClientInv'
<1> SUFFICES ASSUME ClientInv, [Next]_vars PROVE ClientInv'
  OBVIOUS
<1>1. CASE \E lens \in Lists : ScheduleEvents(lens)
  BY <1>1, ScheduleEventsKeeps
<1>2. CASE \E len \in Lens : ScheduleEvent(len)
  BY <1>2, ScheduleEventKeeps
<1>3. CASE Dispatch
  BY <1>3, DispatchKeeps
<1>4. CASE Deserialize
  BY <1>4, DeserializeKeeps
<1>5. CASE HandlerReturns
  BY <1>5, HandlerReturnsKeeps
<1>6. CASE UNCHANGED vars
  BY <1>6, StutterKeeps DEF vars
<1>7. QED
  BY <1>1, <1>2, <1>3, <1>4, <1>5, <1>6 DEF Next

LEMMA ClientInvHolds == Spec => []ClientInv
BY InitSound, NextKeeps, PTL DEF Spec

(***************************************************************************)
(* A handler of handle-event gets every event whole, its blob included:    *)
(* for any size of the buffer and of the FIFO, any lengths of the blobs    *)
(* and any depth of nested iterations.                                     *)
(***************************************************************************)
THEOREM EventsArriveWhole == Spec => []ReceivedFaithful
<1>1. ClientInv => ReceivedFaithful
  BY DEF ClientInv
<1>2. QED
  BY <1>1, ClientInvHolds, PTL

\* Whatever handlers iterate the context, and however deep, handle-event is not
\* emitted twice for an event, and at one depth in the order of scheduling.
THEOREM EventsArriveInOrder == Spec => []ReceivedInOrder
<1>1. ClientInv => ReceivedInOrder
  BY DEF ClientInv
<1>2. QED
  BY <1>1, ClientInvHolds, PTL

(***************************************************************************)
(* alsaseq_user_client_schedule_events() answers with the number of events *)
(* that the sequencer core took, for lists of any length and any lengths   *)
(* of the blobs.                                                           *)
(***************************************************************************)
THEOREM CountIsExact == Spec => []CountExact
<1>1. Init => CountExact
  BY DEF Init, CountExact
<1>2. ClientInv /\ CountExact /\ [Next]_vars => CountExact'
  <2> SUFFICES ASSUME ClientInv, CountExact, [Next]_vars PROVE CountExact'
    OBVIOUS
  <2>1. CASE \E lens \in Lists : ScheduleEvents(lens)
    BY <2>1, ScheduleEventsKeeps
  <2>2. CASE \E len \in Lens : ScheduleEvent(len)
    BY <2>2, ScheduleEventKeeps
  <2>3. CASE UNCHANGED call
    BY <2>3 DEF CountExact
  <2>4. QED
    BY <2>1, <2>2, <2>3 DEF Next, vars, Dispatch, Deserialize, HandlerReturns
<1>3. QED
  BY <1>1, <1>2, ClientInvHolds, PTL DEF Spec
=============================================================================
