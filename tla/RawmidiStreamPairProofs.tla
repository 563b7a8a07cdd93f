----------------------- MODULE RawmidiStreamPairProofs -----------------------
(***************************************************************************)
(* Proofs about ALSARawmidiStreamPair, for any number of sources, sizes of *)
(* the buffers and depth of nested iterations.                             *)
(***************************************************************************)
EXTENDS RawmidiStreamPair, FiniteSetTheorems, SequenceTheorems, TLAPS

Frame == [conds : [Sources -> SUBSET {"IN", "ERR"}], run : Sources \cup {NoSource},
          signal : {"none", "messages", "disconnection"}]

BytesOK ==
    /\ connected \in BOOLEAN /\ inbuf \in Seq(Nat) /\ received \in Nat
    /\ outbuf \in 0..OutSize /\ taken \in Nat
    /\ got \in Seq(Nat) /\ cut \in BOOLEAN /\ told \in Nat /\ waits \in BOOLEAN

TypeOK ==
    /\ fd \in {"none", "RDONLY", "WRONLY", "RDWR"} /\ nonblock \in BOOLEAN
    /\ refs \in Nat /\ owner \in BOOLEAN /\ strings \in Nat /\ failed \in Nat
    /\ src \in [Sources -> {"none", "attached", "destroyed", "final"}]
    /\ frames \in Seq(Frame) /\ BytesOK

\* The sources with a reference to the object.
Held == {s \in Sources : src[s] \in {"attached", "destroyed"}}
Of(b) == IF b THEN 1 ELSE 0

(***************************************************************************)
(* The references are those of the owner and of the sources that are not   *)
(* finalized; a source that is dispatched is one of them, a source exists  *)
(* on an open object only, and the object that is released is closed.      *)
(***************************************************************************)
Balanced ==
    /\ refs = Of(owner) + Cardinality(Held)
    /\ \A s \in Sources : Running(s, frames) => s \in Held
    /\ Held # {} => fd # "none"
    /\ ~Alive => fd = "none"
    /\ strings = failed + Of(fd # "none")
    /\ waits => Alive

\* Nothing was written in part before the object is opened.
NoneCut == fd = "none" /\ Alive => ~cut

RawInv == TypeOK /\ Balanced /\ ReadInOrder /\ NoneCut /\ WrittenIsTaken
----------------------------------------------------------------------------
\* The innermost iteration is replaced.
LEMMA TopSet ==
    ASSUME NEW S, NEW st \in Seq(S), st # <<>>, NEW g \in S
    PROVE  LET new == [st EXCEPT ![Len(st)] = g] IN
           /\ new \in Seq(S) /\ Len(new) = Len(st) /\ new[Len(st)] = g
           /\ \A i \in 1..Len(st) : i # Len(st) => new[i] = st[i]
BY ExceptSeq, EmptySeq, LenProperties

LEMMA Prefix ==
    ASSUME NEW S, NEW s \in Seq(S), NEW n \in Nat, n <= Len(s)
    PROVE  /\ SubSeq(s, 1, n) \in Seq(S) /\ Len(SubSeq(s, 1, n)) = n
           /\ \A i \in 1..n : SubSeq(s, 1, n)[i] = s[i]
OBVIOUS

LEMMA Pushed ==
    ASSUME NEW S, NEW st \in Seq(S), NEW g \in S
    PROVE  LET new == Append(st, g) IN
           /\ new \in Seq(S) /\ Len(new) = Len(st) + 1 /\ new[Len(st) + 1] = g
           /\ \A i \in 1..Len(st) : new[i] = st[i]
BY AppendProperties

LEMMA Popped ==
    ASSUME NEW S, NEW st \in Seq(S), st # <<>>
    PROVE  LET new == Front(st) IN
           /\ new \in Seq(S) /\ Len(new) = Len(st) - 1
           /\ \A i \in 1..Len(st) - 1 : new[i] = st[i]
<1>1. Len(st) - 1 \in Nat /\ Len(st) - 1 <= Len(st)
  BY EmptySeq, LenProperties
<1>2. Front(st) = SubSeq(st, 1, Len(st) - 1)
  BY DEF Front
<1>3. LET new == SubSeq(st, 1, Len(st) - 1) IN
      /\ new \in Seq(S) /\ Len(new) = Len(st) - 1
      /\ \A i \in 1..Len(st) - 1 : new[i] = st[i]
  BY <1>1, Prefix
<1>4. QED
  BY <1>2, <1>3

LEMMA TopFrame ==
    ASSUME TypeOK, frames # <<>>
    PROVE  /\ Len(frames) \in Nat \ {0} /\ Top = frames[Len(frames)] /\ Top \in Frame
           /\ Running(Top.run, frames)
<1>1. Len(frames) \in Nat \ {0} /\ Top = frames[Len(frames)]
  BY EmptySeq, LenProperties DEF TypeOK, BytesOK, Top, Last
<1>2. QED
  BY <1>1, ElementOfSeq DEF TypeOK, BytesOK, Running

\* The sources with a reference are finitely many.
LEMMA HeldFinite ==
    ASSUME TypeOK
    PROVE  /\ IsFiniteSet(Held) /\ Cardinality(Held) \in Nat
           /\ (Cardinality(Held) = 0 <=> Held = {})
<1>1. IsFiniteSet(Held)
  BY RawmidiAssumption, FS_Subset DEF Held
<1>2. QED
  BY <1>1, FS_CardinalityType, FS_EmptySet

\* Who has the object keeps it alive.
LEMMA ObjectAlive ==
    ASSUME TypeOK, Balanced
    PROVE  /\ HasObject => Alive
           /\ Held # {} => Alive
<1>1. Held # {} => Alive
  BY HeldFinite DEF Balanced, Alive, Of, TypeOK, BytesOK
<1>2. owner => Alive
  BY HeldFinite DEF Balanced, Alive, Of, TypeOK, BytesOK
<1>3. ASSUME frames # <<>>, Top.run # NoSource PROVE Held # {}
  <2>1. Top.run \in Sources /\ Running(Top.run, frames)
    BY <1>3, TopFrame DEF Frame
  <2>2. QED
    BY <2>1 DEF Balanced
<1>4. QED
  BY <1>1, <1>2, <1>3 DEF HasObject, InApp

\* The object is released, with its descriptor, with its last reference.
LEMMA UnrefBalanced ==
    ASSUME TypeOK, Balanced, ~waits, UNCHANGED <<waits, failed>>, NEW n \in Nat, Unref(n),
           src' \in [Sources -> {"none", "attached", "destroyed", "final"}],
           owner' \in BOOLEAN,
           Of(owner') + Cardinality(Held') = refs - n, IsFiniteSet(Held'), Held' \subseteq Held,
           \A s \in Sources : Running(s, frames') => s \in Held'
    PROVE  /\ refs' \in Nat /\ strings' \in Nat
           /\ fd' \in {"none", "RDONLY", "WRONLY", "RDWR"}
           /\ Balanced'
<1>1. Cardinality(Held') \in Nat /\ (Cardinality(Held') = 0 <=> Held' = {})
  BY FS_CardinalityType, FS_EmptySet
<1>2. refs' = refs - n /\ refs' \in Nat /\ refs' = Of(owner') + Cardinality(Held')
  BY <1>1 DEF Unref, Of
<1>3. CASE refs' = 0
  <2>1. Held' = {} /\ fd' = "none"
    BY <1>1, <1>2, <1>3 DEF Unref, Finalize, Of
  <2>2. strings' = failed /\ strings' \in Nat
    BY <1>2, <1>3 DEF Unref, Finalize, Balanced, Of, TypeOK, BytesOK
  <2>3. QED
    BY <1>2, <1>3, <2>1, <2>2 DEF Balanced, Alive, Of, TypeOK, BytesOK
<1>4. CASE refs' # 0
  <2>1. fd' = fd /\ strings' = strings
    BY <1>2, <1>4 DEF Unref, Finalize
  <2>2. Held' # {} => fd # "none"
    BY DEF Balanced
  <2>3. QED
    BY <1>2, <1>4, <2>1, <2>2 DEF Balanced, Alive, Of, TypeOK, BytesOK
<1>5. QED
  BY <1>3, <1>4

\* rawmidi_stream_pair_finalize_src() drops what the sources that are
\* finalized hold.
LEMMA DestroyBalanced ==
    ASSUME TypeOK, Balanced, ~waits, UNCHANGED <<waits, failed, owner>>,
           NEW D \in SUBSET Sources, \A s \in D : src[s] = "attached",
           NEW fs, frames' = fs, Destroy(D, fs),
           \A s \in Sources : Running(s, fs) => Running(s, frames)
    PROVE  /\ refs' \in Nat /\ strings' \in Nat
           /\ fd' \in {"none", "RDONLY", "WRONLY", "RDWR"}
           /\ src' \in [Sources -> {"none", "attached", "destroyed", "final"}]
           /\ Balanced'
<1> DEFINE gone == {s \in Sources : (s \in D \/ src[s] = "destroyed") /\ ~Running(s, fs)}
<1>1. /\ src' = [s \in Sources |-> IF s \in gone THEN "final"
                                   ELSE IF s \in D THEN "destroyed" ELSE src[s]]
      /\ Unref(Cardinality(gone))
  BY DEF Destroy
<1>2. gone \subseteq Held
  BY DEF Held
<1>3. \A s \in Sources : Running(s, fs) => s \notin gone
  OBVIOUS
<1> HIDE DEF gone
<1>4. src' \in [Sources -> {"none", "attached", "destroyed", "final"}]
  BY <1>1 DEF TypeOK, BytesOK
<1>5. \A s \in Sources : src'[s] = IF s \in gone THEN "final"
                                  ELSE IF s \in D THEN "destroyed" ELSE src[s]
  BY <1>1
<1>6. Held' = Held \ gone
  BY <1>2, <1>5 DEF Held
<1>7. /\ IsFiniteSet(Held') /\ Cardinality(Held') = Cardinality(Held) - Cardinality(gone)
      /\ Cardinality(gone) \in Nat
  <2>1. Held \cap gone = gone
    BY <1>2
  <2>2. IsFiniteSet(Held) /\ IsFiniteSet(gone)
    BY <1>2, HeldFinite, FS_Subset
  <2>3. /\ IsFiniteSet(Held \ gone)
        /\ Cardinality(Held \ gone) = Cardinality(Held) - Cardinality(Held \cap gone)
    BY ONLY <2>2, FS_Difference
  <2>4. Cardinality(gone) \in Nat
    BY ONLY <2>2, FS_CardinalityType
  <2>5. QED
    BY ONLY <1>6, <2>1, <2>3, <2>4, Zenon
<1>8. Of(owner') + Cardinality(Held') = refs - Cardinality(gone)
  BY <1>7, HeldFinite DEF Balanced, Of
<1>9. \A s \in Sources : Running(s, frames') => s \in Held'
  BY <1>3, <1>6 DEF Balanced
<1>10. owner' \in BOOLEAN /\ Held' \subseteq Held
  BY <1>6 DEF TypeOK, BytesOK
<1>11. QED
  BY <1>1, <1>4, <1>7, <1>8, <1>9, <1>10, UnrefBalanced
----------------------------------------------------------------------------
\* A read(2) moves bytes from the start of the buffer to the end of those that
\* were handed out.
LEMMA Concat ==
    ASSUME NEW S, NEW s \in Seq(S), NEW t \in Seq(S), NEW c, c = s \o t
    PROVE  /\ c \in Seq(S) /\ Len(c) = Len(s) + Len(t)
           /\ \A i \in 1..Len(s) : c[i] = s[i]
           /\ \A i \in 1..Len(t) : c[Len(s) + i] = t[i]
BY ConcatProperties

LEMMA Appended ==
    ASSUME NEW S, NEW s \in Seq(S), NEW t \in Seq(S), NEW x \in S
    PROVE  s \o Append(t, x) = Append(s \o t, x)
OBVIOUS

Moves(a, b, n, first, rest, x, y, z) ==
    /\ a \in Seq(Nat) /\ b \in Seq(Nat) /\ n \in 0..Len(b)
    /\ first \in Seq(Nat) /\ Len(first) = n /\ \A i \in 1..n : first[i] = b[i]
    /\ rest = SubSeq(b, n + 1, Len(b))
    /\ x = a \o first /\ y = x \o rest /\ z = a \o b

LEMMA Moved ==
    ASSUME NEW a, NEW b, NEW n, NEW first, NEW rest, NEW x, NEW y, NEW z,
           Moves(a, b, n, first, rest, x, y, z)
    PROVE  x \in Seq(Nat) /\ rest \in Seq(Nat) /\ y = z
<1> DEFINE S == Nat
<1>a. a \in Seq(S) /\ b \in Seq(S) /\ n \in 0..Len(b)
  BY DEF Moves
<1>b. first \in Seq(S) /\ Len(first) = n /\ \A i \in 1..n : first[i] = b[i]
  BY DEF Moves
<1>c. rest = SubSeq(b, n + 1, Len(b))
  BY DEF Moves
<1>d. x = a \o first
  BY DEF Moves
<1>e. y = x \o rest
  BY DEF Moves
<1>f. z = a \o b
  BY DEF Moves
<1> HIDE DEF S
<1>1. Len(a) \in Nat /\ Len(b) \in Nat /\ n \in Nat /\ n <= Len(b)
  BY <1>a, LenProperties
<1>2. /\ rest \in Seq(S) /\ Len(rest) = Len(b) - n
      /\ \A i \in 1..Len(b) - n : rest[i] = b[n + i]
  BY <1>1, <1>a, <1>c, SubSeqProperties
<1>3. /\ x \in Seq(S) /\ Len(x) = Len(a) + Len(first) /\ \A i \in 1..Len(a) : x[i] = a[i]
      /\ \A i \in 1..Len(first) : x[Len(a) + i] = first[i]
  BY <1>a, <1>b, <1>d, Concat
<1>4. /\ z \in Seq(S) /\ Len(z) = Len(a) + Len(b) /\ \A i \in 1..Len(a) : z[i] = a[i]
      /\ \A i \in 1..Len(b) : z[Len(a) + i] = b[i]
  BY <1>a, <1>f, Concat
<1>5. /\ y \in Seq(S) /\ Len(y) = Len(x) + Len(rest) /\ \A i \in 1..Len(x) : y[i] = x[i]
      /\ \A i \in 1..Len(rest) : y[Len(x) + i] = rest[i]
  <2>1. x \in Seq(S) /\ rest \in Seq(S)
    BY <1>2, <1>3
  <2>2. QED
    BY <1>e, <2>1, Concat
<1>6. Len(y) = Len(z)
  BY <1>1, <1>2, <1>3, <1>4, <1>5, <1>b
<1>7. ASSUME NEW i \in 1..Len(y) PROVE y[i] = z[i]
  <2>1. i \in Nat /\ i >= 1 /\ i <= Len(a) + Len(b)
    BY <1>1, <1>4, <1>6, i \in 1..Len(y)
  <2>2. CASE i <= Len(a)
    BY <1>1, <1>3, <1>4, <1>5, <2>1, <2>2, <1>b
  <2>3. CASE i > Len(a) /\ i <= Len(a) + n
    <3>1. i - Len(a) \in 1..n /\ i - Len(a) \in 1..Len(b) /\ i \in 1..Len(x)
      BY <1>1, <1>3, <2>1, <2>3, <1>b
    <3>2. i = Len(a) + (i - Len(a))
      BY <1>1, <2>1
    <3>3. x[i] = first[i - Len(a)] /\ z[i] = b[i - Len(a)] /\ y[i] = x[i]
      BY <1>3, <1>4, <1>5, <3>1, <3>2, <1>b
    <3>4. QED
      BY <1>b, <3>1, <3>3
  <2>4. CASE i > Len(a) + n
    <3>1. /\ i - Len(x) \in 1..Len(b) - n /\ i - Len(a) \in 1..Len(b)
          /\ i - Len(x) \in 1..Len(rest)
      BY <1>1, <1>2, <1>3, <2>1, <2>4, <1>b
    <3>2. /\ i = Len(a) + (i - Len(a)) /\ i = Len(x) + (i - Len(x))
          /\ n + (i - Len(x)) = i - Len(a)
      BY <1>1, <1>3, <2>1, <1>b
    <3>3. z[i] = b[i - Len(a)] /\ y[i] = rest[i - Len(x)]
      <4>1. z[Len(a) + (i - Len(a))] = b[i - Len(a)]
        BY ONLY <1>4, <3>1, Zenon
      <4>2. y[Len(x) + (i - Len(x))] = rest[i - Len(x)]
        BY ONLY <1>5, <3>1, Zenon
      <4>3. QED
        BY ONLY <3>2, <4>1, <4>2, Zenon
    <3>4. rest[i - Len(x)] = b[i - Len(a)]
      BY <1>2, <3>1, <3>2
    <3>5. QED
      BY <3>3, <3>4
  <2>5. QED
    BY <1>1, <2>1, <2>2, <2>3, <2>4
<1>8. QED
  BY <1>2, <1>3, <1>4, <1>5, <1>6, <1>7, SeqEqual DEF S

LEMMA ReadEffect ==
    ASSUME TypeOK, NEW size \in Nat, ReadBytes(size)
    PROVE  got' \in Seq(Nat) /\ inbuf' \in Seq(Nat) /\ got' \o inbuf' = got \o inbuf
<1> DEFINE len == IF size < Len(inbuf) THEN size ELSE Len(inbuf)
<1>1. len \in 0..Len(inbuf)
  BY LenProperties DEF TypeOK, BytesOK
<1>2. /\ got' = got \o Found(BufSize(size, len), len)
      /\ inbuf' = SubSeq(inbuf, len + 1, Len(inbuf))
  BY DEF ReadBytes
<1> HIDE DEF len
<1>3. Found(BufSize(size, len), len) = [i \in 1..len |-> inbuf[i]]
  BY <1>1 DEF Found, BufSize
<1>4. got \in Seq(Nat) /\ inbuf \in Seq(Nat)
  BY DEF TypeOK, BytesOK
<1> DEFINE first == Found(BufSize(size, len), len)
           rest == SubSeq(inbuf, len + 1, Len(inbuf))
<1>5. first \in Seq(Nat) /\ Len(first) = len /\ \A i \in 1..len : first[i] = inbuf[i]
  <2>1. len \in Nat /\ \A i \in 1..len : inbuf[i] \in Nat
    BY <1>1, <1>4, LenProperties, ElementOfSeq
  <2>2. QED
    BY <1>3, <2>1, IsASeq
<1>6. rest = SubSeq(inbuf, len + 1, Len(inbuf))
  OBVIOUS
<1>7. got' = got \o first /\ inbuf' = rest
  BY <1>2
<1> HIDE DEF first, rest
<1> DEFINE y == got' \o rest
           z == got \o inbuf
<1>8. y = got' \o rest /\ z = got \o inbuf /\ y = got' \o inbuf'
  BY <1>7
<1> HIDE DEF y, z
<1>9. Moves(got, inbuf, len, first, rest, got', y, z)
  BY <1>1, <1>4, <1>5, <1>6, <1>7, <1>8 DEF Moves
<1>10. QED
  BY <1>7, <1>8, <1>9, Moved

\* What leaves the object, its sources and the iterations alone.
LEMMA OtherSteps ==
    ASSUME TypeOK, Balanced, UNCHANGED <<objVars, srcVars>>, BytesOK',
           waits' => waits \/ HasObject
    PROVE  (TypeOK /\ Balanced)'
<1>1. waits' => Alive
  BY ObjectAlive DEF Balanced
<1>2. TypeOK'
  BY DEF TypeOK, BytesOK, objVars, srcVars
<1>3. Held' = Held
  BY DEF Held, srcVars
<1>4. QED
  BY <1>1, <1>2, <1>3 DEF Balanced, Alive, objVars, srcVars

\* What a write(2) takes fits into the buffer.
LEMMA WriteEffect ==
    ASSUME TypeOK, NEW size \in Nat \ {0}, write_to_substream(size)
    PROVE  \E len \in 0..size :
             /\ outbuf' = outbuf + len /\ outbuf' \in 0..OutSize
             /\ taken' = taken + len /\ told' = (IF len > 0 THEN told + size ELSE told)
             /\ cut' = (cut \/ len \in 1..size - 1) /\ (nonblock \/ len = size)
<1> DEFINE room == OutSize - outbuf
           len == IF size < room THEN size ELSE room
<1>1. /\ outbuf' = outbuf + len /\ taken' = taken + len
      /\ told' = (IF len > 0 THEN told + size ELSE told)
      /\ cut' = (cut \/ len \in 1..size - 1) /\ (nonblock \/ len = size)
  BY DEF write_to_substream, WriteSucceeds
<1>2. len \in 0..size /\ outbuf + len \in 0..OutSize
  BY RawmidiAssumption DEF TypeOK, BytesOK
<1> HIDE DEF len
<1>3. QED
  BY <1>1, <1>2

\* The ways in which the iterations change keep the sources that are dispatched,
\* but for the one that a dispatch begins with.
LEMMA FrameEffect ==
    ASSUME TypeOK, frames # <<>>, NEW g \in Frame, NEW fs, fs = WithTop(g)
    PROVE  /\ fs \in Seq(Frame)
           /\ \A s \in Sources : Running(s, fs) => s = g.run \/ Running(s, frames)
<1>1. /\ fs \in Seq(Frame) /\ Len(fs) = Len(frames) /\ fs[Len(frames)] = g
      /\ \A i \in 1..Len(frames) : i # Len(frames) => fs[i] = frames[i]
  BY TopSet DEF TypeOK, BytesOK, WithTop
<1>2. QED
  BY <1>1 DEF Running
----------------------------------------------------------------------------
\* A step of Next is one of these.
LEMMA Steps ==
    ASSUME [Next]_vars
    PROVE  \/ \E mode \in {"RDONLY", "WRONLY", "RDWR"}, nb \in BOOLEAN : Open(mode, nb)
           \/ UnrefFromOwner
           \/ \E s \in Sources : CreateSource(s)
           \/ \E s \in Sources : DropSource(s)
           \/ \E s \in Sources : Dispatch(s)
           \/ Iterate \/ DispatchReturns \/ IterationEnds
           \/ \E size \in Nat \ {0} : read_from_substream(size) \/ ReadWakes(size)
           \/ \E size \in Nat \ {0} : write_to_substream(size)
           \/ ClearOutput \/ ClearInput
           \/ Receive \/ Send \/ Disconnect \/ UNCHANGED vars
<1>1. \A size \in 1..InSize + 1 : size \in Nat \ {0}
  BY RawmidiAssumption
<1>2. \A size \in 1..OutSize + 1 : size \in Nat \ {0}
  BY RawmidiAssumption
<1>3. QED
  BY <1>1, <1>2 DEF Next, drain_substream, drop_substream, set_substream_params

LEMMA OpenInductive ==
    ASSUME TypeOK, Balanced, NEW mode \in {"RDONLY", "WRONLY", "RDWR"}, NEW nb \in BOOLEAN,
           Open(mode, nb)
    PROVE  (TypeOK /\ Balanced)'
<1>1. /\ UNCHANGED <<refs, owner, srcVars, kernVars, appVars>> /\ strings' = strings + 1
      /\ fd = "none" /\ Alive /\ Held' = Held
  BY ObjectAlive DEF Open, Held, srcVars
<1>2. \/ fd' = mode /\ nonblock' = nb /\ failed' = failed
      \/ failed' = failed + 1 /\ fd' = fd /\ nonblock' = nonblock
  BY DEF Open
<1>3. TypeOK'
  BY <1>1, <1>2 DEF TypeOK, BytesOK, srcVars, kernVars, appVars
<1>4. strings' = failed' + Of(fd' # "none")
  BY <1>1, <1>2 DEF Balanced, Of, TypeOK, BytesOK
<1>5. QED
  BY <1>1, <1>3, <1>4 DEF Balanced, Alive, srcVars, appVars

LEMMA UnrefInductive ==
    ASSUME TypeOK, Balanced, UnrefFromOwner
    PROVE  (TypeOK /\ Balanced)'
<1>1. /\ ~waits /\ owner /\ owner' = FALSE /\ Unref(1)
      /\ UNCHANGED <<nonblock, failed, srcVars, kernVars, appVars>> /\ Held' = Held
  BY DEF UnrefFromOwner, InApp, Held, srcVars
<1>2. IsFiniteSet(Held') /\ Of(owner') + Cardinality(Held') = refs - 1
  BY <1>1, HeldFinite DEF Balanced, Of
<1>3. \A s \in Sources : Running(s, frames') => s \in Held'
  BY <1>1 DEF Balanced, srcVars
<1>4. /\ src' \in [Sources -> {"none", "attached", "destroyed", "final"}]
      /\ owner' \in BOOLEAN /\ waits' = waits /\ failed' = failed
  BY <1>1 DEF TypeOK, BytesOK, srcVars, appVars
<1>5. /\ refs' \in Nat /\ strings' \in Nat /\ fd' \in {"none", "RDONLY", "WRONLY", "RDWR"}
      /\ Balanced'
  BY <1>1, <1>2, <1>3, <1>4, UnrefBalanced
<1>6. QED
  BY <1>1, <1>4, <1>5 DEF TypeOK, BytesOK, srcVars, kernVars, appVars

LEMMA CreateInductive ==
    ASSUME TypeOK, Balanced, NEW s \in Sources, CreateSource(s)
    PROVE  (TypeOK /\ Balanced)'
<1>1. /\ fd # "none" /\ src[s] = "none" /\ refs' = refs + 1
      /\ src' = [src EXCEPT ![s] = "attached"]
      /\ UNCHANGED <<fd, nonblock, owner, strings, failed, frames, kernVars, appVars>>
  BY DEF CreateSource, TakeRef
<1>2. TypeOK'
  BY <1>1 DEF TypeOK, BytesOK, kernVars, appVars
<1>3. Held' = Held \cup {s} /\ s \notin Held
  BY <1>1 DEF Held, TypeOK, BytesOK
<1>4. Cardinality(Held') = Cardinality(Held) + 1
  BY <1>3, HeldFinite, FS_AddElement
<1>5. refs' = Of(owner') + Cardinality(Held')
  BY <1>1, <1>4, HeldFinite DEF Balanced, Of
<1>6. \A t \in Sources : Running(t, frames') => t \in Held'
  BY <1>1, <1>3 DEF Balanced
<1>7. refs' > 0
  BY <1>1 DEF TypeOK, BytesOK
<1>8. QED
  BY <1>1, <1>2, <1>5, <1>6, <1>7 DEF Balanced, Alive, appVars

LEMMA DropInductive ==
    ASSUME TypeOK, Balanced, NEW s \in Sources, DropSource(s)
    PROVE  (TypeOK /\ Balanced)'
<1>1. /\ ~waits /\ src[s] = "attached" /\ Destroy({s}, frames) /\ frames' = frames
      /\ UNCHANGED <<nonblock, owner, failed, kernVars, appVars>>
  BY DEF DropSource, InApp
<1>2. waits' = waits /\ {s} \in SUBSET Sources /\ \A t \in {s} : src[t] = "attached"
  BY <1>1 DEF appVars
<1>3. /\ refs' \in Nat /\ strings' \in Nat /\ fd' \in {"none", "RDONLY", "WRONLY", "RDWR"}
      /\ src' \in [Sources -> {"none", "attached", "destroyed", "final"}] /\ Balanced'
  BY <1>1, <1>2, DestroyBalanced
<1>4. QED
  BY <1>1, <1>3 DEF TypeOK, BytesOK, kernVars, appVars

LEMMA ReturnInductive ==
    ASSUME TypeOK, Balanced, DispatchReturns
    PROVE  (TypeOK /\ Balanced)'
<1> DEFINE s == Top.run
           g == [Top EXCEPT !.run = NoSource, !.signal = "none"]
           fs == WithTop(g)
           D == IF Top.signal = "disconnection" /\ src[s] = "attached" THEN {s} ELSE {}
<1>1. /\ ~waits /\ frames # <<>> /\ s # NoSource /\ frames' = fs /\ Destroy(D, fs)
      /\ UNCHANGED <<nonblock, owner, failed, kernVars, appVars>>
  BY DEF DispatchReturns
<1>2. s \in Sources /\ g \in Frame /\ g.run = NoSource
  BY <1>1, TopFrame DEF Frame
<1>3. D \in SUBSET Sources /\ \A t \in D : src[t] = "attached"
  BY <1>2
<1> HIDE DEF g, D
<1>4. fs \in Seq(Frame) /\ \A t \in Sources : Running(t, fs) => Running(t, frames)
  BY <1>1, <1>2, FrameEffect, RawmidiAssumption
<1> HIDE DEF fs
<1>5. waits' = waits
  BY <1>1 DEF appVars
<1>6. /\ refs' \in Nat /\ strings' \in Nat /\ fd' \in {"none", "RDONLY", "WRONLY", "RDWR"}
      /\ src' \in [Sources -> {"none", "attached", "destroyed", "final"}] /\ Balanced'
  BY <1>1, <1>3, <1>4, <1>5, DestroyBalanced
<1>7. QED
  BY <1>1, <1>4, <1>6 DEF TypeOK, BytesOK, kernVars, appVars

\* Only the iterations change, and only a source that is attached is dispatched
\* anew.
LEMMA FramesInductive ==
    ASSUME TypeOK, Balanced, UNCHANGED <<objVars, src, kernVars, appVars>>,
           frames' \in Seq(Frame),
           \A s \in Sources : Running(s, frames') => Running(s, frames) \/ src[s] = "attached"
    PROVE  (TypeOK /\ Balanced)'
<1>1. TypeOK'
  BY DEF TypeOK, BytesOK, objVars, kernVars, appVars
<1>2. Held' = Held /\ \A s \in Sources : Running(s, frames') => s \in Held'
  BY DEF Balanced, Held
<1>3. QED
  BY <1>1, <1>2 DEF Balanced, Alive, objVars, appVars

LEMMA ObjectInductive ==
    ASSUME TypeOK, Balanced, [Next]_vars
    PROVE  (TypeOK /\ Balanced)'
<1>t. /\ outbuf \in 0..OutSize /\ OutSize \in Nat /\ taken \in Nat /\ told \in Nat
      /\ received \in Nat /\ inbuf \in Seq(Nat)
  BY RawmidiAssumption DEF TypeOK, BytesOK
<1>1. ASSUME NEW s \in Sources, Dispatch(s) PROVE (TypeOK /\ Balanced)'
  <2> DEFINE g == [Top EXCEPT !.run = s, !.conds[s] = {}, !.signal = SignalFor(Top.conds[s])]
  <2>1. /\ frames # <<>> /\ src[s] = "attached" /\ frames' = WithTop(g)
        /\ UNCHANGED <<objVars, src, kernVars, appVars>>
    BY <1>1 DEF Dispatch, Ready
  <2>2. g \in Frame /\ g.run = s
    BY <2>1, TopFrame DEF Frame, SignalFor
  <2> HIDE DEF g
  <2>3. /\ frames' \in Seq(Frame)
        /\ \A t \in Sources : Running(t, frames') => t = s \/ Running(t, frames)
    BY <2>1, <2>2, FrameEffect
  <2>4. QED
    BY <2>1, <2>3, FramesInductive
<1>2. CASE Iterate
  <2> DEFINE f == [Idle EXCEPT !.conds = [s \in Sources |-> IF src[s] = "attached" THEN Poll
                                                           ELSE {}]]
  <2>1. frames' = Append(frames, f) /\ UNCHANGED <<objVars, src, kernVars, appVars>>
    BY <1>2 DEF Iterate
  <2>2. f \in Frame /\ f.run = NoSource
    BY DEF Idle, Frame, Poll
  <2> HIDE DEF f
  <2>3. /\ frames' \in Seq(Frame) /\ Len(frames') = Len(frames) + 1 /\ Len(frames) \in Nat
        /\ frames'[Len(frames) + 1] = f /\ \A i \in 1..Len(frames) : frames'[i] = frames[i]
    BY <2>1, <2>2, AppendProperties, LenProperties DEF TypeOK, BytesOK
  <2>4. \A s \in Sources : Running(s, frames') => Running(s, frames)
    BY <2>2, <2>3, RawmidiAssumption DEF Running
  <2>5. QED
    BY <2>1, <2>3, <2>4, FramesInductive
<1>3. CASE IterationEnds
  <2>1. /\ frames # <<>> /\ frames' = Front(frames)
        /\ UNCHANGED <<objVars, src, kernVars, appVars>>
    BY <1>3 DEF IterationEnds
  <2>2. /\ frames' \in Seq(Frame) /\ Len(frames') = Len(frames) - 1 /\ Len(frames) \in Nat
        /\ \A i \in 1..Len(frames) - 1 : frames'[i] = frames[i]
    BY <2>1, Popped, LenProperties DEF TypeOK, BytesOK
  <2>3. \A s \in Sources : Running(s, frames') => Running(s, frames)
    BY <2>2 DEF Running
  <2>4. QED
    BY <2>1, <2>2, <2>3, FramesInductive
<1>4. ASSUME NEW size \in Nat \ {0}, read_from_substream(size) \/ ReadWakes(size)
      PROVE  (TypeOK /\ Balanced)'
  <2>1. /\ UNCHANGED <<objVars, srcVars, connected, received, outbuf, taken, cut, told>>
        /\ ReadBytes(size) \/ UNCHANGED <<got, inbuf>>
        /\ waits' \in BOOLEAN /\ (waits' => waits \/ HasObject)
    BY <1>4 DEF read_from_substream, ReadWakes, TypeOK, BytesOK
  <2>2. got' \in Seq(Nat) /\ inbuf' \in Seq(Nat)
    BY <2>1, ReadEffect DEF TypeOK, BytesOK
  <2>3. BytesOK' /\ (waits' => waits \/ HasObject)
    BY <2>1, <2>2 DEF TypeOK, BytesOK
  <2>4. UNCHANGED <<objVars, srcVars>>
    BY <2>1
  <2>5. QED
    BY <2>3, <2>4, OtherSteps
<1>5. ASSUME NEW size \in Nat \ {0}, write_to_substream(size)
      PROVE  (TypeOK /\ Balanced)'
  <2>1. UNCHANGED <<objVars, srcVars, connected, inbuf, received, got, waits>>
    BY <1>5 DEF write_to_substream
  <2>2. outbuf' \in 0..OutSize /\ taken' \in Nat /\ told' \in Nat /\ cut' \in BOOLEAN
    <3>1. PICK len \in 0..size :
             /\ outbuf' \in 0..OutSize /\ taken' = taken + len
             /\ told' = (IF len > 0 THEN told + size ELSE told)
             /\ cut' = (cut \/ len \in 1..size - 1)
      BY <1>5, WriteEffect
    <3>2. cut' \in BOOLEAN
      BY <3>1
    <3>3. taken' \in Nat /\ told' \in Nat
      BY <1>t, <3>1
    <3>4. QED
      BY <3>1, <3>2, <3>3
  <2>3. BytesOK' /\ (waits' => waits \/ HasObject)
    BY <2>1, <2>2 DEF TypeOK, BytesOK
  <2>4. UNCHANGED <<objVars, srcVars>>
    BY <2>1
  <2>5. QED
    BY <2>3, <2>4, OtherSteps
<1>6. CASE ClearOutput \/ ClearInput
  <2>1. /\ UNCHANGED <<objVars, srcVars, connected, received, taken, appVars>>
        /\ outbuf' \in {outbuf, 0} /\ inbuf' \in {inbuf, <<>>}
    BY <1>6 DEF ClearOutput, ClearInput
  <2>2. outbuf' \in 0..OutSize /\ inbuf' \in Seq(Nat)
    <3>1. 0 \in 0..OutSize /\ <<>> \in Seq(Nat)
      BY <1>t, EmptySeq
    <3>2. QED
      BY ONLY <1>t, <2>1, <3>1
  <2>3. BytesOK' /\ (waits' => waits \/ HasObject)
    BY <2>1, <2>2 DEF TypeOK, BytesOK, appVars
  <2>4. UNCHANGED <<objVars, srcVars>>
    BY <2>1
  <2>5. QED
    BY <2>3, <2>4, OtherSteps
<1>7. CASE Receive
  <2>1. /\ UNCHANGED <<objVars, srcVars, connected, outbuf, taken, appVars>>
        /\ received' = received + 1 /\ inbuf' \in {inbuf, Append(inbuf, received + 1)}
    BY <1>7 DEF Receive
  <2>2. inbuf' \in Seq(Nat) /\ received' \in Nat
    <3>1. received + 1 \in Nat /\ Append(inbuf, received + 1) \in Seq(Nat)
      BY <1>t, AppendProperties
    <3>2. QED
      BY ONLY <1>t, <2>1, <3>1
  <2>3. BytesOK' /\ (waits' => waits \/ HasObject)
    BY <2>1, <2>2 DEF TypeOK, BytesOK, appVars
  <2>4. UNCHANGED <<objVars, srcVars>>
    BY <2>1
  <2>5. QED
    BY <2>3, <2>4, OtherSteps
<1>8. CASE Send \/ Disconnect
  <2>1. /\ UNCHANGED <<objVars, srcVars, inbuf, received, taken, appVars>>
        /\ (outbuf' = outbuf \/ (outbuf > 0 /\ outbuf' = outbuf - 1))
        /\ connected' \in BOOLEAN
    BY <1>8 DEF Send, Disconnect, TypeOK, BytesOK
  <2>2. outbuf' \in 0..OutSize
    BY <1>t, <2>1
  <2>3. BytesOK' /\ (waits' => waits \/ HasObject)
    BY <2>1, <2>2 DEF TypeOK, BytesOK, appVars
  <2>4. UNCHANGED <<objVars, srcVars>>
    BY <2>1
  <2>5. QED
    BY <2>3, <2>4, OtherSteps
<1>9. CASE UNCHANGED vars
  BY <1>9, OtherSteps DEF vars, TypeOK, BytesOK, kernVars, appVars
<1>10. QED
  BY <1>1, <1>2, <1>3, <1>4, <1>5, <1>6, <1>7, <1>8, <1>9, Steps, OpenInductive,
     UnrefInductive, CreateInductive, DropInductive, ReturnInductive
----------------------------------------------------------------------------
\* The bytes are handed out in order.
Ordered(all, n) ==
    /\ \A i \in 1..Len(all) : all[i] \in 1..n
    /\ \A i, j \in 1..Len(all) : i < j => all[i] < all[j]

LEMMA OrderedPrefix ==
    ASSUME NEW all \in Seq(Nat), NEW pre \in Seq(Nat), NEW n \in Nat, Ordered(all, n),
           Len(pre) <= Len(all), \A i \in 1..Len(pre) : all[i] = pre[i]
    PROVE  Ordered(pre, n)
<1>1. Len(all) \in Nat /\ Len(pre) \in Nat
  BY LenProperties
<1>2. \A i \in 1..Len(pre) : i \in 1..Len(all)
  BY <1>1
<1>3. QED
  BY <1>2 DEF Ordered

LEMMA OrderedAppend ==
    ASSUME NEW all \in Seq(Nat), NEW n \in Nat, Ordered(all, n),
           NEW new, new = Append(all, n + 1)
    PROVE  Ordered(new, n + 1)
<1>1. /\ Len(all) \in Nat /\ Len(new) = Len(all) + 1 /\ new[Len(all) + 1] = n + 1
      /\ \A i \in 1..Len(all) : new[i] = all[i]
  BY LenProperties, AppendProperties
<1>2. ASSUME NEW i \in 1..Len(new), i # Len(all) + 1
      PROVE  i \in 1..Len(all) /\ new[i] = all[i] /\ new[i] \in 1..n
  <2>1. i \in 1..Len(all)
    BY ONLY <1>1, <1>2
  <2>2. QED
    BY ONLY <1>1, <2>1, Ordered(all, n) DEF Ordered
<1>3. ASSUME NEW i \in 1..Len(new) PROVE new[i] \in 1..n + 1
  BY ONLY <1>1, <1>2, <1>3, n \in Nat
<1>4. ASSUME NEW i \in 1..Len(new), NEW j \in 1..Len(new), i < j PROVE new[i] < new[j]
  <2>1. i # Len(all) + 1
    BY ONLY <1>1, <1>4
  <2>2. CASE j = Len(all) + 1
    BY ONLY <1>1, <1>2, <1>4, <2>1, <2>2, n \in Nat
  <2>3. CASE j # Len(all) + 1
    BY ONLY <1>2, <1>4, <2>1, <2>3, Ordered(all, n) DEF Ordered
  <2>4. QED
    BY <2>2, <2>3
<1>5. QED
  BY ONLY <1>3, <1>4 DEF Ordered

LEMMA OrderInductive ==
    ASSUME TypeOK, ReadInOrder, [Next]_vars
    PROVE  ReadInOrder'
<1> DEFINE all == got \o inbuf
           new == got' \o inbuf'
<1>1. /\ all \in Seq(Nat) /\ Len(all) = Len(got) + Len(inbuf) /\ Len(all) \in Nat
      /\ Len(got) \in Nat /\ \A i \in 1..Len(got) : all[i] = got[i]
  BY Concat, LenProperties DEF TypeOK, BytesOK
<1>2. Ordered(all, received)
  BY DEF ReadInOrder, Ordered
<1>3. SUFFICES Ordered(new, received')
  BY DEF ReadInOrder, Ordered
<1>4. ASSUME new = all, received' = received PROVE Ordered(new, received')
  BY <1>2, <1>4
<1> HIDE DEF all, new
<1>5. CASE Receive
  <2>1. got' = got /\ received' = received + 1 /\ received \in Nat
    BY <1>5 DEF Receive, appVars, TypeOK, BytesOK
  <2>2. CASE inbuf' = inbuf
    <3>1. new = all
      BY <2>1, <2>2 DEF all, new
    <3>2. QED
      BY <1>2, <2>1, <3>1 DEF Ordered
  <2>3. CASE inbuf' = Append(inbuf, received + 1)
    <3>1. new = Append(all, received + 1)
      <4>1. got \in Seq(Nat) /\ inbuf \in Seq(Nat) /\ received + 1 \in Nat
        BY <2>1 DEF TypeOK, BytesOK
      <4>2. got \o Append(inbuf, received + 1) = Append(got \o inbuf, received + 1)
        BY <4>1, Appended
      <4>3. QED
        BY <2>1, <2>3, <4>2 DEF all, new
    <3>2. QED
      BY <1>1, <1>2, <2>1, <3>1, OrderedAppend
  <2>4. QED
    BY <1>5, <2>2, <2>3 DEF Receive
<1>6. ASSUME NEW size \in Nat \ {0}, read_from_substream(size) \/ ReadWakes(size)
      PROVE  Ordered(new, received')
  <2>1. received' = received /\ (ReadBytes(size) \/ UNCHANGED <<got, inbuf>>)
    BY <1>6 DEF read_from_substream, ReadWakes
  <2>2. new = all
    BY <2>1, ReadEffect DEF all, new
  <2>3. QED
    BY <1>4, <2>1, <2>2
<1>7. CASE ClearInput
  <2>1. got' = got /\ inbuf' = <<>> /\ received' = received
    BY <1>7 DEF ClearInput, appVars
  <2>2. new = got
    BY <2>1, ConcatEmptySeq DEF new, TypeOK, BytesOK
  <2>3. Ordered(got, received)
    <3>1. /\ all \in Seq(Nat) /\ got \in Seq(Nat) /\ received \in Nat
          /\ Len(got) <= Len(all) /\ \A i \in 1..Len(got) : all[i] = got[i]
      <4>1. Len(got) <= Len(all)
        BY <1>1, LenProperties DEF TypeOK, BytesOK
      <4>2. QED
        BY <1>1, <4>1 DEF TypeOK, BytesOK
    <3>2. QED
      BY ONLY <1>2, <3>1, OrderedPrefix
  <2>4. QED
    BY <2>1, <2>2, <2>3
<1>8. ASSUME UNCHANGED <<got, inbuf, received>> PROVE Ordered(new, received')
  BY <1>4, <1>8 DEF all, new
<1>9. QED
  <2>1. \/ Receive \/ ClearInput \/ UNCHANGED <<got, inbuf, received>>
        \/ \E size \in Nat \ {0} : read_from_substream(size) \/ ReadWakes(size)
    BY Steps DEF Open, UnrefFromOwner, CreateSource, DropSource, Dispatch, Iterate,
       DispatchReturns, IterationEnds, write_to_substream, ClearOutput, Send, Disconnect,
       vars, kernVars, appVars
  <2>2. QED
    BY <1>5, <1>6, <1>7, <1>8, <2>1
----------------------------------------------------------------------------
\* A reference is dropped: the object was alive, and it is open as before unless
\* it is gone.
LEMMA UnrefEffect ==
    ASSUME TypeOK, Balanced,
           UnrefFromOwner \/ (\E s \in Sources : DropSource(s)) \/ DispatchReturns
    PROVE  /\ Alive /\ (Alive' => fd' = fd)
           /\ UNCHANGED <<nonblock, taken, cut, told>>
<1>1. ASSUME NEW n, Unref(n) PROVE Alive' => fd' = fd
  BY <1>1 DEF Unref, Finalize, Alive
<1>2. CASE UnrefFromOwner
  <2>1. HasObject
    BY <1>2 DEF UnrefFromOwner, HasObject
  <2>2. QED
    BY <1>1, <1>2, <2>1, ObjectAlive DEF UnrefFromOwner, kernVars, appVars
<1>3. ASSUME NEW s \in Sources, DropSource(s)
      PROVE  /\ Alive /\ (Alive' => fd' = fd)
             /\ UNCHANGED <<nonblock, taken, cut, told>>
  <2>1. s \in Held
    BY <1>3 DEF DropSource, Held
  <2>2. QED
    BY <1>1, <1>3, <2>1, ObjectAlive DEF DropSource, Destroy, kernVars, appVars
<1>4. CASE DispatchReturns
  <2>1. Top.run \in Held
    BY <1>4, TopFrame DEF DispatchReturns, Frame, Balanced
  <2>2. QED
    BY <1>1, <1>4, <2>1, ObjectAlive DEF DispatchReturns, Destroy, kernVars, appVars
<1>5. QED
  BY <1>2, <1>3, <1>4

LEMMA WrittenInductive ==
    ASSUME TypeOK, Balanced, NoneCut, WrittenIsTaken, [Next]_vars
    PROVE  (NoneCut /\ WrittenIsTaken)'
<1>1. ASSUME NEW mode \in {"RDONLY", "WRONLY", "RDWR"}, NEW nb \in BOOLEAN, Open(mode, nb)
      PROVE  (NoneCut /\ WrittenIsTaken)'
  <2>1. fd = "none" /\ Alive /\ UNCHANGED <<taken, cut, told>>
    BY <1>1, ObjectAlive DEF Open, kernVars, appVars
  <2>2. ~cut /\ told = taken
    BY <2>1 DEF NoneCut, WrittenIsTaken
  <2>3. QED
    BY <2>1, <2>2 DEF NoneCut, WrittenIsTaken
<1>2. ASSUME NEW size \in Nat \ {0}, write_to_substream(size)
      PROVE  (NoneCut /\ WrittenIsTaken)'
  <2>1. fd' = fd /\ fd # "none" /\ nonblock' = nonblock
    BY <1>2 DEF write_to_substream, Writable, objVars
  <2>2. PICK len \in 0..size :
           /\ taken' = taken + len /\ told' = (IF len > 0 THEN told + size ELSE told)
           /\ cut' = (cut \/ len \in 1..size - 1) /\ (nonblock \/ len = size)
    BY <1>2, WriteEffect
  <2>3. taken \in Nat /\ told \in Nat
    BY DEF TypeOK, BytesOK
  <2>4. len = 0 \/ len = size \/ len \in 1..size - 1
    BY <2>2
  <2>5. told' = taken' \/ cut'
    <3>1. CASE told = taken
      <4>1. CASE len \in 1..size - 1
        BY <2>2, <4>1
      <4>2. CASE len = 0
        BY <2>2, <2>3, <3>1, <4>2
      <4>3. CASE len = size
        BY <2>2, <2>3, <3>1, <4>3
      <4>4. QED
        BY <2>4, <4>1, <4>2, <4>3
    <3>2. CASE cut
      BY <2>2, <3>2
    <3>3. QED
      BY <3>1, <3>2 DEF WrittenIsTaken
  <2>6. cut' => nonblock'
    <3>1. CASE len = size
      <4>1. len \notin 1..size - 1
        BY <3>1
      <4>2. QED
        BY <2>1, <2>2, <4>1 DEF WrittenIsTaken
    <3>2. CASE nonblock
      BY <2>1, <3>2
    <3>3. QED
      BY <2>2, <3>1, <3>2
  <2>7. QED
    BY <2>1, <2>5, <2>6 DEF NoneCut, WrittenIsTaken
<1>3. CASE UnrefFromOwner \/ (\E s \in Sources : DropSource(s)) \/ DispatchReturns
  BY <1>3, UnrefEffect DEF NoneCut, WrittenIsTaken
<1>4. ASSUME NEW s \in Sources, CreateSource(s)
      PROVE  (NoneCut /\ WrittenIsTaken)'
  <2>1. fd' = fd /\ fd # "none" /\ UNCHANGED <<nonblock, taken, cut, told>>
    BY <1>4 DEF CreateSource, kernVars, appVars
  <2>2. QED
    BY <2>1 DEF NoneCut, WrittenIsTaken
<1>5. ASSUME UNCHANGED <<fd, refs, nonblock, taken, cut, told>>
      PROVE  (NoneCut /\ WrittenIsTaken)'
  BY <1>5 DEF NoneCut, WrittenIsTaken, Alive
<1>6. QED
  <2>1. \/ \E mode \in {"RDONLY", "WRONLY", "RDWR"}, nb \in BOOLEAN : Open(mode, nb)
        \/ UnrefFromOwner \/ (\E s \in Sources : DropSource(s)) \/ DispatchReturns
        \/ \E s \in Sources : CreateSource(s)
        \/ \E size \in Nat \ {0} : write_to_substream(size)
        \/ UNCHANGED <<fd, refs, nonblock, taken, cut, told>>
    BY Steps DEF Dispatch, Iterate, IterationEnds, read_from_substream, ReadWakes,
       ClearOutput, ClearInput, Receive, Send, Disconnect, vars, objVars, kernVars, appVars
  <2>2. QED
    BY <1>1, <1>2, <1>3, <1>4, <1>5, <2>1
----------------------------------------------------------------------------
LEMMA InitRaw == Init => RawInv
<1> SUFFICES ASSUME Init PROVE RawInv
  OBVIOUS
<1>1. TypeOK
  <2>1. inbuf \in Seq(Nat) /\ got \in Seq(Nat) /\ frames \in Seq(Frame)
    BY EmptySeq DEF Init
  <2>2. outbuf \in 0..OutSize
    BY RawmidiAssumption DEF Init
  <2>3. BytesOK
    BY <2>1, <2>2 DEF Init, BytesOK
  <2>4. QED
    BY <2>1, <2>3 DEF Init, TypeOK
<1>2. Held = {} /\ Cardinality(Held) = 0
  BY FS_EmptySet DEF Init, Held
<1>3. frames = <<>> /\ Len(frames) = 0 /\ \A s \in Sources : ~Running(s, frames)
  BY EmptySeq DEF Init, Running
<1>4. Balanced
  BY <1>2, <1>3 DEF Init, Balanced, Alive, Of
<1>5. ReadInOrder
  <2>1. got \o inbuf = <<>> /\ Len(got \o inbuf) = 0
    BY ConcatEmptySeq, EmptySeq DEF Init
  <2>2. QED
    BY <2>1 DEF ReadInOrder
<1>6. NoneCut /\ WrittenIsTaken
  BY DEF Init, NoneCut, WrittenIsTaken
<1>7. QED
  BY <1>1, <1>4, <1>5, <1>6 DEF RawInv

LEMMA RawInvariant == Spec => []RawInv
<1>1. RawInv /\ [Next]_vars => RawInv'
  BY ObjectInductive, OrderInductive, WrittenInductive DEF RawInv
<1>2. QED
  BY <1>1, InitRaw, PTL DEF Spec

(***************************************************************************)
(* For any number of sources and any nesting of iterations: the object is  *)
(* finalized only after its last source and dispatch, and then its         *)
(* descriptor is closed and its devnode string is freed, but for each      *)
(* open() that failed after open(2).                                       *)
(***************************************************************************)
THEOREM StreamPairReleasedOnce == Spec => []ReleasedOnce
<1>1. RawInv => ReleasedOnce
  <2> SUFFICES ASSUME RawInv PROVE ReleasedOnce
    OBVIOUS
  <2>1. TypeOK /\ Balanced
    BY DEF RawInv
  <2>2. ASSUME NEW s \in Sources, src[s] = "attached" \/ Running(s, frames)
        PROVE  s \in Held
    BY <2>1, <2>2 DEF Balanced, Held
  <2>3. Held # {} => Alive /\ fd # "none"
    BY <2>1, ObjectAlive DEF Balanced
  <2>4. ~Alive => fd = "none" /\ strings = failed
    BY <2>1 DEF Balanced, Of, TypeOK
  <2>5. QED
    BY <2>1, <2>2, <2>3, <2>4 DEF ReleasedOnce, Balanced
<1>2. QED
  BY <1>1, RawInvariant, PTL

(***************************************************************************)
(* read_from_substream() hands out the bytes in the order in which they    *)
(* came in, none twice, for any sizes of the buffers.                      *)
(***************************************************************************)
THEOREM BytesReadInOrder == Spec => []ReadInOrder
<1>1. RawInv => ReadInOrder
  BY DEF RawInv
<1>2. QED
  BY <1>1, RawInvariant, PTL

(***************************************************************************)
(* What write_to_substream() succeeded for is what the device took, unless *)
(* write(2) took a part of it on a descriptor with O_NONBLOCK.             *)
(***************************************************************************)
THEOREM BytesWrittenAreTaken == Spec => []WrittenIsTaken
<1>1. RawInv => WrittenIsTaken
  BY DEF RawInv
<1>2. QED
  BY <1>1, RawInvariant, PTL
=============================================================================
