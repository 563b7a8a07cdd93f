--------------------------- MODULE CtlReadProofs ----------------------------
(***************************************************************************)
(* Proofs about what is read from a control node: the list of its elements *)
(* by a call, and the records of its events by a dispatch.                 *)
(***************************************************************************)
EXTENDS CtlElemList, CtlCardDispatch, SequenceTheorems, FiniteSetTheorems, TLAPS

(***************************************************************************)
(* CtlElemList, for any size of page and any numbers of elements, calls    *)
(* and changes by other processes.                                         *)
(***************************************************************************)

\* While there are pages to get, the array is filled exactly up to the offset;
\* once there are none, up to the count of the last page at least.
FilledUpTo ==
    /\ pc = "page" => IF offset < count THEN Len(ids) = offset
                                        ELSE count <= Len(ids)
    /\ pc = "deliver" => count <= Len(ids)

\* Unless an element was added the count never exceeds the room, nor the
\* elements the count; the array is written up to the room at most.
NeverGrows ==
    "added" \notin changes =>
        /\ pc \in {"page", "deliver"} => count <= room /\ Len(ids) <= room
        /\ pc = "page" => Len(kelems) <= count

ListInv == ListTypeOK /\ FilledUpTo
----------------------------------------------------------------------------
\* What a page adds to an array that is filled up to the offset.
LEMMA PageProperties ==
    ASSUME NEW S, NEW s \in Seq(S), NEW k \in Seq(S), NEW last \in Int, last <= Len(k)
    PROVE  /\ SubSeq(s, 1, Len(s)) \o SubSeq(k, Len(s) + 1, last) \in Seq(S)
           /\ Len(SubSeq(s, 1, Len(s)) \o SubSeq(k, Len(s) + 1, last)) =
                 IF Len(s) < last THEN last ELSE Len(s)
<1>1. Len(s) \in Nat /\ SubSeq(s, 1, Len(s)) = s
  BY SubSeqFull, LenProperties
<1>2. \A i \in Len(s) + 1 .. last : k[i] \in S
  BY <1>1, ElementOfSeq, LenProperties
<1>3. /\ SubSeq(k, Len(s) + 1, last) \in Seq(S)
      /\ Len(SubSeq(k, Len(s) + 1, last)) = IF Len(s) < last THEN last - Len(s) ELSE 0
  BY <1>1, <1>2, SubSeqProperties
<1>4. ASSUME NEW q \in Seq(S), Len(q) = IF Len(s) < last THEN last - Len(s) ELSE 0
      PROVE  s \o q \in Seq(S) /\ Len(s \o q) = IF Len(s) < last THEN last ELSE Len(s)
  <2>1. s \o q \in Seq(S) /\ Len(s \o q) = Len(s) + Len(q)
    BY ConcatProperties, Zenon
  <2> QED
    BY <1>1, <1>4, <2>1
<1>5. /\ s \o SubSeq(k, Len(s) + 1, last) \in Seq(S)
      /\ Len(s \o SubSeq(k, Len(s) + 1, last)) = IF Len(s) < last THEN last ELSE Len(s)
  BY <1>3, <1>4
<1> QED
  BY <1>1, <1>5, Zenon

\* An element less: those behind it move up.
LEMMA RemoveProperties ==
    ASSUME NEW S, NEW k \in Seq(S), NEW i \in 1..Len(k)
    PROVE  LET r == SubSeq(k, 1, i - 1) \o SubSeq(k, i + 1, Len(k))
           IN  r \in Seq(S) /\ Len(r) = Len(k) - 1
<1>1. Len(k) \in Nat /\ \A j \in 1..Len(k) : k[j] \in S
  BY LenProperties, ElementOfSeq
<1>2. SubSeq(k, 1, i - 1) \in Seq(S) /\ Len(SubSeq(k, 1, i - 1)) = i - 1
  BY <1>1, SubSeqProperties
<1>3. /\ SubSeq(k, i + 1, Len(k)) \in Seq(S)
      /\ Len(SubSeq(k, i + 1, Len(k))) = Len(k) - i
  BY <1>1, SubSeqProperties
<1>4. ASSUME NEW p \in Seq(S), NEW q \in Seq(S), Len(p) = i - 1, Len(q) = Len(k) - i
      PROVE  p \o q \in Seq(S) /\ Len(p \o q) = Len(k) - 1
  <2>1. p \o q \in Seq(S) /\ Len(p \o q) = Len(p) + Len(q)
    BY ConcatProperties, Zenon
  <2> QED
    BY <1>1, <1>4, <2>1
<1> QED
  BY <1>2, <1>3, <1>4

LEMMA InitList == ListInit => ListInv
<1> SUFFICES ASSUME ListInit PROVE ListInv
  OBVIOUS
<1>1. kelems \in Seq(1..MaxElems)
  BY ElemListAssumption DEF ListInit, ElemListAssumption
<1> QED
  BY <1>1, ElemListAssumption DEF ListInit, ListInv, ListTypeOK, FilledUpTo, ElemListAssumption

\* The effect of a page on the array, the count and the offset.
LEMMA PageEffect ==
    ASSUME ListInv, GetPage, present
    PROVE  /\ ids' \in Seq(1..MaxElems)
           /\ count' = Len(kelems) /\ count' \in Nat
           /\ offset' \in Nat /\ offset < offset' /\ offset' <= count
           /\ Len(ids') <= offset'
           /\ IF offset' < count' THEN Len(ids') = offset' ELSE count' <= Len(ids')
<1> USE ElemListAssumption DEF ElemListAssumption
<1>1. /\ Len(ids) = offset /\ offset < count /\ offset \in Nat /\ count \in Nat
      /\ ids \in Seq(1..MaxElems) /\ kelems \in Seq(1..MaxElems)
      /\ Len(kelems) \in Nat
  BY LenProperties DEF GetPage, MorePages, ListInv, ListTypeOK, FilledUpTo
<1> DEFINE last == Lesser(offset + Space, Len(kelems))
<1>2. /\ Space \in Nat /\ Space > 0 /\ Space <= count - offset
      /\ last \in Int /\ last <= Len(kelems) /\ last <= offset + Space
      /\ (last = offset + Space \/ last = Len(kelems))
  BY <1>1 DEF Space, Lesser
<1>3. /\ ids' = SubSeq(ids, 1, offset) \o SubSeq(kelems, offset + 1, last)
      /\ count' = Len(kelems) /\ offset' = offset + Space
  BY DEF GetPage, NextOffset
<1>4. /\ ids' \in Seq(1..MaxElems)
      /\ Len(ids') = IF offset < last THEN last ELSE offset
  <2> HIDE DEF last
  <2>1. ids' = SubSeq(ids, 1, Len(ids)) \o SubSeq(kelems, Len(ids) + 1, last)
    BY <1>1, <1>3
  <2>2. /\ ids' \in Seq(1..MaxElems)
        /\ Len(ids') = IF Len(ids) < last THEN last ELSE Len(ids)
    <3> DEFINE S == 1..MaxElems
    <3>1. ids \in Seq(S) /\ kelems \in Seq(S)
      BY <1>1
    <3> HIDE DEF S
    <3>2. ids' \in Seq(S) /\ Len(ids') = IF Len(ids) < last THEN last ELSE Len(ids)
      <4>1. last \in Int /\ last <= Len(kelems)
        BY <1>2
      <4> QED
        BY ONLY <4>1, <2>1, <3>1, PageProperties, Zenon
    <3> QED
      BY <3>2 DEF S
  <2> QED
    BY <1>1, <2>2
<1> HIDE DEF last
<1>5. ASSUME NEW l \in Int, NEW k \in Nat, NEW n \in Int, l = Len(ids'), k = Len(kelems),
             n = offset + Space
      PROVE  /\ l <= n
             /\ IF n < k THEN l = n ELSE k <= l
  BY <1>1, <1>2, <1>4, <1>5
<1>6. /\ count' = Len(kelems) /\ count' \in Nat
      /\ offset' = offset + Space
  BY ONLY <1>1, <1>3
<1>7. offset' \in Nat /\ offset < offset' /\ offset' <= count
  BY ONLY <1>1, <1>2, <1>6
<1>8. Len(ids') \in Int
  BY ONLY <1>4, LenProperties
<1>9. /\ Len(ids') <= offset'
      /\ IF offset' < count' THEN Len(ids') = offset' ELSE count' <= Len(ids')
  <2>1. offset' \in Int
    BY ONLY <1>7
  <2>2. Len(kelems) \in Nat
    BY ONLY <1>6, Zenon
  <2>3. /\ Len(ids') <= offset'
        /\ IF offset' < Len(kelems) THEN Len(ids') = offset' ELSE Len(kelems) <= Len(ids')
    BY ONLY <1>5, <1>6, <1>8, <2>1, <2>2, Zenon
  <2> QED
    BY ONLY <1>6, <2>3, Zenon
<1> QED
  BY ONLY <1>4, <1>6, <1>7, <1>9, Zenon

LEMMA ListInductive == ListInv /\ [ListNext]_listVars => ListInv'
<1> SUFFICES ASSUME ListInv, [ListNext]_listVars PROVE ListInv'
  OBVIOUS
<1> USE ElemListAssumption DEF ElemListAssumption, ListInv, ListTypeOK, FilledUpTo, callVars
<1>e. << >> \in Seq(1..MaxElems) /\ Len(<< >>) = 0
  BY EmptySeq
<1>0. CASE UNCHANGED listVars
  BY <1>0 DEF listVars
<1>1. CASE AddElem
  BY <1>1, AppendProperties DEF AddElem
<1>2. ASSUME NEW i \in 1..Len(kelems), RemoveElem(i) PROVE ListInv'
  BY <1>2, RemoveProperties DEF RemoveElem
<1>3. CASE ListDisconnect
  BY <1>3 DEF ListDisconnect
<1>4. CASE Call
  <2>1. stayed' \subseteq 1..MaxElems
    BY <1>4, ElementOfSeq DEF Call, Elems
  <2> QED
    BY <1>4, <2>1 DEF Call
<1>5. CASE GetCount
  <2>1. CASE present
    <3>1. /\ UNCHANGED <<kelems, added, present, entries, calls, stayed, changes>>
          /\ count' = Len(kelems) /\ offset' = 0 /\ ids' = <<>>
          /\ room' = IF count' = 0 THEN 0 ELSE count'
          /\ pc' = IF count' = 0 THEN "deliver" ELSE "page"
      BY <1>5, <2>1 DEF GetCount, RoomFor
    <3>2. count' \in Nat /\ room' \in Nat
      BY <3>1, LenProperties
    <3> QED
      BY <3>1, <3>2, <1>e
  <2>2. CASE ~present
    BY <1>5, <2>2, <1>e DEF GetCount, Fail
  <2> QED
    BY <2>1, <2>2
<1>6. CASE GetPage
  <2>1. CASE present
    BY <1>6, <2>1, PageEffect DEF GetPage
  <2>2. CASE ~present
    <3>1. /\ UNCHANGED <<kelems, added, present, calls, stayed, changes, count, offset, ids>>
          /\ room' = 0 /\ pc' = "idle" /\ entries' = <<>>
      BY <1>6, <2>2 DEF GetPage, FreeIds, Fail
    <3> QED
      BY <3>1, <1>e
  <2> QED
    BY <2>1, <2>2
<1>7. CASE PagesDone
  BY <1>7 DEF PagesDone, MorePages
<1>8. CASE Deliver
  <2>1. entries' \in Seq(1..MaxElems)
    BY <1>8, SubSeqProperties, ElementOfSeq, LenProperties DEF Deliver
  <2> QED
    BY <1>8, <2>1 DEF Deliver, FreeIds
<1> QED
  BY <1>0, <1>1, <1>2, <1>3, <1>4, <1>5, <1>6, <1>7, <1>8 DEF ListNext

(***************************************************************************)
(* However other processes add and remove elements between the ioctls of   *)
(* alsactl_card_get_elem_id_list(), no id that the ioctls did not write is *)
(* copied into the list of the caller.                                     *)
(***************************************************************************)
THEOREM EntriesAreWritten == ListSpec => [](ListTypeOK /\ EntriesWritten)
<1>1. ListInv => ListTypeOK /\ EntriesWritten
  BY DEF ListInv, FilledUpTo, EntriesWritten
<1> QED
  BY <1>1, InitList, ListInductive, PTL DEF ListSpec

----------------------------------------------------------------------------
LEMMA NeverGrowsInductive == ListInv /\ NeverGrows /\ [ListNext]_listVars => NeverGrows'
<1> SUFFICES ASSUME ListInv, NeverGrows, [ListNext]_listVars PROVE NeverGrows'
  OBVIOUS
<1> USE DEF NeverGrows, callVars
<1>t. /\ kelems \in Seq(1..MaxElems) /\ Len(kelems) \in Nat
      /\ count \in Nat /\ room \in Nat
  BY LenProperties DEF ListInv, ListTypeOK
<1>0. CASE UNCHANGED listVars
  BY <1>0 DEF listVars
<1>1. CASE AddElem
  BY <1>1 DEF AddElem
<1>2. ASSUME NEW i \in 1..Len(kelems), RemoveElem(i) PROVE NeverGrows'
  <2>1. Len(kelems') = Len(kelems) - 1
    BY <1>2, <1>t, RemoveProperties DEF RemoveElem
  <2> QED
    <3>1. UNCHANGED <<pc, count, room, ids>> /\ changes \subseteq changes'
      BY <1>2 DEF RemoveElem
    <3> QED
      BY <1>t, <2>1, <3>1
<1>3. CASE ListDisconnect
  BY <1>3 DEF ListDisconnect
<1>4. CASE Call
  BY <1>4 DEF Call
<1>5. CASE GetCount
  BY <1>5, <1>t DEF GetCount, Fail, RoomFor
<1>6. CASE GetPage
  <2>1. CASE present
    <3>1. /\ count' = Len(kelems) /\ offset' <= count /\ Len(ids') <= offset'
          /\ offset' \in Nat /\ ids' \in Seq(1..MaxElems)
      BY <1>6, <2>1, PageEffect
    <3> QED
      BY <1>6, <2>1, <1>t, <3>1, LenProperties DEF GetPage
  <2>2. CASE ~present
    BY <1>6, <2>2 DEF GetPage, Fail
  <2> QED
    BY <2>1, <2>2
<1>7. CASE PagesDone
  BY <1>7 DEF PagesDone
<1>8. CASE Deliver
  BY <1>8 DEF Deliver
<1> QED
  BY <1>0, <1>1, <1>2, <1>3, <1>4, <1>5, <1>6, <1>7, <1>8 DEF ListNext

(***************************************************************************)
(* In a call during which no process adds an element, whatever is removed  *)
(* and whatever the size of a page, the ioctls write inside the array that *)
(* allocate_elem_ids() allocated.  With additions they need not.           *)
(***************************************************************************)
THEOREM WritesInBounds == ListSpec => []InBoundsUnlessAdded
<1> DEFINE IInv == ListInv /\ NeverGrows
<1>1. ListInit => IInv
  BY InitList DEF ListInit, NeverGrows
<1>2. IInv /\ [ListNext]_listVars => IInv'
  BY ListInductive, NeverGrowsInductive
<1>3. IInv => InBoundsUnlessAdded
  BY DEF NeverGrows, InBounds, InBoundsUnlessAdded
<1> QED
  BY <1>1, <1>2, <1>3, PTL DEF ListSpec
----------------------------------------------------------------------------
Begins(s, k) == \A i \in 1..Len(s) : i <= Len(k) /\ s[i] = k[i]

\* Unless an element was removed, the array is a copy of the beginning of the
\* kernel's list, and what was there all through the call is within the count.
Copied ==
    /\ count <= Len(kelems)
    /\ Begins(ids, kelems)
    /\ \A e \in stayed : \E j \in 1..count : kelems[j] = e
Complete ==
    "removed" \notin changes =>
        /\ pc = "count" => stayed \subseteq Elems
        /\ pc = "page" => Copied
        /\ pc = "deliver" => \A e \in stayed : \E i \in 1..Len(ids) : i <= count /\ ids[i] = e

LEMMA Joined ==
    ASSUME NEW S, NEW s \in Seq(S), NEW q \in Seq(S), NEW t, t = s \o q
    PROVE  /\ Len(t) = Len(s) + Len(q)
           /\ \A i \in 1..Len(s) : t[i] = s[i]
           /\ \A i \in 1..Len(q) : t[Len(s) + i] = q[i]
BY ConcatProperties

\* A page copies what comes next.
LEMMA PageCopies ==
    ASSUME NEW S, NEW s \in Seq(S), NEW k \in Seq(S), NEW last \in Int, last <= Len(k),
           Begins(s, k), NEW t, t = SubSeq(s, 1, Len(s)) \o SubSeq(k, Len(s) + 1, last)
    PROVE  Begins(t, k)
<1> DEFINE q == SubSeq(k, Len(s) + 1, last)
<1>1. Len(s) \in Nat /\ Len(k) \in Nat /\ SubSeq(s, 1, Len(s)) = s
  BY SubSeqFull, LenProperties
<1>2. \A i \in Len(s) + 1 .. last : k[i] \in S
  BY <1>1, ElementOfSeq
<1>3. /\ q \in Seq(S) /\ Len(q) = IF Len(s) < last THEN last - Len(s) ELSE 0
      /\ \A i \in 1..Len(q) : q[i] = k[Len(s) + i]
  BY <1>1, <1>2, SubSeqProperties
<1>4. t = s \o q
  BY <1>1
<1> HIDE DEF q
<1>5. /\ Len(t) = Len(s) + Len(q)
      /\ \A i \in 1..Len(s) : t[i] = s[i]
      /\ \A i \in 1..Len(q) : t[Len(s) + i] = q[i]
  <2>1. q \in Seq(S)
    BY <1>3
  <2>2. QED
    BY ONLY <1>4, <2>1, s \in Seq(S), Joined
<1>6. ASSUME NEW i \in 1..Len(t) PROVE i <= Len(k) /\ t[i] = k[i]
  <2>1. Len(q) \in Nat
    BY <1>3, LenProperties
  <2>2. CASE i \in 1..Len(s)
    BY <1>5, <2>2 DEF Begins
  <2>3. CASE i \notin 1..Len(s)
    <3>1. i - Len(s) \in 1..Len(q) /\ i = Len(s) + (i - Len(s))
      BY ONLY <1>1, <1>5, <2>1, <2>3, i \in 1..Len(t)
    <3>2. t[Len(s) + (i - Len(s))] = q[i - Len(s)] /\ q[i - Len(s)] = k[Len(s) + (i - Len(s))]
      BY ONLY <1>3, <1>5, <3>1, Zenon
    <3>3. t[i] = k[i]
      BY ONLY <3>1, <3>2, Zenon
    <3>4. i <= last
      BY ONLY <1>1, <1>3, <3>1, last \in Int
    <3>5. i <= Len(k)
      BY ONLY <1>1, <3>4, last <= Len(k), last \in Int, i \in 1..Len(t)
    <3>6. QED
      BY <3>3, <3>5
  <2>4. QED
    BY <2>2, <2>3
<1>7. QED
  BY <1>6 DEF Begins

LEMMA CompleteInductive == ListInv /\ Complete /\ [ListNext]_listVars => Complete'
<1> SUFFICES ASSUME ListInv, Complete, [ListNext]_listVars, "removed" \notin changes' PROVE Complete'
  BY DEF Complete
<1> DEFINE S == 1..MaxElems
<1>t. /\ kelems \in Seq(S) /\ ids \in Seq(S) /\ Len(kelems) \in Nat /\ Len(ids) \in Nat
      /\ count \in Nat /\ offset \in Nat
  BY LenProperties DEF ListInv, ListTypeOK
<1> HIDE DEF S
<1>0. CASE UNCHANGED listVars
  BY <1>0 DEF listVars, Complete, Copied, Elems
<1>1. CASE AddElem
  <2>1. /\ UNCHANGED <<pc, count, ids, stayed>> /\ "removed" \notin changes
        /\ kelems' = Append(kelems, added')
    BY <1>1 DEF AddElem, callVars
  <2>2. Len(kelems') = Len(kelems) + 1 /\ \A j \in 1..Len(kelems) : kelems'[j] = kelems[j]
    BY <1>t, <2>1
  <2>3. ASSUME pc = "count" PROVE stayed \subseteq Elems'
    <3>1. \A j \in 1..Len(kelems) : j \in 1..Len(kelems') /\ kelems'[j] = kelems[j]
      BY <1>t, <2>2
    <3>2. Elems \subseteq Elems'
      BY <3>1 DEF Elems
    <3>3. QED
      BY <2>1, <2>3, <3>2 DEF Complete
  <2>4. ASSUME pc = "page" PROVE Copied'
    <3>1. Copied
      BY <2>1, <2>4 DEF Complete
    <3>2. count' <= Len(kelems')
      BY <1>t, <2>1, <2>2, <3>1 DEF Copied
    <3>3. Begins(ids', kelems')
      BY <1>t, <2>1, <2>2, <3>1 DEF Copied, Begins
    <3>4. \A e \in stayed' : \E j \in 1..count' : kelems'[j] = e
      BY <1>t, <2>1, <2>2, <3>1 DEF Copied
    <3>5. QED
      BY <3>2, <3>3, <3>4 DEF Copied
  <2>5. QED
    BY <2>1, <2>3, <2>4 DEF Complete
<1>2. ASSUME NEW i \in 1..Len(kelems), RemoveElem(i) PROVE Complete'
  BY <1>2 DEF RemoveElem
<1>3. CASE ListDisconnect
  BY <1>3 DEF ListDisconnect, callVars, Complete, Copied, Elems
<1>4. CASE Call
  BY <1>4 DEF Call, Complete, Elems
<1>5. CASE GetCount
  <2>1. CASE present
    <3>1. /\ UNCHANGED <<kelems, stayed, changes>> /\ pc = "count"
          /\ count' = Len(kelems) /\ ids' = <<>>
          /\ pc' = IF count' = 0 THEN "deliver" ELSE "page"
      BY <1>5, <2>1 DEF GetCount
    <3>2. \A e \in stayed' : \E j \in 1..count' : kelems'[j] = e
      BY <3>1 DEF Complete, Elems
    <3>3. 1..Len(ids') = {} /\ count' <= Len(kelems')
      BY <1>t, <3>1
    <3>4. Copied'
      BY <3>2, <3>3 DEF Copied, Begins
    <3>5. count' = 0 => stayed' = {}
      BY <3>2
    <3>6. QED
      BY <3>1, <3>4, <3>5 DEF Complete
  <2>2. CASE ~present
    BY <1>5, <2>2 DEF GetCount, Fail, Complete
  <2>3. QED
    BY <2>1, <2>2
<1>6. CASE GetPage
  <2>1. CASE present
    <3>1. /\ UNCHANGED <<kelems, stayed, changes, pc>> /\ pc = "page" /\ offset < count
          /\ ids' = SubSeq(ids, 1, offset)
                       \o SubSeq(kelems, offset + 1, Lesser(offset + Space, Len(kelems)))
          /\ count' = Len(kelems)
      BY <1>6, <2>1 DEF GetPage, MorePages
    <3>2. Copied /\ Len(ids) = offset
      BY <3>1 DEF Complete, ListInv, FilledUpTo
    <3>3. PICK last \in Int : last = Lesser(offset + Space, Len(kelems)) /\ last <= Len(kelems)
      <4>1. Space \in Int
        BY <1>t, ElemListAssumption DEF Space, Lesser
      <4>2. QED
        BY <1>t, <4>1 DEF Lesser
    <3>4. ids' = SubSeq(ids, 1, Len(ids)) \o SubSeq(kelems, Len(ids) + 1, last)
      BY <3>1, <3>2, <3>3
    <3>5. Begins(ids, kelems)
      BY <3>2 DEF Copied
    <3>6. Begins(ids', kelems)
      <4>1. ids \in Seq(S) /\ kelems \in Seq(S) /\ last \in Int /\ last <= Len(kelems)
        BY <1>t, <3>3
      <4>2. QED
        BY ONLY <3>4, <3>5, <4>1, PageCopies, Zenon
    <3>7. \A e \in stayed : \E j \in 1..count' : kelems[j] = e
      <4>1. 1..count \subseteq 1..count'
        BY <1>t, <3>1, <3>2 DEF Copied
      <4>2. QED
        BY <3>2, <4>1 DEF Copied
    <3>8. count' <= Len(kelems)
      BY <1>t, <3>1
    <3>9. Copied'
      BY <3>1, <3>6, <3>7, <3>8 DEF Copied
    <3>10. QED
      BY <3>1, <3>9 DEF Complete
  <2>2. CASE ~present
    BY <1>6, <2>2 DEF GetPage, Fail, Complete
  <2>3. QED
    BY <2>1, <2>2
<1>7. CASE PagesDone
  <2>1. /\ UNCHANGED <<kelems, stayed, changes, count, ids>>
        /\ pc = "page" /\ pc' = "deliver" /\ ~(offset < count)
    BY <1>7 DEF PagesDone, MorePages
  <2>2. Copied /\ count <= Len(ids)
    BY <2>1 DEF Complete, ListInv, FilledUpTo
  <2>3. ASSUME NEW e \in stayed PROVE \E i \in 1..Len(ids) : i <= count /\ ids[i] = e
    <3>1. PICK j \in 1..count : kelems[j] = e
      BY <2>2 DEF Copied
    <3>2. j \in 1..Len(ids) /\ j <= count
      BY <1>t, <2>2
    <3>3. QED
      BY <2>2, <3>1, <3>2 DEF Copied, Begins
  <2>4. QED
    BY <2>1, <2>3 DEF Complete
<1>8. CASE Deliver
  BY <1>8 DEF Deliver, Complete
<1> QED
  BY <1>0, <1>1, <1>2, <1>3, <1>4, <1>5, <1>6, <1>7, <1>8 DEF ListNext

(***************************************************************************)
(* In a call during which no process removes an element, whatever is added *)
(* and whatever the size of a page, every element that is there all        *)
(* through the call is in the list of alsactl_card_get_elem_id_list().     *)
(***************************************************************************)
THEOREM ListIsComplete == ListSpec => []ListComplete
<1> DEFINE IInv == ListInv /\ Complete
<1>1. ListInit => IInv
  BY InitList DEF ListInit, Complete
<1>2. IInv /\ [ListNext]_listVars => IInv'
  BY ListInductive, CompleteInductive
<1>3. IInv => ListComplete
  BY DEF Complete, ListComplete
<1> QED
  BY <1>1, <1>2, <1>3, PTL DEF ListSpec

(***************************************************************************)
(* CtlCardDispatch, for any number of sources, any size of the page, and any *)
(* bounds on events and nested iterations.                                 *)
(***************************************************************************)

TypeOK ==
    /\ nonblock \in BOOLEAN /\ iterates \in BOOLEAN /\ connected \in BOOLEAN
    /\ posted \in Nat
    /\ kqueue \in Seq(Nat) /\ emitted \in Seq(Nat)
    /\ attached \subseteq Sources
    /\ revents \in [Sources -> SUBSET {"IN", "ERR"}]
    /\ buf \in [Sources -> Seq(Nat)]
    /\ stack \in Seq(Frame)

\* A frame is between two dispatches or in that of a source that is not on its
\* list any more; its loop stays within what was read to the page, which a
\* nested dispatch may overwrite but never shortens.
FrameSound(f, pages) ==
    /\ f.pc = "ready" <=> f.s = NoSource
    /\ f.s \notin f.todo
    /\ f.pc # "walk" => f.at = 1 /\ f.left = 0
    /\ f.pc = "walk" => /\ f.at + f.left <= BufEvents + 1
                        /\ f.at + f.left <= Len(pages[f.s]) + 1

\* Only a handler can start a nested iteration.
StackSound ==
    /\ \A i \in 1..Depth : FrameSound(stack[i], buf)
    /\ \A i \in 1..Depth : i < Depth => stack[i].pc \in {"walk", "bye"}
    /\ ~iterates => Depth <= 1

(***************************************************************************)
(* No event is lost or counted twice: each one is in the kernel's queue,   *)
(* in the part of a page that some loop still has to walk through, or      *)
(* emitted.  sum[i] is what the outermost i loops have left.               *)
(***************************************************************************)
IsSum(sum) ==
    /\ sum \in [0..Depth -> Nat]
    /\ sum[0] = 0
    /\ \A i \in 1..Depth : sum[i] = sum[i - 1] + stack[i].left
Counted == \E sum : IsSum(sum) /\ Len(emitted) + sum[Depth] + Len(kqueue) = posted

\* Without nested iterations there is at most one loop, and the events that
\* were emitted, that it has left and that are queued follow on each other.
Left == IF Depth = 0 THEN 0 ELSE Top.left
InOrder ==
    ~iterates =>
        /\ \A i \in 1..Len(emitted) : emitted[i] = i
        /\ \A j \in 1..Left : buf[Top.s][Top.at + j - 1] = Len(emitted) + j
        /\ \A i \in 1..Len(kqueue) : kqueue[i] = Len(emitted) + Left + i

\* While the card is there no source is removed.
NoneRemoved ==
    connected => /\ \A s \in Sources : "ERR" \notin revents[s]
                 /\ \A i \in 1..Depth : /\ stack[i].pc # "bye"
                                        /\ stack[i].todo \subseteq attached
                                        /\ stack[i].s \in attached \cup {NoSource}

\* A source that is alone finds the event that poll(2) promised it.
Sole == \A s, t \in attached : s = t
PromiseKept ==
    (Sole /\ connected /\ Depth > 0 /\ kqueue = <<>>) =>
        Top.pc = "walk" \/ (Top.pc = "ready" /\ Top.todo = {})

DispatchInv == TypeOK /\ StackSound /\ Counted /\ InOrder
WaitInv == TypeOK /\ StackSound /\ NoneRemoved /\ PromiseKept
----------------------------------------------------------------------------
\* The parts of a sequence before and behind a position.
LEMMA Prefix ==
    ASSUME NEW S, NEW s \in Seq(S), NEW n \in Nat, n <= Len(s)
    PROVE  /\ SubSeq(s, 1, n) \in Seq(S) /\ Len(SubSeq(s, 1, n)) = n
           /\ \A i \in 1..n : SubSeq(s, 1, n)[i] = s[i]
OBVIOUS

LEMMA Rest ==
    ASSUME NEW S, NEW s \in Seq(S), NEW n \in Nat
    PROVE  /\ SubSeq(s, n + 1, Len(s)) \in Seq(S)
           /\ Len(SubSeq(s, n + 1, Len(s))) = IF n <= Len(s) THEN Len(s) - n ELSE 0
           /\ \A i \in 1..Len(s) - n : SubSeq(s, n + 1, Len(s))[i] = s[n + i]
BY SubSeqProperties

LEMMA Concat ==
    ASSUME NEW S, NEW s \in Seq(S), NEW t \in Seq(S)
    PROVE  /\ s \o t \in Seq(S) /\ Len(s \o t) = Len(s) + Len(t)
           /\ \A i \in 1..Len(s) : (s \o t)[i] = s[i]
BY ConcatProperties

\* The three ways in which the stack changes.
LEMMA TopSet ==
    ASSUME NEW S, NEW st \in Seq(S), Len(st) > 0, NEW g \in S
    PROVE  LET new == [st EXCEPT ![Len(st)] = g] IN
           /\ new \in Seq(S) /\ Len(new) = Len(st) /\ new[Len(st)] = g
           /\ \A i \in 1..Len(st) : i < Len(st) => new[i] = st[i]
BY ExceptSeq

LEMMA Pushed ==
    ASSUME NEW S, NEW st \in Seq(S), NEW g \in S
    PROVE  LET new == Append(st, g) IN
           /\ new \in Seq(S) /\ Len(new) = Len(st) + 1 /\ new[Len(st) + 1] = g
           /\ \A i \in 1..Len(st) : new[i] = st[i]
BY AppendProperties

LEMMA Popped ==
    ASSUME NEW S, NEW st \in Seq(S), Len(st) > 0
    PROVE  LET new == SubSeq(st, 1, Len(st) - 1) IN
           /\ new \in Seq(S) /\ Len(new) = Len(st) - 1
           /\ \A i \in 1..Len(st) - 1 : new[i] = st[i]
<1>1. Len(st) - 1 \in Nat /\ Len(st) - 1 <= Len(st)
  BY LenProperties
<1>2. QED
  BY <1>1, Prefix

\* read(2) fills the page from its start and leaves what is behind.
LEMMA PageRead ==
    ASSUME NEW S, NEW k \in Seq(S), NEW old \in Seq(S), NEW n \in 0..Len(k)
    PROVE  LET page == SubSeq(k, 1, n) \o SubSeq(old, n + 1, Len(old)) IN
           /\ page \in Seq(S) /\ Len(page) >= n /\ Len(page) >= Len(old)
           /\ \A i \in 1..n : page[i] = k[i]
<1> DEFINE head == SubSeq(k, 1, n)
           tail == SubSeq(old, n + 1, Len(old))
<1>1. Len(k) \in Nat /\ Len(old) \in Nat /\ n \in Nat /\ n <= Len(k)
  BY LenProperties
<1>2. head \in Seq(S) /\ Len(head) = n /\ \A i \in 1..n : head[i] = k[i]
  BY <1>1, Prefix
<1>3. tail \in Seq(S) /\ Len(tail) = IF n <= Len(old) THEN Len(old) - n ELSE 0
  BY <1>1, Rest
<1> HIDE DEF head, tail
<1>4. /\ head \o tail \in Seq(S) /\ Len(head \o tail) = Len(head) + Len(tail)
      /\ \A i \in 1..n : (head \o tail)[i] = k[i]
  BY <1>2, <1>3, Concat
<1>5. Len(head \o tail) >= n /\ Len(head \o tail) >= Len(old)
  BY <1>1, <1>2, <1>3, <1>4
<1>6. QED
  BY <1>4, <1>5 DEF head, tail
----------------------------------------------------------------------------
\* The innermost frame.
LEMMA TopFrame ==
    ASSUME TypeOK, StackSound, Depth > 0
    PROVE  /\ Depth \in Nat /\ Depth \in 1..Depth /\ Top \in Frame /\ FrameSound(Top, buf)
           /\ Top.todo \in SUBSET Sources /\ Top.s \in Sources \cup {NoSource}
           /\ Top.at \in Nat \ {0} /\ Top.left \in Nat
           /\ Top.at <= BufEvents + 1 /\ Top.left <= BufEvents
<1>1. Depth \in Nat /\ Depth \in 1..Depth
  BY LenProperties DEF TypeOK, Depth
<1>2. Top \in Frame /\ FrameSound(Top, buf)
  BY <1>1, ElementOfSeq DEF TypeOK, StackSound, Depth, Top
<1>3. QED
  BY <1>1, <1>2, DispatchAssumption DEF Frame

\* What SetTop leaves of the stack.
LEMMA TopReplaced ==
    ASSUME TypeOK, Depth > 0, NEW g \in Frame, SetTop(g)
    PROVE  /\ Depth \in Nat /\ Depth \in 1..Depth
           /\ stack' \in Seq(Frame) /\ Depth' = Depth /\ stack'[Depth] = g
           /\ \A i \in 1..Depth : i < Depth => stack'[i] = stack[i]
<1>1. stack \in Seq(Frame) /\ Len(stack) > 0 /\ stack' = [stack EXCEPT ![Len(stack)] = g]
  BY DEF TypeOK, Depth, SetTop
<1>2. /\ stack' \in Seq(Frame) /\ Len(stack') = Len(stack) /\ stack'[Len(stack)] = g
      /\ \A i \in 1..Len(stack) : i < Len(stack) => stack'[i] = stack[i]
  BY <1>1, TopSet
<1>3. Len(stack) \in Nat /\ Len(stack) \in 1..Len(stack)
  BY <1>1, LenProperties
<1>4. QED
  BY <1>2, <1>3, Zenon DEF Depth

\* The innermost frame is replaced by a sound one, and pages do not get shorter.
LEMMA StackTop ==
    ASSUME TypeOK, StackSound, Depth > 0, NEW g \in Frame, SetTop(g), FrameSound(g, buf'),
           iterates' = iterates, buf' \in [Sources -> Seq(Nat)],
           \A s \in Sources : Len(buf'[s]) >= Len(buf[s])
    PROVE  /\ stack' \in Seq(Frame) /\ Depth' = Depth /\ Top' = g
           /\ \A i \in 1..Depth : i < Depth => stack'[i] = stack[i]
           /\ StackSound'
<1>1. /\ stack' \in Seq(Frame) /\ Depth' = Depth /\ stack'[Depth] = g
      /\ \A i \in 1..Depth : i < Depth => stack'[i] = stack[i]
  BY TopReplaced, Zenon
<1>2. Top' = g
  BY <1>1 DEF Top
<1>3. ASSUME NEW i \in 1..Depth PROVE FrameSound(stack'[i], buf')
  <2>1. CASE i = Depth
    BY <1>1, <2>1
  <2>2. CASE i # Depth
    <3>1. i < Depth /\ stack'[i] = stack[i] /\ FrameSound(stack[i], buf) /\ stack[i] \in Frame
      BY <1>1, <2>2, ElementOfSeq DEF StackSound, TypeOK, Depth
    <3> DEFINE f == stack[i]
    <3>2. f.s \in Sources => Len(buf[f.s]) \in Nat /\ Len(buf'[f.s]) \in Nat
      BY LenProperties DEF TypeOK
    <3>3. f.pc = "walk" => f.s \in Sources
      BY <3>1 DEF FrameSound, Frame
    <3>4. f.at + f.left \in Nat
      BY <3>1, DispatchAssumption DEF Frame
    <3> HIDE DEF f
    <3>5. FrameSound(f, buf')
      BY <3>1, <3>2, <3>3, <3>4, DispatchAssumption DEF FrameSound, f
    <3>6. QED
      BY <3>1, <3>5 DEF f
  <2>3. QED
    BY <2>1, <2>2
<1>4. StackSound'
  BY <1>1, <1>3 DEF StackSound
<1>5. QED
  BY <1>1, <1>2, <1>4

LEMMA DoneSound ==
    ASSUME TypeOK, StackSound, Depth > 0
    PROVE  /\ Done(Top) \in Frame /\ Done(Top).left = 0 /\ FrameSound(Done(Top), buf)
           /\ Done(Top).pc = "ready" /\ Done(Top).todo = Top.todo /\ Done(Top).s = NoSource
<1>1. Top.todo \in SUBSET Sources
  BY TopFrame
<1>2. QED
  BY <1>1, DispatchAssumption DEF Done, NewFrame, Frame, FrameSound
----------------------------------------------------------------------------
\* The effect of the steps: the ones that neither read nor emit events,
QuietStep ==
    \/ \E s \in Sources : Dispatch(s)
    \/ RemoveAnnounced
    \/ Read /\ ~(connected /\ kqueue # <<>>)
    \/ DispatchContinues

LEMMA DispatchEffect ==
    ASSUME TypeOK, StackSound, NEW s \in Sources, Dispatch(s)
    PROVE  /\ Depth > 0 /\ Top.pc = "ready" /\ s \in Top.todo
           /\ UNCHANGED <<kernelVars, attached, revents, buf, emitted>>
           /\ \E g \in Frame : /\ SetTop(g) /\ FrameSound(g, buf) /\ g.left = 0
                              /\ g.todo = Top.todo \ {s}
                              /\ \/ s \notin attached /\ g.pc = "ready" /\ g.s = NoSource
                                 \/ "ERR" \in revents[s] /\ g.pc = "bye"
                                 \/ s \in attached /\ g.pc = "read" /\ g.s = s
<1>1. /\ Depth > 0 /\ Top.pc = "ready" /\ s \in Top.todo
      /\ UNCHANGED <<kernelVars, attached, revents, buf, emitted>>
  BY DEF Dispatch
<1>2. /\ Top \in Frame /\ Top.s = NoSource /\ Top.at = 1 /\ Top.left = 0
  BY <1>1, TopFrame DEF FrameSound
<1> DEFINE f == [Top EXCEPT !.todo = @ \ {s}]
<1>3. /\ f \in Frame /\ f.todo = Top.todo \ {s} /\ f.s = NoSource /\ f.pc = "ready"
      /\ f.at = 1 /\ f.left = 0
  BY <1>1, <1>2 DEF Frame
<1>4. \/ s \notin attached /\ SetTop(f)
      \/ s \in attached /\ "ERR" \in revents[s] /\ SetTop([f EXCEPT !.s = s, !.pc = "bye"])
      \/ s \in attached /\ SetTop([f EXCEPT !.s = s, !.pc = "read"])
  BY DEF Dispatch
<1> HIDE DEF f
<1>5. NoSource \notin f.todo /\ s # NoSource
  BY <1>3, DispatchAssumption DEF Frame
<1>6. CASE s \notin attached /\ SetTop(f)
  BY <1>1, <1>3, <1>5, <1>6 DEF FrameSound
<1>7. ASSUME NEW p \in {"bye", "read"}
      PROVE  LET g == [f EXCEPT !.s = s, !.pc = p] IN
             /\ g \in Frame /\ FrameSound(g, buf) /\ g.left = 0 /\ g.todo = Top.todo \ {s}
             /\ g.pc = p /\ g.s = s
  <2> DEFINE g == [f EXCEPT !.s = s, !.pc = p]
  <2>1. /\ g \in Frame /\ g.todo = Top.todo \ {s} /\ g.pc = p /\ g.s = s
        /\ g.at = 1 /\ g.left = 0
    BY <1>3 DEF Frame
  <2> HIDE DEF g
  <2>2. FrameSound(g, buf)
    BY <1>5, <2>1 DEF FrameSound
  <2>3. QED
    BY <2>1, <2>2 DEF g
<1>8. QED
  BY <1>1, <1>4, <1>6, <1>7

LEMMA Quiet ==
    ASSUME TypeOK, StackSound, QuietStep
    PROVE  /\ Depth > 0 /\ Top.left = 0
           /\ UNCHANGED <<kernelVars, revents, buf, emitted>> /\ attached' \subseteq attached
           /\ \E g \in Frame : SetTop(g) /\ FrameSound(g, buf) /\ g.left = 0
<1>1. CASE \E s \in Sources : Dispatch(s)
  BY <1>1, DispatchEffect, TopFrame DEF FrameSound
<1>2. CASE RemoveAnnounced
  BY <1>2, DoneSound, TopFrame DEF RemoveAnnounced, FrameSound
<1>3. CASE Read /\ ~(connected /\ kqueue # <<>>)
  BY <1>3, DoneSound, TopFrame DEF Read, FrameSound, kernelVars
<1>4. CASE DispatchContinues
  <2>1. Depth > 0 /\ ~(Top.left > 0) /\ SetTop(Done(Top))
    BY <1>4 DEF DispatchContinues, MoreEvents
  <2>2. Top.left = 0
    BY <2>1, TopFrame
  <2>3. QED
    BY <1>4, <2>1, <2>2, DoneSound DEF DispatchContinues
<1>5. QED
  BY <1>1, <1>2, <1>3, <1>4 DEF QuietStep

\* read(2) with n > 0 events,
LEMMA ReadEffect ==
    ASSUME TypeOK, StackSound, Read, connected, kqueue # <<>>
    PROVE  LET n == ReadCount
               g == [Top EXCEPT !.pc = "walk", !.left = n] IN
           /\ Depth > 0 /\ Top.pc = "read" /\ Top.left = 0 /\ Top.s \in Sources
           /\ n \in 1..Len(kqueue)
           /\ UNCHANGED <<nonblock, iterates, posted, connected, attached, revents, emitted,
                          announced>>
           /\ SetTop(g) /\ g \in Frame /\ FrameSound(g, buf')
           /\ g.pc = "walk" /\ g.left = n /\ g.at = 1 /\ g.s = Top.s /\ g.todo = Top.todo
           /\ buf' \in [Sources -> Seq(Nat)]
           /\ \A s \in Sources : Len(buf'[s]) >= Len(buf[s])
           /\ \A i \in 1..n : buf'[Top.s][i] = kqueue[i]
           /\ kqueue' \in Seq(Nat) /\ Len(kqueue') = Len(kqueue) - n
           /\ \A i \in 1..Len(kqueue) - n : kqueue'[i] = kqueue[n + i]
<1> DEFINE n == ReadCount
           g == [Top EXCEPT !.pc = "walk", !.left = n]
           old == buf[Top.s]
           page == SubSeq(kqueue, 1, n) \o SubSeq(old, n + 1, Len(old))
<1>1. /\ Depth > 0 /\ Top.pc = "read" /\ SetTop(g)
      /\ buf' = [buf EXCEPT ![Top.s] = page]
      /\ kqueue' = SubSeq(kqueue, n + 1, Len(kqueue))
      /\ UNCHANGED <<nonblock, iterates, posted, connected, attached, revents, emitted,
                     announced>>
  BY DEF Read
<1>2. Top \in Frame /\ FrameSound(Top, buf)
  BY <1>1, TopFrame
<1>3. Top.left = 0 /\ Top.at = 1 /\ Top.s \in Sources /\ Top.s \notin Top.todo
  BY <1>1, <1>2 DEF FrameSound, Frame
<1>4. Len(kqueue) \in Nat \ {0}
  BY EmptySeq DEF TypeOK
<1>5. n \in 1..Len(kqueue) /\ n \in 1..BufEvents /\ n \in 0..BufEvents
  BY <1>4, DispatchAssumption DEF ReadCount
<1> HIDE DEF n
<1>6. /\ g \in Frame /\ g.pc = "walk" /\ g.left = n /\ g.at = 1 /\ g.s = Top.s
      /\ g.todo = Top.todo
  BY <1>2, <1>3, <1>5 DEF Frame
<1> HIDE DEF g
<1>7. old \in Seq(Nat) /\ kqueue \in Seq(Nat) /\ n \in 0..Len(kqueue)
  BY <1>3, <1>5 DEF TypeOK
<1>8. /\ page \in Seq(Nat) /\ Len(page) >= n /\ Len(page) >= Len(old)
      /\ \A i \in 1..n : page[i] = kqueue[i]
  <2> HIDE DEF old
  <2>1. QED
    BY <1>7, PageRead
<1> HIDE DEF page
<1>9. /\ buf' \in [Sources -> Seq(Nat)] /\ buf'[Top.s] = page
      /\ \A s \in Sources : s # Top.s => buf'[s] = buf[s]
  BY <1>1, <1>3, <1>8 DEF TypeOK
<1>10. ASSUME NEW s \in Sources PROVE Len(buf'[s]) >= Len(buf[s])
  <2>1. Len(buf[s]) \in Nat
    BY LenProperties DEF TypeOK
  <2>2. QED
    BY <1>8, <1>9, <2>1
<1>11. FrameSound(g, buf')
  <2>1. Len(page) \in Nat /\ n \in Nat /\ NoSource # Top.s
    BY <1>3, <1>5, <1>8, LenProperties, DispatchAssumption
  <2>2. g.at + g.left <= BufEvents + 1 /\ g.at + g.left <= Len(buf'[g.s]) + 1
    BY <1>5, <1>6, <1>8, <1>9, <2>1, DispatchAssumption
  <2>3. QED
    BY <1>3, <1>6, <2>1, <2>2 DEF FrameSound
<1>12. /\ kqueue' \in Seq(Nat) /\ Len(kqueue') = Len(kqueue) - n
       /\ \A i \in 1..Len(kqueue) - n : kqueue'[i] = kqueue[n + i]
  <2>1. n \in Nat /\ n <= Len(kqueue)
    BY <1>4, <1>5
  <2>2. QED
    BY <1>1, <1>7, <2>1, Rest
<1>13. QED
  BY <1>1, <1>3, <1>5, <1>6, <1>8, <1>9, <1>10, <1>11, <1>12 DEF n, g

\* and the emission of one.
LEMMA EmitEffect ==
    ASSUME TypeOK, StackSound, EmitEvent
    PROVE  LET x == buf[Top.s][Top.at]
               g == [Top EXCEPT !.at = @ + 1, !.left = @ - 1] IN
           /\ Depth > 0 /\ Top.pc = "walk" /\ Top.left > 0
           /\ UNCHANGED <<kernelVars, attached, revents, buf, announced>>
           /\ x \in Nat /\ emitted' = Append(emitted, x)
           /\ SetTop(g) /\ g \in Frame /\ FrameSound(g, buf)
           /\ g.pc = "walk" /\ g.left = Top.left - 1 /\ g.at = Top.at + 1 /\ g.s = Top.s
           /\ g.todo = Top.todo
<1> DEFINE x == buf[Top.s][Top.at]
           g == [Top EXCEPT !.at = @ + 1, !.left = @ - 1]
<1>1. /\ Depth > 0 /\ Top.pc = "walk" /\ Top.left > 0
      /\ UNCHANGED <<kernelVars, attached, revents, buf, announced>>
      /\ emitted' = Append(emitted, x) /\ SetTop(g)
  BY DEF EmitEvent, MoreEvents
<1>2. /\ Top \in Frame /\ FrameSound(Top, buf) /\ Top.at \in Nat \ {0} /\ Top.left \in Nat
      /\ Top.left <= BufEvents
  BY <1>1, TopFrame
<1>3. /\ Top.s \in Sources /\ Top.s \notin Top.todo /\ Top.s # NoSource
      /\ Top.at + Top.left <= BufEvents + 1
      /\ Top.at + Top.left <= Len(buf[Top.s]) + 1
  BY <1>1, <1>2 DEF FrameSound, Frame
<1>4. buf[Top.s] \in Seq(Nat) /\ Len(buf[Top.s]) \in Nat
  BY <1>3, LenProperties DEF TypeOK
<1>5. Top.at \in 1..Len(buf[Top.s])
  BY <1>1, <1>2, <1>3, <1>4
<1>6. x \in Nat
  BY <1>4, <1>5, ElementOfSeq
<1>7. Top.at + 1 \in 1..BufEvents + 1 /\ Top.left - 1 \in 0..BufEvents
  <2>1. BufEvents \in Nat
    BY DispatchAssumption
  <2>2. ASSUME NEW a \in Nat \ {0}, NEW l \in Nat, l > 0, l <= BufEvents,
               a + l <= BufEvents + 1
        PROVE  a + 1 \in 1..BufEvents + 1 /\ l - 1 \in 0..BufEvents
    BY <2>1, <2>2
  <2>3. QED
    BY <1>1, <1>2, <1>3, <2>2
<1>8. /\ g \in Frame /\ g.pc = "walk" /\ g.left = Top.left - 1 /\ g.at = Top.at + 1
      /\ g.s = Top.s /\ g.todo = Top.todo
  BY <1>1, <1>2, <1>7 DEF Frame
<1> HIDE DEF g
<1>9. FrameSound(g, buf)
  <2>1. g.at + g.left = Top.at + Top.left
    BY <1>2, <1>8
  <2>2. QED
    BY <1>3, <1>8, <2>1 DEF FrameSound
<1>10. QED
  BY <1>1, <1>6, <1>8, <1>9 DEF g
\* An iteration begins with sources that are attached and ready, from the main
\* loop or from a handler.
LEMMA IterateEffect ==
    ASSUME TypeOK, StackSound, Iterate
    PROVE  /\ UNCHANGED <<kernelVars, attached, buf, emitted, announced>>
           /\ Depth = 0 \/ (iterates /\ Depth > 0 /\ Top.pc \in {"walk", "bye"})
           /\ revents' \in [Sources -> SUBSET {"IN", "ERR"}]
           /\ \A s \in Sources : revents'[s] \in {Poll, revents[s]}
           /\ Poll # {}
           /\ \E S \in SUBSET attached : /\ S # {} /\ NewFrame(S) \in Frame
                                        /\ FrameSound(NewFrame(S), buf)
                                        /\ stack' = Append(stack, NewFrame(S))
<1>1. /\ UNCHANGED <<kernelVars, attached, buf, emitted, announced>>
      /\ Depth = 0 \/ (iterates /\ Depth > 0 /\ Top.pc \in {"walk", "bye"})
      /\ revents' = [s \in Sources |-> IF s \in attached THEN Poll ELSE revents[s]]
  BY DEF Iterate, InHandler, Polled
<1> DEFINE S == {s \in attached : ctl_card_check_src(revents'[s])}
<1>2. S # {} /\ stack' = Append(stack, NewFrame(S))
  BY DEF Iterate, Polled
<1>3. Poll \subseteq {"IN", "ERR"}
  BY DEF Poll
<1>4. revents' \in [Sources -> SUBSET {"IN", "ERR"}]
  BY <1>1, <1>3 DEF TypeOK
<1>5. Poll # {}
  <2>1. PICK s \in attached : ctl_card_check_src(revents'[s])
    BY <1>2
  <2>2. revents'[s] = Poll
    BY <1>1, <2>1 DEF TypeOK
  <2>3. QED
    BY <2>1, <2>2 DEF ctl_card_check_src
<1>6. S \subseteq attached /\ S \subseteq Sources
  BY DEF TypeOK
<1> HIDE DEF S
<1>7. NewFrame(S) \in Frame /\ FrameSound(NewFrame(S), buf)
  BY <1>6, DispatchAssumption DEF NewFrame, Frame, FrameSound
<1>8. QED
  BY <1>1, <1>2, <1>4, <1>5, <1>6, <1>7

\* Every step is one of these.
LEMMA Steps ==
    ASSUME Next
    PROVE  \/ Post \/ Disconnect \/ Iterate \/ IterationEnds \/ QuietStep
           \/ Read /\ connected /\ kqueue # <<>>
           \/ EmitEvent
BY DEF Next, Step, QuietStep

LEMMA StackInductive ==
    ASSUME TypeOK, StackSound, [Next]_vars
    PROVE  (TypeOK /\ StackSound)'
<1>t. Depth \in Nat /\ stack \in Seq(Frame)
  BY LenProperties DEF TypeOK, Depth
<1>1. CASE Post
  <2>1. kqueue' \in Seq(Nat) /\ posted' \in Nat
    BY <1>1, AppendProperties DEF Post, TypeOK
  <2>2. QED
    BY <1>1, <2>1 DEF Post, TypeOK, StackSound, Depth
<1>2. CASE Disconnect
  BY <1>2 DEF Disconnect, TypeOK, StackSound, Depth
<1>3. CASE Iterate
  <2>1. PICK S \in SUBSET attached : /\ NewFrame(S) \in Frame
                                     /\ FrameSound(NewFrame(S), buf)
                                     /\ stack' = Append(stack, NewFrame(S))
    BY <1>3, IterateEffect
  <2> DEFINE f == NewFrame(S)
  <2> HIDE DEF f
  <2>2. /\ stack' \in Seq(Frame) /\ Depth' = Depth + 1 /\ stack'[Depth + 1] = f
        /\ \A i \in 1..Depth : stack'[i] = stack[i]
    BY <1>t, <2>1, Pushed DEF Depth, f
  <2>3. TypeOK'
    BY <1>3, <2>2, IterateEffect DEF TypeOK, kernelVars
  <2>4. ASSUME NEW i \in 1..Depth' PROVE FrameSound(stack'[i], buf')
    <3>1. buf' = buf
      BY <1>3, IterateEffect
    <3>2. CASE i = Depth + 1
      BY <2>1, <2>2, <3>1, <3>2 DEF f
    <3>3. CASE i # Depth + 1
      BY <1>t, <2>2, <3>1, <3>3 DEF StackSound
    <3>4. QED
      BY <3>2, <3>3
  <2>5. ASSUME NEW i \in 1..Depth', i < Depth' PROVE stack'[i].pc \in {"walk", "bye"}
    <3>1. i \in 1..Depth /\ stack'[i] = stack[i]
      BY <1>t, <2>2, <2>5
    <3>2. CASE i < Depth
      BY <3>1, <3>2 DEF StackSound
    <3>3. CASE i = Depth
      BY <1>3, <3>1, <3>3, IterateEffect DEF Top
    <3>4. QED
      BY <1>t, <3>1, <3>2, <3>3
  <2>6. ~iterates' => Depth' <= 1
    BY <1>3, <1>t, <2>2, IterateEffect DEF kernelVars
  <2>7. QED
    BY <2>3, <2>4, <2>5, <2>6 DEF StackSound
<1>4. CASE IterationEnds
  <2>1. /\ stack' \in Seq(Frame) /\ Depth' = Depth - 1
        /\ \A i \in 1..Depth - 1 : stack'[i] = stack[i]
    BY <1>4, <1>t, Popped DEF IterationEnds, Depth
  <2>2. TypeOK'
    BY <1>4, <2>1 DEF IterationEnds, TypeOK, kernelVars
  <2>3. QED
    BY <1>4, <1>t, <2>1, <2>2 DEF IterationEnds, StackSound, kernelVars
<1>5. CASE QuietStep
  <2>1. PICK g \in Frame : SetTop(g) /\ FrameSound(g, buf)
    BY <1>5, Quiet
  <2>2. /\ Depth > 0 /\ UNCHANGED <<kernelVars, revents, buf, emitted>>
        /\ attached' \subseteq attached
    BY <1>5, Quiet
  <2>3. \A s \in Sources : Len(buf[s]) \in Nat
    BY LenProperties DEF TypeOK
  <2>4. stack' \in Seq(Frame) /\ StackSound'
    BY <2>1, <2>2, <2>3, StackTop DEF TypeOK, kernelVars
  <2>5. QED
    BY <2>2, <2>4 DEF TypeOK, kernelVars
<1>6. CASE Read /\ connected /\ kqueue # <<>>
  <2> DEFINE g == [Top EXCEPT !.pc = "walk", !.left = ReadCount]
  <2>1. /\ Depth > 0 /\ SetTop(g) /\ g \in Frame /\ FrameSound(g, buf')
        /\ UNCHANGED <<nonblock, iterates, posted, connected, attached, revents, emitted>>
        /\ buf' \in [Sources -> Seq(Nat)] /\ \A s \in Sources : Len(buf'[s]) >= Len(buf[s])
        /\ kqueue' \in Seq(Nat)
    BY <1>6, ReadEffect
  <2> HIDE DEF g
  <2>2. stack' \in Seq(Frame) /\ StackSound'
    BY <2>1, StackTop
  <2>3. QED
    BY <2>1, <2>2 DEF TypeOK
<1>7. CASE EmitEvent
  <2> DEFINE g == [Top EXCEPT !.at = @ + 1, !.left = @ - 1]
             x == buf[Top.s][Top.at]
  <2>1. /\ Depth > 0 /\ SetTop(g) /\ g \in Frame /\ FrameSound(g, buf)
        /\ UNCHANGED <<kernelVars, attached, revents, buf>>
        /\ x \in Nat /\ emitted' = Append(emitted, x)
    BY <1>7, EmitEffect
  <2> HIDE DEF g, x
  <2>2. emitted' \in Seq(Nat)
    BY <2>1, AppendProperties DEF TypeOK
  <2>3. \A s \in Sources : Len(buf[s]) \in Nat
    BY LenProperties DEF TypeOK
  <2>4. stack' \in Seq(Frame) /\ StackSound'
    BY <2>1, <2>3, StackTop DEF TypeOK, kernelVars
  <2>5. QED
    BY <2>1, <2>2, <2>4 DEF TypeOK, kernelVars
<1>8. CASE UNCHANGED vars
  BY <1>8 DEF vars, TypeOK, StackSound, Depth
<1>9. QED
  BY <1>1, <1>2, <1>3, <1>4, <1>5, <1>6, <1>7, <1>8, Steps
----------------------------------------------------------------------------
\* What the loops have left together, when the innermost frame is replaced, or
\* one that has nothing left comes or goes.
LEMMA SumTop ==
    ASSUME TypeOK, StackSound, Depth > 0, NEW g \in Frame, SetTop(g), NEW sum, IsSum(sum)
    PROVE  \E new : IsSum(new)' /\ new[Depth'] = sum[Depth] - Top.left + g.left
<1> DEFINE new == [sum EXCEPT ![Depth] = sum[Depth - 1] + g.left]
<1>1. /\ Depth \in Nat /\ Depth \in 1..Depth /\ Depth' = Depth /\ stack'[Depth] = g
      /\ \A i \in 1..Depth : i < Depth => stack'[i] = stack[i]
  BY TopReplaced, Zenon
<1>2. /\ sum \in [0..Depth -> Nat] /\ g.left \in Nat /\ Top.left \in Nat
      /\ sum[Depth] = sum[Depth - 1] + Top.left
  <2>1. g.left \in Nat /\ Top.left \in Nat
    BY TopFrame, DispatchAssumption DEF Frame
  <2>2. sum \in [0..Depth -> Nat] /\ sum[Depth] = sum[Depth - 1] + stack[Depth].left
    BY <1>1 DEF IsSum
  <2>3. QED
    BY <2>1, <2>2 DEF Top
<1>3. sum[Depth - 1] \in Nat /\ sum[Depth] \in Nat
  BY <1>1, <1>2
<1>4. /\ new \in [0..Depth -> Nat] /\ new[Depth] = sum[Depth - 1] + g.left
      /\ \A i \in 0..Depth : i # Depth => new[i] = sum[i]
  BY <1>1, <1>2, <1>3
<1> HIDE DEF new
<1>5. new[0] = 0
  BY <1>1, <1>4 DEF IsSum
<1>6. ASSUME NEW i \in 1..Depth PROVE new[i] = new[i - 1] + stack'[i].left
  <2>1. i - 1 \in 0..Depth /\ i - 1 # Depth /\ i \in 0..Depth
    BY <1>1
  <2>2. CASE i = Depth
    BY <1>1, <1>4, <2>1, <2>2
  <2>3. CASE i # Depth
    <3>1. stack'[i] = stack[i] /\ new[i] = sum[i] /\ new[i - 1] = sum[i - 1]
      BY <1>1, <1>4, <2>1, <2>3
    <3>2. QED
      BY <3>1 DEF IsSum
  <2>4. QED
    BY <2>2, <2>3
<1>7. new[Depth'] = sum[Depth] - Top.left + g.left
  BY <1>1, <1>2, <1>3, <1>4
<1>8. QED
  BY <1>1, <1>4, <1>5, <1>6, <1>7 DEF IsSum

LEMMA SumPush ==
    ASSUME TypeOK, NEW g \in Frame, g.left = 0, stack' = Append(stack, g),
           NEW sum, IsSum(sum)
    PROVE  \E new : IsSum(new)' /\ new[Depth'] = sum[Depth]
<1>1. /\ Depth \in Nat /\ Depth' = Depth + 1 /\ stack'[Depth + 1] = g
      /\ \A i \in 1..Depth : stack'[i] = stack[i]
  BY Pushed, LenProperties DEF TypeOK, Depth
<1> DEFINE new == [i \in 0..Depth + 1 |-> IF i = Depth + 1 THEN sum[Depth] ELSE sum[i]]
<1>2. sum \in [0..Depth -> Nat]
  BY DEF IsSum
<1>3. /\ new \in [0..Depth + 1 -> Nat] /\ new[Depth + 1] = sum[Depth]
      /\ \A i \in 0..Depth : new[i] = sum[i]
  BY <1>1, <1>2
<1> HIDE DEF new
<1>4. new[0] = 0
  BY <1>1, <1>3 DEF IsSum
<1>5. ASSUME NEW i \in 1..Depth + 1 PROVE new[i] = new[i - 1] + stack'[i].left
  <2>1. i - 1 \in 0..Depth
    BY <1>1
  <2>2. CASE i = Depth + 1
    <3>1. new[i] = sum[Depth] /\ stack'[i] = g
      BY ONLY <1>1, <1>3, <2>2, Zenon
    <3>2. i - 1 = Depth /\ sum[Depth] \in Nat
      BY ONLY <1>1, <1>2, <2>2
    <3>3. new[i - 1] = sum[Depth]
      BY ONLY <1>3, <2>1, <3>2
    <3>4. QED
      BY <3>1, <3>2, <3>3
  <2>3. CASE i # Depth + 1
    <3>1. i \in 1..Depth /\ i \in 0..Depth
      BY <1>1, <2>3
    <3>2. stack'[i] = stack[i] /\ new[i] = sum[i] /\ new[i - 1] = sum[i - 1]
      BY <1>1, <1>3, <2>1, <3>1
    <3>3. QED
      BY <3>1, <3>2 DEF IsSum
  <2>4. QED
    BY <2>2, <2>3
<1>6. QED
  BY <1>1, <1>3, <1>4, <1>5 DEF IsSum

LEMMA SumPop ==
    ASSUME TypeOK, Depth > 0, Top.left = 0, stack' = SubSeq(stack, 1, Depth - 1),
           NEW sum, IsSum(sum)
    PROVE  \E new : IsSum(new)' /\ new[Depth'] = sum[Depth]
<1>1. /\ Depth \in Nat /\ Depth' = Depth - 1 /\ Depth \in 1..Depth
      /\ \A i \in 1..Depth - 1 : stack'[i] = stack[i]
  BY Popped, LenProperties DEF TypeOK, Depth
<1> DEFINE new == [i \in 0..Depth - 1 |-> sum[i]]
<1>2. sum \in [0..Depth -> Nat] /\ sum[Depth] = sum[Depth - 1] + Top.left
  BY <1>1 DEF IsSum, Top
<1>3. new \in [0..Depth - 1 -> Nat] /\ \A i \in 0..Depth - 1 : new[i] = sum[i]
  BY <1>1, <1>2
<1> HIDE DEF new
<1>4. new[0] = 0 /\ new[Depth - 1] = sum[Depth]
  BY <1>1, <1>2, <1>3 DEF IsSum
<1>5. \A i \in 1..Depth - 1 : new[i] = new[i - 1] + stack'[i].left
  BY <1>1, <1>3 DEF IsSum
<1>6. QED
  BY <1>1, <1>3, <1>4, <1>5 DEF IsSum

LEMMA CountedInductive ==
    ASSUME TypeOK, StackSound, Counted, [Next]_vars
    PROVE  Counted'
<1>1. PICK sum : IsSum(sum) /\ Len(emitted) + sum[Depth] + Len(kqueue) = posted
  BY DEF Counted
<1>2. /\ Len(emitted) \in Nat /\ Len(kqueue) \in Nat /\ posted \in Nat /\ Depth \in Nat
  BY LenProperties DEF TypeOK, Depth
<1>3. sum[Depth] \in Nat
  BY <1>1, <1>2 DEF IsSum
<1>4. ASSUME UNCHANGED stack PROVE IsSum(sum)' /\ sum[Depth'] = sum[Depth]
  BY <1>1, <1>4 DEF IsSum, Depth
<1>5. CASE Post
  <2>1. Len(kqueue') = Len(kqueue) + 1 /\ posted' = posted + 1 /\ UNCHANGED <<stack, emitted>>
    BY <1>5, AppendProperties DEF Post, TypeOK
  <2>2. QED
    BY <1>1, <1>2, <1>3, <1>4, <2>1 DEF Counted
<1>6. CASE Disconnect \/ UNCHANGED vars
  BY <1>1, <1>4, <1>6 DEF Disconnect, vars, Counted
<1>7. CASE Iterate
  <2>1. PICK S : NewFrame(S) \in Frame /\ stack' = Append(stack, NewFrame(S))
    BY <1>7, IterateEffect
  <2>2. NewFrame(S).left = 0
    BY DEF NewFrame
  <2>3. PICK new : IsSum(new)' /\ new[Depth'] = sum[Depth]
    BY <1>1, <2>1, <2>2, SumPush
  <2>4. QED
    BY <1>1, <1>7, <2>3, IterateEffect DEF Counted, kernelVars
<1>8. CASE IterationEnds
  <2>1. /\ Depth > 0 /\ Top.pc = "ready" /\ stack' = SubSeq(stack, 1, Depth - 1)
        /\ UNCHANGED <<emitted, kqueue, posted>>
    BY <1>8 DEF IterationEnds, kernelVars
  <2>2. Top.left = 0
    BY <2>1, TopFrame DEF FrameSound
  <2>3. PICK new : IsSum(new)' /\ new[Depth'] = sum[Depth]
    BY <1>1, <2>1, <2>2, SumPop
  <2>4. QED
    BY <1>1, <2>1, <2>3 DEF Counted
<1>9. CASE QuietStep
  <2>1. Depth > 0 /\ Top.left = 0 /\ UNCHANGED <<emitted, kqueue, posted>>
    BY <1>9, Quiet DEF kernelVars
  <2>2. PICK g \in Frame : SetTop(g) /\ g.left = 0
    BY <1>9, Quiet
  <2>3. PICK new : IsSum(new)' /\ new[Depth'] = sum[Depth] - Top.left + g.left
    BY <1>1, <2>1, <2>2, SumTop
  <2>4. QED
    BY <1>1, <1>3, <2>1, <2>2, <2>3 DEF Counted
<1>10. CASE Read /\ connected /\ kqueue # <<>>
  <2> DEFINE n == ReadCount
             g == [Top EXCEPT !.pc = "walk", !.left = n]
  <2>1. /\ Depth > 0 /\ Top.left = 0 /\ SetTop(g) /\ g \in Frame /\ g.left = n
        /\ n \in 1..Len(kqueue) /\ Len(kqueue') = Len(kqueue) - n
        /\ UNCHANGED <<emitted, posted>>
    BY <1>10, ReadEffect
  <2> HIDE DEF n, g
  <2>2. PICK new : IsSum(new)' /\ new[Depth'] = sum[Depth] - Top.left + g.left
    BY <1>1, <2>1, SumTop
  <2>3. Len(emitted') + new[Depth'] + Len(kqueue') = posted'
    BY <1>1, <1>2, <1>3, <2>1, <2>2
  <2>4. QED
    BY <2>2, <2>3 DEF Counted
<1>11. CASE EmitEvent
  <2> DEFINE g == [Top EXCEPT !.at = @ + 1, !.left = @ - 1]
             x == buf[Top.s][Top.at]
  <2>1. /\ Depth > 0 /\ SetTop(g) /\ g \in Frame /\ g.left = Top.left - 1
        /\ x \in Nat /\ emitted' = Append(emitted, x) /\ UNCHANGED <<kqueue, posted>>
    BY <1>11, EmitEffect DEF kernelVars
  <2> HIDE DEF g, x
  <2>2. Len(emitted') = Len(emitted) + 1 /\ Top.left \in Nat
    BY <2>1, AppendProperties, TopFrame DEF TypeOK
  <2>3. PICK new : IsSum(new)' /\ new[Depth'] = sum[Depth] - Top.left + g.left
    BY <1>1, <2>1, SumTop
  <2>4. new[Depth'] = sum[Depth] - 1
    BY <1>3, <2>1, <2>2, <2>3
  <2>5. Len(kqueue') = Len(kqueue) /\ posted' = posted
    BY <2>1
  <2>6. Len(emitted) + sum[Depth] + Len(kqueue) = posted
    BY <1>1
  <2>7. (Len(emitted) + 1) + (sum[Depth] - 1) + Len(kqueue) = posted
    BY ONLY <1>2, <1>3, <2>6
  <2>8. Len(emitted') + new[Depth'] + Len(kqueue') = posted'
    BY ONLY <2>2, <2>4, <2>5, <2>7, Zenon
  <2>9. QED
    BY <2>3, <2>8 DEF Counted
<1>12. QED
  BY <1>5, <1>6, <1>7, <1>8, <1>9, <1>10, <1>11, Steps
----------------------------------------------------------------------------
\* Without nested iterations the one loop has all that is left.
LEMMA Total ==
    ASSUME TypeOK, StackSound, Counted, ~iterates
    PROVE  /\ Depth \in 0..1 /\ Left \in Nat /\ Len(emitted) \in Nat /\ Len(kqueue) \in Nat
           /\ Len(emitted) + Left + Len(kqueue) = posted
<1>1. Depth \in 0..1 /\ Len(emitted) \in Nat /\ Len(kqueue) \in Nat
  <2>1. Depth \in Nat /\ Len(emitted) \in Nat /\ Len(kqueue) \in Nat
    BY LenProperties DEF TypeOK, Depth
  <2>2. QED
    BY <2>1 DEF StackSound
<1>2. PICK sum : IsSum(sum) /\ Len(emitted) + sum[Depth] + Len(kqueue) = posted
  BY DEF Counted
<1>3. CASE Depth = 0
  BY <1>1, <1>2, <1>3 DEF IsSum, Left
<1>4. CASE Depth = 1
  <2>1. Top.left \in Nat /\ Left = Top.left
    BY <1>4, TopFrame DEF Left
  <2>2. sum[1] = sum[0] + Top.left /\ sum[0] = 0
    BY <1>2, <1>4 DEF IsSum, Top
  <2>3. QED
    BY <1>1, <1>2, <1>4, <2>1, <2>2
<1>5. QED
  BY <1>1, <1>3, <1>4

\* Then handle_elem_event() emits the event that comes next.
LEMMA EmitsNext ==
    ASSUME TypeOK, StackSound, Counted, InOrder, ~iterates, EmitEvent
    PROVE  /\ buf[Top.s][Top.at] = Len(emitted) + 1
           /\ emitted' = Append(emitted, Len(emitted) + 1) /\ Len(emitted) < posted
<1>1. Depth > 0 /\ Top.left > 0 /\ emitted' = Append(emitted, buf[Top.s][Top.at])
  BY EmitEffect
<1>2. Top.at \in Nat /\ Top.left \in Nat /\ Left = Top.left
  BY <1>1, TopFrame DEF Left
<1>3. 1 \in 1..Left /\ Top.at + 1 - 1 = Top.at
  BY <1>1, <1>2
<1>4. buf[Top.s][Top.at + 1 - 1] = Len(emitted) + 1
  BY <1>3 DEF InOrder
<1>5. buf[Top.s][Top.at] = Len(emitted) + 1
  BY <1>3, <1>4
<1>6. Len(emitted) < posted
  BY <1>1, <1>2, Total
<1>7. QED
  BY <1>1, <1>5, <1>6

LEMMA InOrderInductive ==
    ASSUME TypeOK, StackSound, Counted, InOrder, [Next]_vars
    PROVE  InOrder'
<1>1. iterates' = iterates
  BY DEF Next, Step, Post, Disconnect, Iterate, IterationEnds, Dispatch, RemoveAnnounced,
     Read, EmitEvent, DispatchContinues, kernelVars, vars
<1> SUFFICES ASSUME ~iterates
             PROVE  /\ \A i \in 1..Len(emitted') : emitted'[i] = i
                    /\ \A j \in 1..Left' : buf'[Top'.s][Top'.at + j - 1] = Len(emitted') + j
                    /\ \A i \in 1..Len(kqueue') : kqueue'[i] = Len(emitted') + Left' + i
  BY <1>1 DEF InOrder
<1>2. /\ Depth \in 0..1 /\ Left \in Nat /\ Len(emitted) \in Nat /\ Len(kqueue) \in Nat
      /\ Len(emitted) + Left + Len(kqueue) = posted
  BY Total
<1>3. /\ \A i \in 1..Len(emitted) : emitted[i] = i
      /\ \A j \in 1..Left : buf[Top.s][Top.at + j - 1] = Len(emitted) + j
      /\ \A i \in 1..Len(kqueue) : kqueue[i] = Len(emitted) + Left + i
  BY DEF InOrder
\* A step after which nothing is left in the page, as before it.
<1>4. ASSUME UNCHANGED <<emitted, kqueue>>, Left = 0, Left' = 0
      PROVE  InOrder'
  BY <1>2, <1>3, <1>4 DEF InOrder
<1>5. CASE Post
  <2>1. /\ UNCHANGED <<emitted, stack, buf>> /\ Len(kqueue') = Len(kqueue) + 1
        /\ \A i \in 1..Len(kqueue) : kqueue'[i] = kqueue[i]
        /\ kqueue'[Len(kqueue) + 1] = posted + 1
    BY <1>5, AppendProperties DEF Post, TypeOK
  <2>2. Left' = Left /\ Top' = Top
    BY <2>1 DEF Left, Top, Depth
  <2>3. ASSUME NEW i \in 1..Len(kqueue')
        PROVE  kqueue'[i] = Len(emitted') + Left' + i
    <3>1. CASE i = Len(kqueue) + 1
      BY <1>2, <2>1, <2>2, <3>1
    <3>2. CASE i # Len(kqueue) + 1
      <4>1. i \in 1..Len(kqueue)
        BY <1>2, <2>1, <3>2
      <4>2. QED
        BY <1>3, <2>1, <2>2, <4>1
    <3>3. QED
      BY <3>1, <3>2
  <2>4. QED
    BY <1>3, <2>1, <2>2, <2>3
<1>6. CASE Disconnect \/ UNCHANGED vars
  <2>1. UNCHANGED <<emitted, stack, buf, kqueue>>
    BY <1>6 DEF Disconnect, vars
  <2>2. Left' = Left /\ Top' = Top
    BY <2>1 DEF Left, Top, Depth
  <2>3. QED
    BY <1>3, <2>1, <2>2
<1>7. CASE Iterate
  <2>1. PICK S : NewFrame(S) \in Frame /\ stack' = Append(stack, NewFrame(S))
    BY <1>7, IterateEffect
  <2>2. Depth = 0 /\ UNCHANGED <<emitted, kqueue>>
    BY <1>7, IterateEffect DEF kernelVars
  <2>3. Depth' = 1 /\ stack'[1] = NewFrame(S)
    BY <2>1, <2>2, Pushed DEF TypeOK, Depth
  <2>4. Left = 0 /\ Left' = 0
    BY <2>2, <2>3 DEF Left, Top, NewFrame
  <2>5. QED
    BY <1>1, <1>4, <2>2, <2>4 DEF InOrder
<1>8. CASE IterationEnds
  <2>1. /\ Depth > 0 /\ Top.pc = "ready" /\ stack' = SubSeq(stack, 1, Depth - 1)
        /\ UNCHANGED <<emitted, kqueue>>
    BY <1>8 DEF IterationEnds, kernelVars
  <2>2. Top.left = 0
    BY <2>1, TopFrame DEF FrameSound
  <2>3. Depth = 1 /\ Depth' = 0
    BY <1>2, <2>1, Popped DEF TypeOK, Depth
  <2>4. Left = 0 /\ Left' = 0
    BY <2>2, <2>3 DEF Left
  <2>5. QED
    BY <1>1, <1>4, <2>1, <2>4 DEF InOrder
<1>9. CASE QuietStep
  <2>1. Depth > 0 /\ Top.left = 0 /\ UNCHANGED <<emitted, kqueue>>
    BY <1>9, Quiet DEF kernelVars
  <2>2. PICK g \in Frame : SetTop(g) /\ g.left = 0
    BY <1>9, Quiet
  <2>3. Depth' = Depth /\ stack'[Depth] = g
    BY <2>1, <2>2, TopReplaced, Zenon
  <2>4. Left = 0 /\ Left' = 0
    BY <2>1, <2>2, <2>3 DEF Left, Top
  <2>5. QED
    BY <1>1, <1>4, <2>1, <2>4 DEF InOrder
<1>10. CASE Read /\ connected /\ kqueue # <<>>
  <2> DEFINE n == ReadCount
             g == [Top EXCEPT !.pc = "walk", !.left = n]
  <2>1. /\ Depth > 0 /\ Top.left = 0 /\ SetTop(g) /\ g \in Frame
        /\ g.left = n /\ g.at = 1 /\ g.s = Top.s
        /\ n \in 1..Len(kqueue) /\ Len(kqueue') = Len(kqueue) - n /\ emitted' = emitted
        /\ \A i \in 1..n : buf'[Top.s][i] = kqueue[i]
        /\ \A i \in 1..Len(kqueue) - n : kqueue'[i] = kqueue[n + i]
    BY <1>10, ReadEffect
  <2> HIDE DEF n, g
  <2>2. Depth' = Depth /\ stack'[Depth] = g
    BY <2>1, TopReplaced, Zenon
  <2>3. Left = 0 /\ Left' = n /\ Top' = g
    BY <2>1, <2>2 DEF Left, Top
  <2>4. ASSUME NEW j \in 1..Left'
        PROVE  buf'[Top'.s][Top'.at + j - 1] = Len(emitted') + j
    <3>1. j \in 1..n /\ j \in 1..Len(kqueue) /\ Top'.at + j - 1 = j
      BY <1>2, <2>1, <2>3
    <3>2. buf'[Top'.s][j] = kqueue[j]
      BY <2>1, <2>3, <3>1
    <3>3. kqueue[j] = Len(emitted) + j
      BY <1>2, <1>3, <2>3, <3>1
    <3>4. QED
      BY <2>1, <3>1, <3>2, <3>3
  <2>5. ASSUME NEW i \in 1..Len(kqueue')
        PROVE  kqueue'[i] = Len(emitted') + Left' + i
    <3>1. n + i \in 1..Len(kqueue) /\ i \in 1..Len(kqueue) - n /\ n \in Nat /\ i \in Nat
      BY <1>2, <2>1
    <3>2. kqueue'[i] = Len(emitted) + Left + (n + i)
      BY <1>3, <2>1, <3>1
    <3>3. QED
      BY <1>2, <2>1, <2>3, <3>1, <3>2
  <2>6. QED
    BY <1>3, <2>1, <2>4, <2>5
<1>11. CASE EmitEvent
  <2> DEFINE g == [Top EXCEPT !.at = @ + 1, !.left = @ - 1]
             x == buf[Top.s][Top.at]
  <2>1. /\ Depth > 0 /\ SetTop(g) /\ g \in Frame /\ g.left = Top.left - 1
        /\ g.at = Top.at + 1 /\ g.s = Top.s /\ Top.left > 0
        /\ x \in Nat /\ emitted' = Append(emitted, x) /\ UNCHANGED <<kqueue, buf>>
    BY <1>11, EmitEffect DEF kernelVars
  <2>2. x = Len(emitted) + 1
    BY <1>11, EmitsNext
  <2> HIDE DEF g, x
  <2>3. Depth' = Depth /\ stack'[Depth] = g
    BY <2>1, TopReplaced, Zenon
  <2>4. Left = Top.left /\ Left' = Top.left - 1 /\ Top' = g /\ Top.at \in Nat
    BY <2>1, <2>3, TopFrame DEF Left, Top
  <2>5. /\ Len(emitted') = Len(emitted) + 1 /\ emitted'[Len(emitted) + 1] = x
        /\ \A i \in 1..Len(emitted) : emitted'[i] = emitted[i]
    BY <2>1, AppendProperties DEF TypeOK
  <2>6. ASSUME NEW i \in 1..Len(emitted')
        PROVE  emitted'[i] = i
    <3>1. i \in 1..Len(emitted) \/ i = Len(emitted) + 1
      BY <1>2, <2>5
    <3>2. CASE i \in 1..Len(emitted)
      <4>1. emitted[i] = i
        BY <1>3, <3>2
      <4>2. QED
        BY <2>5, <3>2, <4>1
    <3>3. CASE i = Len(emitted) + 1
      BY <2>2, <2>5, <3>3
    <3>4. QED
      BY <3>1, <3>2, <3>3
  <2>7. ASSUME NEW j \in 1..Left'
        PROVE  buf'[Top'.s][Top'.at + j - 1] = Len(emitted') + j
    <3>1. j + 1 \in 1..Left /\ j \in Nat
      BY <1>2, <2>4
    <3>2. Top'.at + j - 1 = Top.at + (j + 1) - 1 /\ Top'.s = Top.s
      BY <2>1, <2>4, <3>1
    <3>3. buf[Top.s][Top.at + (j + 1) - 1] = Len(emitted) + (j + 1)
      BY <1>3, <3>1
    <3>4. buf'[Top'.s][Top'.at + j - 1] = Len(emitted) + (j + 1)
      BY <2>1, <3>2, <3>3
    <3>5. QED
      BY <1>2, <2>5, <3>1, <3>4
  <2>8. ASSUME NEW i \in 1..Len(kqueue')
        PROVE  kqueue'[i] = Len(emitted') + Left' + i
    <3>1. i \in Nat /\ kqueue'[i] = Len(emitted) + Left + i
      BY <1>2, <1>3, <2>1
    <3>2. Len(emitted') = Len(emitted) + 1 /\ Left' = Left - 1
      BY <2>4, <2>5
    <3>3. QED
      BY <1>2, <3>1, <3>2
  <2>9. QED
    BY <2>6, <2>7, <2>8
<1>12. QED
  BY <1>5, <1>6, <1>7, <1>8, <1>9, <1>10, <1>11, Steps
----------------------------------------------------------------------------
LEMMA InitDispatch == Init => DispatchInv /\ NoneRemoved /\ PromiseKept
<1> SUFFICES ASSUME Init PROVE DispatchInv /\ NoneRemoved /\ PromiseKept
  OBVIOUS
<1>1. Depth = 0 /\ Len(emitted) = 0 /\ Len(kqueue) = 0
  BY EmptySeq DEF Init, Depth
<1>2. TypeOK
  BY EmptySeq DEF Init, TypeOK
<1>3. StackSound /\ NoneRemoved /\ PromiseKept
  BY <1>1 DEF Init, StackSound, NoneRemoved, PromiseKept
<1>4. Counted
  <2> DEFINE sum == [i \in 0..0 |-> 0]
  <2>1. IsSum(sum) /\ sum[Depth] = 0
    BY <1>1 DEF IsSum
  <2> HIDE DEF sum
  <2>2. Len(emitted) + sum[Depth] + Len(kqueue) = posted
    BY <1>1, <2>1 DEF Init
  <2>3. QED
    BY <2>1, <2>2 DEF Counted
<1>5. InOrder
  BY <1>1 DEF InOrder, Left
<1>6. QED
  BY <1>2, <1>3, <1>4, <1>5 DEF DispatchInv

LEMMA DispatchInvariant == Spec => []DispatchInv
<1>1. DispatchInv /\ [Next]_vars => DispatchInv'
  BY StackInductive, CountedInductive, InOrderInductive DEF DispatchInv
<1>2. QED
  BY <1>1, InitDispatch, PTL DEF Spec

(***************************************************************************)
(* However many sources ctl_card_dispatch_src() serves and whatever the    *)
(* size of their pages: when the main loop is idle and nothing is queued,  *)
(* there was one signal for each event, and, unless handlers iterate the   *)
(* context, one for every event.                                           *)
(***************************************************************************)
THEOREM EventsAreEmitted == Spec => []EveryEventEmitted
<1>1. DispatchInv => EveryEventEmitted
  <2> SUFFICES ASSUME DispatchInv, Depth = 0, kqueue = <<>>
               PROVE  /\ Len(emitted) = posted
                      /\ \A n \in 1..posted :
                            iterates \/ \E i \in 1..Len(emitted) : emitted[i] = n
    BY DEF EveryEventEmitted
  <2>1. PICK sum : IsSum(sum) /\ Len(emitted) + sum[Depth] + Len(kqueue) = posted
    BY DEF DispatchInv, Counted
  <2>2. Len(emitted) = posted
    BY <2>1, EmptySeq, LenProperties DEF DispatchInv, TypeOK, IsSum
  <2>3. ~iterates => \A i \in 1..Len(emitted) : emitted[i] = i
    BY DEF DispatchInv, InOrder
  <2>4. QED
    BY <2>2, <2>3
<1>2. QED
  BY <1>1, DispatchInvariant, PTL

(***************************************************************************)
(* The safety part of EventDelivery: without nested iterations of the      *)
(* context, the signals of ctl_card_dispatch_src() are the events that     *)
(* occurred, once each and in their order.  Its other part, that they are  *)
(* all emitted in the end, is a property of fairness.                      *)
(***************************************************************************)
THEOREM DeliversInOrder == Spec => Delivery!Init /\ [][Delivery!Next]_(Delivery!vars)
<1>1. Init => Delivery!Init
  BY DEF Init, Delivery!Init
<1>2. DispatchInv /\ [Next]_vars => [Delivery!Next]_(Delivery!vars)
  <2> SUFFICES ASSUME DispatchInv, [Next]_vars
               PROVE  [Delivery!Next]_(Delivery!vars)
    OBVIOUS
  <2> USE DEF DispatchInv
  <2>1. iterates' = iterates /\ iterates \in BOOLEAN /\ connected \in BOOLEAN
    BY DEF Next, Step, Post, Disconnect, Iterate, IterationEnds, Dispatch, RemoveAnnounced,
       Read, EmitEvent, DispatchContinues, kernelVars, vars, TypeOK
  <2>2. ASSUME iterates \/ UNCHANGED <<posted, emitted, connected>>
        PROVE  UNCHANGED Delivery!vars
    BY <2>1, <2>2 DEF Delivery!vars
  <2>3. CASE iterates
    BY <2>2, <2>3
  <2>4. CASE ~iterates
    <3>1. CASE Post
      <4>1. Delivery!Post
        BY <2>1, <2>4, <3>1 DEF Post, Delivery!Post
      <4>2. QED
        BY <4>1 DEF Delivery!Next
    <3>2. CASE Disconnect
      <4>1. Delivery!Disconnect
        BY <2>1, <2>4, <3>2 DEF Disconnect, Delivery!Disconnect
      <4>2. QED
        BY <4>1 DEF Delivery!Next
    <3>3. CASE EmitEvent
      <4>1. /\ emitted' = Append(emitted, Len(emitted) + 1) /\ Len(emitted) < posted
            /\ UNCHANGED <<posted, connected>>
        BY <2>4, <3>3, EmitsNext DEF EmitEvent, kernelVars
      <4>2. Delivery!Emit
        BY <2>1, <2>4, <4>1 DEF Delivery!Emit
      <4>3. QED
        BY <4>2 DEF Delivery!Next
    <3>4. CASE \/ Iterate \/ IterationEnds \/ QuietStep
               \/ (Read /\ connected /\ kqueue # <<>>) \/ UNCHANGED vars
      <4>1. UNCHANGED <<posted, emitted, connected>>
        BY <3>4, Quiet DEF Iterate, IterationEnds, Read, kernelVars, vars
      <4>2. QED
        BY <2>2, <4>1
    <3>5. QED
      BY <3>1, <3>2, <3>3, <3>4, Steps
  <2>5. QED
    BY <2>3, <2>4
<1>3. QED
  BY <1>1, <1>2, DispatchInvariant, PTL DEF Spec
----------------------------------------------------------------------------
\* The innermost frame is replaced while the card is there.
LEMMA FrameKept ==
    ASSUME TypeOK, NoneRemoved, connected, Depth > 0, NEW g \in Frame, SetTop(g),
           g.pc # "bye", g.todo \subseteq attached, g.s \in attached \cup {NoSource},
           attached' = attached, revents' = revents
    PROVE  NoneRemoved' /\ Depth' = Depth /\ Top' = g
<1>1. /\ Depth' = Depth /\ stack'[Depth] = g /\ Depth \in Nat
      /\ \A i \in 1..Depth : i < Depth => stack'[i] = stack[i]
  BY TopReplaced, Zenon
<1>2. ASSUME NEW i \in 1..Depth
      PROVE  /\ stack'[i].pc # "bye" /\ stack'[i].todo \subseteq attached
             /\ stack'[i].s \in attached \cup {NoSource}
  <2>1. CASE i = Depth
    BY <1>1, <2>1
  <2>2. CASE i # Depth
    <3>1. stack'[i] = stack[i]
      BY <1>1, <2>2
    <3>2. QED
      BY <3>1 DEF NoneRemoved
  <2>3. QED
    BY <2>1, <2>2
<1>3. NoneRemoved'
  BY <1>1, <1>2 DEF NoneRemoved
<1>4. QED
  BY <1>1, <1>3 DEF Top

LEMMA WaitInductive == WaitInv /\ [Next]_vars => WaitInv'
<1> SUFFICES ASSUME WaitInv, [Next]_vars
             PROVE  (NoneRemoved /\ PromiseKept)'
  BY StackInductive DEF WaitInv
<1> USE DEF WaitInv
<1>1. connected' => connected
  BY DEF Next, Step, Post, Disconnect, Iterate, IterationEnds, Dispatch, RemoveAnnounced,
     Read, EmitEvent, DispatchContinues, kernelVars, vars
<1>2. CASE ~connected'
  BY <1>2 DEF NoneRemoved, PromiseKept
<1>3. CASE connected'
  <2>1. /\ connected /\ Depth \in Nat /\ \A s \in Sources : "ERR" \notin revents[s]
        /\ \A i \in 1..Depth : /\ stack[i].pc # "bye" /\ stack[i].todo \subseteq attached
                               /\ stack[i].s \in attached \cup {NoSource}
    BY <1>1, <1>3, LenProperties DEF NoneRemoved, TypeOK, Depth
  <2>2. Depth > 0 => /\ Top.pc # "bye" /\ Top.todo \subseteq attached
                     /\ Top.s \in attached \cup {NoSource}
    BY <2>1 DEF Top
  <2>3. CASE Post
    <3>1. UNCHANGED <<attached, revents, stack>> /\ kqueue' # <<>>
      BY <2>3, AppendProperties DEF Post, TypeOK
    <3>2. QED
      BY <2>1, <3>1 DEF NoneRemoved, PromiseKept, Depth
  <2>4. CASE Disconnect
    BY <1>3, <2>4 DEF Disconnect
  <2>5. CASE Iterate
    <3>1. PICK S \in SUBSET attached : /\ NewFrame(S) \in Frame
                                       /\ stack' = Append(stack, NewFrame(S))
      BY <2>5, IterateEffect
    <3>2. /\ attached' = attached /\ kqueue' = kqueue /\ Poll # {}
          /\ \A s \in Sources : revents'[s] \in {Poll, revents[s]}
      BY <2>5, IterateEffect DEF kernelVars
    <3>3. "ERR" \notin Poll /\ kqueue # <<>>
      BY <2>1, <3>2 DEF Poll
    <3>4. /\ Depth' = Depth + 1 /\ stack'[Depth + 1] = NewFrame(S)
          /\ \A i \in 1..Depth : stack'[i] = stack[i]
      BY <3>1, Pushed DEF TypeOK, Depth
    <3>5. ASSUME NEW i \in 1..Depth'
          PROVE  /\ stack'[i].pc # "bye" /\ stack'[i].todo \subseteq attached
                 /\ stack'[i].s \in attached \cup {NoSource}
      <4>1. CASE i = Depth + 1
        BY <3>4, <4>1 DEF NewFrame
      <4>2. CASE i # Depth + 1
        <5>1. i \in 1..Depth
          BY <2>1, <3>4, <4>2
        <5>2. QED
          BY <2>1, <3>4, <5>1
      <4>3. QED
        BY <4>1, <4>2
    <3>6. \A s \in Sources : "ERR" \notin revents'[s]
      BY <2>1, <3>2, <3>3
    <3>7. QED
      BY <3>2, <3>3, <3>5, <3>6 DEF NoneRemoved, PromiseKept
  <2>6. CASE IterationEnds
    <3>1. UNCHANGED <<attached, revents>> /\ Depth > 0
      BY <2>6 DEF IterationEnds
    <3>2. Depth' = Depth - 1 /\ \A i \in 1..Depth - 1 : stack'[i] = stack[i]
      BY <2>6, Popped DEF IterationEnds, TypeOK, Depth
    <3>3. NoneRemoved'
      BY <2>1, <3>1, <3>2 DEF NoneRemoved
    <3>4. Depth' > 0 => Top'.pc = "walk"
      <4>1. SUFFICES ASSUME Depth' > 0 PROVE Top'.pc = "walk"
        OBVIOUS
      <4>2. Depth' \in 1..Depth /\ Depth' < Depth /\ stack'[Depth'] = stack[Depth']
        BY <2>1, <3>2, <4>1
      <4>3. QED
        BY <2>1, <4>2 DEF StackSound, Top
    <3>5. QED
      BY <3>3, <3>4 DEF PromiseKept
  <2>7. ASSUME NEW s \in Sources, Dispatch(s)
        PROVE  (NoneRemoved /\ PromiseKept)'
    <3>1. /\ Depth > 0 /\ Top.pc = "ready" /\ s \in Top.todo
          /\ UNCHANGED <<kernelVars, attached, revents>>
      BY <2>7, DispatchEffect
    <3>2. PICK g \in Frame : /\ SetTop(g) /\ g.todo = Top.todo \ {s}
                             /\ \/ s \notin attached \/ "ERR" \in revents[s]
                                \/ g.pc = "read" /\ g.s = s
      BY <2>7, DispatchEffect
    <3>3. g.pc = "read" /\ g.s = s /\ s \in attached /\ g.todo \subseteq attached
      BY <2>1, <2>2, <3>1, <3>2
    <3>4. NoneRemoved' /\ Depth' = Depth /\ Top' = g
      BY <2>1, <3>1, <3>2, <3>3, FrameKept
    <3>5. ~Sole \/ kqueue # <<>>
      BY <2>1, <3>1 DEF PromiseKept
    <3>6. QED
      BY <3>1, <3>4, <3>5 DEF PromiseKept, Sole, kernelVars
  <2>8. CASE RemoveAnnounced
    BY <2>2, <2>8 DEF RemoveAnnounced
  <2>9. CASE Read /\ ~(connected /\ kqueue # <<>>)
    <3>1. /\ Depth > 0 /\ Top.pc = "read" /\ SetTop(Done(Top))
          /\ UNCHANGED <<attached, revents, kqueue>>
      BY <2>1, <2>9 DEF Read
    <3>2. NoneRemoved'
      BY <2>1, <2>2, <3>1, DoneSound, FrameKept
    <3>3. ~Sole \/ kqueue # <<>>
      BY <2>1, <3>1 DEF PromiseKept
    <3>4. QED
      BY <3>1, <3>2, <3>3 DEF PromiseKept, Sole
  <2>10. CASE DispatchContinues
    <3>1. /\ Depth > 0 /\ Top.pc = "walk" /\ SetTop(Done(Top))
          /\ UNCHANGED <<attached, revents, kqueue>>
      BY <2>10 DEF DispatchContinues, kernelVars
    <3>2. NoneRemoved' /\ Depth' = Depth /\ Top' = Done(Top)
      BY <2>1, <2>2, <3>1, DoneSound, FrameKept
    <3>3. Top'.pc = "ready" /\ Top'.todo = Top.todo
      BY <3>1, <3>2, DoneSound
    <3>4. Sole => Top.todo = {}
      <4>1. Top.s # NoSource /\ Top.s \notin Top.todo
        BY <3>1, TopFrame DEF FrameSound
      <4>2. QED
        BY <2>2, <3>1, <4>1 DEF Sole
    <3>5. QED
      BY <3>1, <3>2, <3>3, <3>4 DEF PromiseKept, Sole
  <2>11. CASE Read /\ connected /\ kqueue # <<>>
    <3> DEFINE g == [Top EXCEPT !.pc = "walk", !.left = ReadCount]
    <3>1. /\ Depth > 0 /\ SetTop(g) /\ g \in Frame /\ g.pc = "walk" /\ g.s = Top.s
          /\ g.todo = Top.todo /\ UNCHANGED <<attached, revents>>
      BY <2>11, ReadEffect
    <3> HIDE DEF g
    <3>2. NoneRemoved' /\ Top' = g
      BY <2>1, <2>2, <3>1, FrameKept
    <3>3. QED
      BY <3>1, <3>2 DEF PromiseKept
  <2>12. CASE EmitEvent
    <3> DEFINE g == [Top EXCEPT !.at = @ + 1, !.left = @ - 1]
    <3>1. /\ Depth > 0 /\ SetTop(g) /\ g \in Frame /\ g.pc = "walk" /\ g.s = Top.s
          /\ g.todo = Top.todo /\ UNCHANGED <<attached, revents>>
      BY <2>12, EmitEffect
    <3> HIDE DEF g
    <3>2. NoneRemoved' /\ Top' = g
      BY <2>1, <2>2, <3>1, FrameKept
    <3>3. QED
      BY <3>1, <3>2 DEF PromiseKept
  <2>13. CASE UNCHANGED vars
    BY <2>13 DEF vars, NoneRemoved, PromiseKept, Sole, Depth, Top
  <2>14. QED
    BY <2>3, <2>4, <2>5, <2>6, <2>7, <2>8, <2>9, <2>10, <2>11, <2>12, <2>13, Steps
       DEF QuietStep
<1>4. QED
  BY <1>2, <1>3

(***************************************************************************)
(* ctl_card_dispatch_src() of a source that is alone on its descriptor     *)
(* never waits in read(2) for an event while the card is there, also on a  *)
(* blocking descriptor and with handlers that iterate the context.         *)
(***************************************************************************)
THEOREM AloneNeverWaits == Spec => []NeverWaits
<1>1. WaitInv => NeverWaits
  <2> SUFFICES ASSUME WaitInv, Depth > 0, Top.pc = "read", connected, kqueue = <<>>
               PROVE  Cardinality(attached) > 1
    BY DEF NeverWaits
  <2>1. PICK s \in attached, t \in attached : s # t
    BY DEF WaitInv, PromiseKept, Sole
  <2>2. IsFiniteSet(attached) /\ Cardinality(attached) \in Nat
    BY DispatchAssumption, FS_Subset, FS_CardinalityType DEF WaitInv, TypeOK
  <2>3. Cardinality(attached) # 0
    BY <2>1, <2>2, FS_EmptySet
  <2>4. Cardinality(attached) # 1
    BY <2>1, <2>2, FS_Singleton
  <2>5. QED
    BY <2>2, <2>3, <2>4
<1>2. Init => WaitInv
  BY InitDispatch DEF DispatchInv, WaitInv
<1>3. QED
  BY <1>1, <1>2, WaitInductive, PTL DEF Spec
=============================================================================
