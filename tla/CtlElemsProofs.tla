-------------------------- MODULE CtlElemsProofs --------------------------
(***************************************************************************)
(* Proofs about the element operations of ALSACtlCard, for any number of   *)
(* cards, names and kinds of elements.                                     *)
(***************************************************************************)
EXTENDS CtlElems, SequenceTheorems, TLAPS

Owners == Cards \cup {NoCard}
AllNames == Names \cup {Kernel}
AllSpecs == Specs \cup {KernelSpec}
Types == {s.type : s \in AllSpecs}

Elem == [alive : BOOLEAN, ctl : Nat, name : AllNames, index : Nat, type : Types,
         items : Nat, access : {s.access : s \in AllSpecs}, user : BOOLEAN, owner : Owners]
LabelSet == [of : Nat, item : Nat]
InfoSet == [class : Types \cup {"none", "ENUMERATED"}, type : Types \cup {"none"},
            items : Nat, labels : Seq(LabelSet)]
CallSet == [numid : Nat, count : Nat, data : InfoSet, labels : Seq(LabelSet)]

TypeOK ==
    /\ elems \in Seq(Elem) /\ Len(elems) \in 1..MaxNumid
    /\ locked \in [Cards -> SUBSET Nat] /\ info \in InfoSet /\ call \in [Cards -> CallSet]

AliveIn(es) == {n \in 1..Len(es) : es[n].alive}

(***************************************************************************)
(* The elements of a control follow its first one, share its name and are  *)
(* removed with it; and controls that are there have different names.      *)
(***************************************************************************)
Placed(es, n) ==
    LET e == es[n] IN
    /\ e.ctl \in 1..Len(es) /\ n = e.ctl + e.index
    /\ es[e.ctl].ctl = e.ctl /\ es[e.ctl].name = e.name /\ es[e.ctl].alive = e.alive
    /\ e.type = "ENUMERATED" <=> e.items > 0
Layout(es) ==
    /\ \A n \in 1..Len(es) : Placed(es, n)
    /\ \A n, m \in AliveIn(es) : es[n].name = es[m].name => es[n].ctl = es[m].ctl

\* Who was told to have locked an element owns it.
LocksOwned == \A c \in Cards : \A n \in locked[c] : n \in Numids /\ elems[n].owner = c

DataOf(e) == [class |-> e.type, type |-> e.type, items |-> e.items, labels |-> <<>>]

\* The labels that were read so far are those of the element that the first
\* ioctl found.
CallSound(es, f) ==
    /\ f.numid \in 1..Len(es) /\ f.count = es[f.numid].items
    /\ f.data = DataOf(es[f.numid]) /\ es[f.numid].type = "ENUMERATED"
    /\ Len(f.labels) <= f.count
    /\ \A i \in 1..Len(f.labels) : f.labels[i] = Label(f.numid, i - 1)
CallsSound == \A c \in Cards : call[c] # Idle => CallSound(elems, call[c])

ElemsInv ==
    /\ TypeOK /\ Layout(elems) /\ LocksOwned /\ CallsSound /\ EntriesPoint /\ InfoOfOneElem
----------------------------------------------------------------------------
\* What a step never changes of an element that was made.
Keeps(es, fs) ==
    /\ Len(fs) \in Nat /\ Len(es) <= Len(fs)
    /\ \A n \in 1..Len(es) :
          /\ fs[n].ctl = es[n].ctl /\ fs[n].name = es[n].name /\ fs[n].index = es[n].index
          /\ fs[n].type = es[n].type /\ fs[n].items = es[n].items

\* Owners change, or the elements of control k are removed.
Takes(es, fs, k) == \A n \in 1..Len(es) : fs[n].alive = (es[n].alive /\ es[n].ctl # k)
LEMMA LayoutRemoved ==
    ASSUME NEW es \in Seq(Elem), NEW fs \in Seq(Elem), Layout(es), Len(fs) = Len(es),
           Keeps(es, fs), NEW k, Takes(es, fs, k)
    PROVE  Layout(fs)
<1>1. ASSUME NEW n \in 1..Len(fs) PROVE Placed(fs, n)
  <2>1. Placed(es, n) /\ n \in 1..Len(es)
    BY DEF Layout
  <2>2. es[n].ctl \in 1..Len(es)
    BY <2>1 DEF Placed
  <2>3. fs[n].ctl = es[n].ctl /\ fs[n].index = es[n].index /\ fs[n].name = es[n].name
        /\ fs[n].type = es[n].type /\ fs[n].items = es[n].items
    BY <2>1 DEF Keeps
  <2>4. /\ fs[es[n].ctl].ctl = es[es[n].ctl].ctl /\ fs[es[n].ctl].name = es[es[n].ctl].name
    BY <2>2 DEF Keeps
  <2>5. fs[es[n].ctl].alive = fs[n].alive
    BY <2>1, <2>2 DEF Placed, Takes
  <2>6. QED
    BY <2>1, <2>3, <2>4, <2>5 DEF Placed
<1>2. ASSUME NEW n \in AliveIn(fs), NEW m \in AliveIn(fs), fs[n].name = fs[m].name
      PROVE  fs[n].ctl = fs[m].ctl
  <2>1. n \in AliveIn(es) /\ m \in AliveIn(es)
    BY DEF AliveIn, Takes
  <2>2. n \in 1..Len(es) /\ m \in 1..Len(es)
    BY DEF AliveIn
  <2>3. es[n].name = es[m].name
    BY <1>2, <2>2 DEF Keeps
  <2>4. es[n].ctl = es[m].ctl
    BY <2>1, <2>3 DEF Layout
  <2>5. QED
    BY <2>2, <2>4 DEF Keeps
<1>3. QED
  BY <1>1, <1>2 DEF Layout

\* The new control comes after all elements.
IsNew(es, fs, c, name, spec, count) ==
    /\ Len(fs) = Len(es) + count
    /\ \A n \in 1..Len(es) : fs[n] = es[n]
    /\ \A n \in Len(es) + 1..Len(fs) :
          fs[n] = Element(n, Len(es) + 1, name, n - Len(es) - 1, spec, c)

LEMMA NewElements ==
    ASSUME NEW es \in Seq(Elem), NEW c \in Cards, NEW name \in AllNames, NEW spec \in Specs,
           NEW count \in Nat
    PROVE  /\ WithNew(es, c, name, spec, count) \in Seq(Elem)
           /\ IsNew(es, WithNew(es, c, name, spec, count), c, name, spec, count)
<1> DEFINE new == [i \in 1..count |-> Element(Len(es) + i, Len(es) + 1, name, i - 1, spec, c)]
<1>0. Len(es) \in Nat
  OBVIOUS
<1>1. ASSUME NEW i \in 1..count PROVE Element(Len(es) + i, Len(es) + 1, name, i - 1, spec, c) \in Elem
  <2>1. Len(es) + 1 \in Nat /\ i - 1 \in Nat
    BY <1>0
  <2>2. spec.items \in Nat /\ spec \in AllSpecs
    BY ElemsAssumption DEF AllSpecs
  <2>3. spec.type \in Types /\ spec.access \in {s.access : s \in AllSpecs}
    BY <2>2 DEF Types
  <2>4. c \in Owners /\ (c # NoCard) \in BOOLEAN
    BY DEF Owners
  <2>5. QED
    BY <2>1, <2>2, <2>3, <2>4 DEF Element, Elem
<1>2. new \in Seq(Elem) /\ Len(new) = count
  BY <1>1
<1>3. \A i \in 1..count : new[i] = Element(Len(es) + i, Len(es) + 1, name, i - 1, spec, c)
  OBVIOUS
<1> HIDE DEF new
<1> DEFINE fs == es \o new
<1>4. fs \in Seq(Elem) /\ Len(fs) = Len(es) + count
  BY <1>2
<1>5. \A n \in 1..Len(es) : fs[n] = es[n]
  BY <1>2
<1>6. ASSUME NEW n \in Len(es) + 1..Len(fs)
      PROVE  fs[n] = Element(n, Len(es) + 1, name, n - Len(es) - 1, spec, c)
  <2>1. n - Len(es) \in 1..count /\ n = Len(es) + (n - Len(es))
    BY <1>0, <1>4
  <2>2. fs[n] = new[n - Len(es)]
    BY <1>2, <2>1
  <2>3. QED
    BY <1>3, <2>1, <2>2
<1>7. WithNew(es, c, name, spec, count) = fs
  BY DEF WithNew, new
<1> HIDE DEF fs
<1>8. QED
  BY <1>4, <1>5, <1>6, <1>7 DEF IsNew

LEMMA LayoutNew ==
    ASSUME NEW es \in Seq(Elem), NEW fs \in Seq(Elem), Layout(es),
           NEW c \in Cards, NEW name, NEW spec \in Specs, NEW count \in Nat \ {0},
           IsNew(es, fs, c, name, spec, count),
           \A n \in AliveIn(es) : es[n].name # name
    PROVE  Layout(fs) /\ Keeps(es, fs)
<1> DEFINE k == Len(es) + 1
<1>0. Len(es) \in Nat /\ Len(fs) \in Nat /\ Len(fs) = Len(es) + count /\ k \in Len(es) + 1..Len(fs)
  BY DEF IsNew
<1>1. ASSUME NEW n \in k..Len(fs)
      PROVE  /\ fs[n].alive = TRUE /\ fs[n].ctl = k /\ fs[n].name = name /\ fs[n].index = n - k
             /\ fs[n].type = spec.type /\ fs[n].items = spec.items
  <2>1. fs[n] = Element(n, k, name, n - Len(es) - 1, spec, c)
    BY DEF IsNew
  <2>2. n - Len(es) - 1 = n - k
    BY <1>0
  <2>3. QED
    BY <2>1, <2>2 DEF Element
<1>2. \A n \in 1..Len(es) : fs[n] = es[n]
  BY DEF IsNew
<1> HIDE DEF k
<1>3. Keeps(es, fs)
  BY <1>0, <1>2 DEF Keeps
<1>4. k \in k..Len(fs) /\ k \in 1..Len(fs) /\ k \in Nat
  BY <1>0 DEF k
<1>5. ASSUME NEW n \in 1..Len(fs) PROVE Placed(fs, n)
  <2>1. CASE n \in 1..Len(es)
    <3>1. Placed(es, n) /\ fs[n] = es[n]
      BY <1>2, <2>1 DEF Layout
    <3>2. es[n].ctl \in 1..Len(es)
      BY <3>1 DEF Placed
    <3>3. fs[es[n].ctl] = es[es[n].ctl] /\ es[n].ctl \in 1..Len(fs)
      BY <1>0, <1>2, <3>2
    <3>4. QED
      BY <3>1, <3>3 DEF Placed
  <2>2. CASE n \in k..Len(fs)
    <3>1. n = k + (n - k)
      BY <1>4
    <3>2. spec.type = "ENUMERATED" <=> spec.items > 0
      BY ElemsAssumption
    <3>3. fs[k].ctl = k /\ fs[k].name = name /\ fs[k].alive = TRUE
      BY <1>1, <1>4
    <3>4. QED
      BY <1>1, <1>4, <2>2, <3>1, <3>2, <3>3 DEF Placed
  <2>3. QED
    BY <1>0, <2>1, <2>2 DEF k
<1>6. ASSUME NEW n \in AliveIn(fs), NEW m \in AliveIn(fs), fs[n].name = fs[m].name
      PROVE  fs[n].ctl = fs[m].ctl
  <2>1. ASSUME NEW i \in AliveIn(fs)
        PROVE  (i \in AliveIn(es) /\ fs[i] = es[i]) \/ i \in k..Len(fs)
    BY <1>0, <1>2 DEF AliveIn, k
  <2>2. CASE n \in k..Len(fs) /\ m \in k..Len(fs)
    BY <1>1, <2>2
  <2>3. CASE n \in AliveIn(es) /\ fs[n] = es[n] /\ m \in AliveIn(es) /\ fs[m] = es[m]
    BY <1>6, <2>3 DEF Layout
  <2>4. CASE n \in AliveIn(es) /\ fs[n] = es[n] /\ m \in k..Len(fs)
    BY <1>1, <1>6, <2>4
  <2>5. CASE n \in k..Len(fs) /\ m \in AliveIn(es) /\ fs[m] = es[m]
    BY <1>1, <1>6, <2>5
  <2>6. QED
    BY <2>1, <2>2, <2>3, <2>4, <2>5
<1>7. QED
  BY <1>3, <1>5, <1>6 DEF Layout
----------------------------------------------------------------------------
LEMMA AliveIs == Alive = AliveIn(elems) /\ Alive \subseteq Numids /\ Numids = 1..Len(elems)
BY DEF Alive, AliveIn, Numids

\* An identifier points to one element at most.
LEMMA FindUnique ==
    ASSUME TypeOK, Layout(elems), NEW id, NEW n \in Find(id), NEW m \in Find(id)
    PROVE  n = m
<1>0. /\ elems \in Seq(Elem) /\ Len(elems) \in 1..MaxNumid /\ MaxNumid \in Nat
      /\ AllNames \cap 1..MaxNumid = {}
  BY ElemsAssumption DEF TypeOK, AllNames
<1>1. ASSUME NEW i \in Find(id)
      PROVE  /\ i \in AliveIn(elems) /\ i \in 1..MaxNumid /\ i \in 1..Len(elems)
             /\ elems[i] \in Elem /\ i = elems[i].ctl + elems[i].index
             /\ i = id \/ (elems[i].name = id /\ elems[i].index = 0)
  <2>1. i \in AliveIn(elems) /\ i \in 1..Len(elems) /\ i \in 1..MaxNumid
    BY <1>0, AliveIs DEF Find
  <2>2. elems[i] \in Elem
    BY <1>0, <2>1
  <2>3. i = elems[i].ctl + elems[i].index
    BY <2>1 DEF Layout, Placed
  <2>4. QED
    BY <2>1, <2>2, <2>3 DEF Find
<1>2. ASSUME NEW i \in Find(id) PROVE elems[i].name \in AllNames /\ elems[i].ctl \in Nat
  BY <1>1 DEF Elem
<1>3. CASE id \in 1..MaxNumid
  <2>1. ASSUME NEW i \in Find(id) PROVE i = id
    BY <1>0, <1>1, <1>2, <1>3
  <2>2. QED
    BY <2>1
<1>4. CASE id \notin 1..MaxNumid
  <2>1. ASSUME NEW i \in Find(id) PROVE i = elems[i].ctl /\ elems[i].name = id
    <3>1. elems[i].name = id /\ elems[i].index = 0
      BY <1>1, <1>4
    <3>2. QED
      BY <1>1, <1>2, <3>1
  <2>2. elems[n].ctl = elems[m].ctl
    BY <1>1, <2>1 DEF Layout
  <2>3. QED
    BY <2>1, <2>2
<1>5. QED
  BY <1>3, <1>4

\* What a call that succeeds found: the element, and nothing against it.
LEMMA Found ==
    ASSUME TypeOK, Layout(elems), NEW c, NEW op, NEW id, NEW n, Call(c, op, id, n)
    PROVE  /\ n \in Alive /\ n \in 1..Len(elems) /\ elems[n] \in Elem
           /\ call[c] = Idle
           /\ Refusals(c, op, n) = {} \/ "none" \in Refusals(c, op, n)
<1>1. n \in Find(id) /\ call[c] = Idle /\ "none" \in Outcomes(c, op, id)
  BY DEF Call
<1>2. The(id) \in Find(id)
  BY <1>1 DEF The
<1>3. The(id) = n
  BY <1>1, <1>2, FindUnique
<1>4. n \in Alive /\ n \in 1..Len(elems)
  BY <1>1, AliveIs DEF Find
<1>5. elems[n] \in Elem
  BY <1>4 DEF TypeOK
<1>6. Refusals(c, op, n) = {} \/ "none" \in Refusals(c, op, n)
  BY <1>1, <1>3 DEF Outcomes
<1>7. QED
  BY <1>1, <1>4, <1>5, <1>6

\* The owner that each operation asks for.
LEMMA Allowed ==
    ASSUME NEW c, NEW op, NEW n, Refusals(c, op, n) = {} \/ "none" \in Refusals(c, op, n)
    PROVE  /\ op = "lock" => elems[n].owner = NoCard
           /\ op = "unlock" => elems[n].owner = c
           /\ op \in {"write", "write_tlv"} => elems[n].owner \in {NoCard, c}
<1>1. CASE op = "lock"
  BY <1>1 DEF Refusals, If
<1>2. CASE op = "unlock"
  <2>1. Refusals(c, op, n)
          = If(elems[n].owner = NoCard, "EINVAL") \cup If(OwnedByOther(c, n), "EPERM")
    BY <1>2 DEF Refusals
  <2>2. "none" \notin Refusals(c, op, n)
    BY <2>1 DEF If
  <2>3. Refusals(c, op, n) = {}
    BY <2>2
  <2>4. elems[n].owner # NoCard /\ ~OwnedByOther(c, n)
    BY <2>1, <2>3 DEF If
  <2>5. QED
    BY <1>2, <2>4 DEF OwnedByOther
<1>3. CASE op = "write"
  BY <1>3 DEF Refusals, If, OwnedByOther
<1>4. CASE op = "write_tlv"
  BY <1>4 DEF Refusals, If, OwnedByOther
<1>5. QED
  BY <1>1, <1>2, <1>3, <1>4
----------------------------------------------------------------------------
LEMMA IsSeq ==
    ASSUME NEW S, NEW k \in Nat, NEW s, DOMAIN s = 1..k, s = [i \in 1..k |-> s[i]],
           \A i \in 1..k : s[i] \in S
    PROVE  s \in Seq(S) /\ Len(s) = k
OBVIOUS

LEMMA RemovedElements ==
    ASSUME TypeOK, Layout(elems), NEW n \in Numids, NEW es, es = Removed(Control(n))
    PROVE  /\ es \in Seq(Elem) /\ Len(es) = Len(elems) /\ Keeps(elems, es) /\ Layout(es)
           /\ \A m \in Numids \ Control(n) : es[m] = elems[m]
           /\ \A m \in AliveIn(es) : m \in Alive /\ elems[m].ctl # elems[n].ctl
<1>0. elems \in Seq(Elem) /\ Len(elems) \in Nat /\ Numids = 1..Len(elems)
  BY DEF TypeOK, Numids
<1>1. ASSUME NEW m \in Numids
      PROVE  /\ elems[m] \in Elem /\ es[m] \in Elem
             /\ m \in Control(n) => es[m] = [elems[m] EXCEPT !.alive = FALSE, !.owner = NoCard]
             /\ m \notin Control(n) => es[m] = elems[m]
  <2>1. elems[m] \in Elem
    BY <1>0
  <2>2. [elems[m] EXCEPT !.alive = FALSE, !.owner = NoCard] \in Elem
    BY <2>1 DEF Elem, Owners
  <2>3. es[m] = IF m \notin Control(n) THEN elems[m]
                ELSE [elems[m] EXCEPT !.alive = FALSE, !.owner = NoCard]
    BY DEF Removed
  <2>4. QED
    BY <2>1, <2>2, <2>3
<1>2. es \in Seq(Elem) /\ Len(es) = Len(elems)
  <2>1. DOMAIN es = 1..Len(elems) /\ es = [m \in 1..Len(elems) |-> es[m]]
    BY <1>0 DEF Removed
  <2>2. \A m \in 1..Len(elems) : es[m] \in Elem
    BY <1>0, <1>1
  <2>3. QED
    BY <1>0, <2>1, <2>2, IsSeq
<1>3. ASSUME NEW m \in Numids
      PROVE  /\ es[m].ctl = elems[m].ctl /\ es[m].name = elems[m].name
             /\ es[m].index = elems[m].index
             /\ es[m].type = elems[m].type /\ es[m].items = elems[m].items
             /\ es[m].alive = (elems[m].alive /\ elems[m].ctl # elems[n].ctl)
  <2>1. CASE m \in Control(n)
    <3>1. es[m] = [elems[m] EXCEPT !.alive = FALSE, !.owner = NoCard] /\ elems[m] \in Elem
      BY <1>1, <2>1
    <3>2. elems[m].ctl = elems[n].ctl
      BY <2>1 DEF Control
    <3>3. QED
      BY <3>1, <3>2 DEF Elem
  <2>2. CASE m \notin Control(n)
    <3>1. es[m] = elems[m] /\ elems[m].alive \in BOOLEAN
      BY <1>1, <2>2 DEF Elem
    <3>2. elems[m].alive => elems[m].ctl # elems[n].ctl
      BY <2>2 DEF Control, Alive
    <3>3. QED
      BY <3>1, <3>2
  <2>3. QED
    BY <2>1, <2>2
<1>4. Keeps(elems, es)
  BY <1>0, <1>2, <1>3 DEF Keeps
<1>5. Layout(es)
  <2>1. Takes(elems, es, elems[n].ctl)
    BY <1>0, <1>3 DEF Takes
  <2>2. QED
    BY <1>0, <1>2, <1>4, <2>1, LayoutRemoved
<1>6. ASSUME NEW m \in AliveIn(es) PROVE m \in Alive /\ elems[m].ctl # elems[n].ctl
  <2>1. m \in Numids /\ es[m].alive
    BY <1>0, <1>2 DEF AliveIn
  <2>2. elems[m].alive /\ elems[m].ctl # elems[n].ctl
    BY <1>3, <2>1
  <2>3. QED
    BY <2>1, <2>2 DEF Alive
<1>7. QED
  BY <1>1, <1>2, <1>4, <1>5, <1>6

\* Only owners change.
LEMMA OwnersChange ==
    ASSUME TypeOK, Layout(elems), NEW es, DOMAIN es = Numids, es = [m \in Numids |-> es[m]],
           \A m \in Numids : \/ es[m] = elems[m]
                             \/ \E o \in Owners : es[m] = [elems[m] EXCEPT !.owner = o]
    PROVE  es \in Seq(Elem) /\ Len(es) = Len(elems) /\ Keeps(elems, es) /\ Layout(es)
<1>0. elems \in Seq(Elem) /\ Len(elems) \in Nat /\ Numids = 1..Len(elems)
  BY DEF TypeOK, Numids
<1>1. ASSUME NEW m \in Numids
      PROVE  /\ es[m] \in Elem /\ es[m].alive = elems[m].alive
             /\ es[m].ctl = elems[m].ctl /\ es[m].name = elems[m].name
             /\ es[m].index = elems[m].index
             /\ es[m].type = elems[m].type /\ es[m].items = elems[m].items
  <2>1. elems[m] \in Elem
    BY <1>0
  <2>2. CASE es[m] = elems[m]
    BY <2>1, <2>2
  <2>3. ASSUME NEW o \in Owners, es[m] = [elems[m] EXCEPT !.owner = o]
        PROVE  /\ es[m] \in Elem /\ es[m].alive = elems[m].alive
               /\ es[m].ctl = elems[m].ctl /\ es[m].name = elems[m].name
               /\ es[m].index = elems[m].index
               /\ es[m].type = elems[m].type /\ es[m].items = elems[m].items
    BY <2>1, <2>3 DEF Elem
  <2>4. QED
    BY <2>2, <2>3
<1>2. es \in Seq(Elem) /\ Len(es) = Len(elems)
  <2>1. \A m \in 1..Len(elems) : es[m] \in Elem
    BY <1>0, <1>1
  <2>2. DOMAIN es = 1..Len(elems) /\ es = [m \in 1..Len(elems) |-> es[m]]
    BY <1>0
  <2>3. QED
    BY <1>0, <2>1, <2>2, IsSeq
<1>3. Keeps(elems, es)
  BY <1>0, <1>1, <1>2 DEF Keeps
<1>4. Takes(elems, es, 0)
  <2>1. ASSUME NEW m \in 1..Len(elems)
        PROVE  es[m].alive = (elems[m].alive /\ elems[m].ctl # 0)
    <3>1. elems[m].ctl \in 1..Len(elems)
      BY DEF Layout, Placed
    <3>2. elems[m] \in Elem
      BY <1>0
    <3>3. elems[m].alive \in BOOLEAN
      BY <3>2 DEF Elem
    <3>4. es[m].alive = elems[m].alive /\ elems[m].ctl # 0
      BY <1>0, <1>1, <3>1
    <3>5. QED
      BY <3>3, <3>4
  <2>2. QED
    BY <2>1 DEF Takes
<1>5. Layout(es)
  BY <1>0, <1>2, <1>3, <1>4, LayoutRemoved
<1>6. QED
  BY <1>2, <1>3, <1>5
----------------------------------------------------------------------------
\* What a step leaves true of the elements and of the locks.
ElemsKept ==
    /\ elems' \in Seq(Elem) /\ Len(elems') \in 1..MaxNumid
    /\ Keeps(elems, elems') /\ Layout(elems')
    /\ locked' \in [Cards -> SUBSET Nat] /\ LocksOwned'

LEMMA LockStep ==
    ASSUME TypeOK, Layout(elems), LocksOwned, NEW c \in Cards, NEW id, NEW n,
           NEW lock \in BOOLEAN, lock_elem(c, id, n, lock)
    PROVE  ElemsKept
<1> DEFINE op == LockRequest(lock)
           x == IF op = "lock" THEN c ELSE NoCard
<1>0. /\ elems \in Seq(Elem) /\ Len(elems) \in 1..MaxNumid /\ Numids = 1..Len(elems)
      /\ locked \in [Cards -> SUBSET Nat] /\ DOMAIN elems = Numids
  BY DEF TypeOK, Numids
<1>1. /\ Call(c, op, id, n) /\ elems' = [elems EXCEPT ![n].owner = x]
      /\ locked' = [locked EXCEPT ![c] = IF lock THEN @ \cup {n} ELSE @ \ {n}]
  BY DEF lock_elem
<1>2. /\ n \in Numids /\ elems[n] \in Elem
      /\ Refusals(c, op, n) = {} \/ "none" \in Refusals(c, op, n)
  BY <1>0, <1>1, Found
<1>3. (op = "lock" => elems[n].owner = NoCard) /\ (op = "unlock" => elems[n].owner = c)
  BY <1>2, Allowed
<1>4. (lock => op = "lock" /\ x = c) /\ (~lock => op = "unlock" /\ x = NoCard) /\ x \in Owners
  BY DEF LockRequest, Owners
<1> HIDE DEF op, x
<1>5. /\ elems'[n] = [elems[n] EXCEPT !.owner = x]
      /\ \A m \in Numids : m # n => elems'[m] = elems[m]
      /\ DOMAIN elems' = Numids /\ elems' = [m \in Numids |-> elems'[m]]
  BY <1>0, <1>1, <1>2
<1>6. elems' \in Seq(Elem) /\ Len(elems') = Len(elems) /\ Keeps(elems, elems') /\ Layout(elems')
  <2>1. \A m \in Numids : \/ elems'[m] = elems[m]
                           \/ \E o \in Owners : elems'[m] = [elems[m] EXCEPT !.owner = o]
    BY <1>4, <1>5
  <2>2. QED
    BY <1>5, <2>1, OwnersChange
<1>7. /\ locked' \in [Cards -> SUBSET Nat]
      /\ locked'[c] = IF lock THEN locked[c] \cup {n} ELSE locked[c] \ {n}
      /\ \A d \in Cards : d # c => locked'[d] = locked[d]
  BY <1>0, <1>1, <1>2
<1>8. elems'[n].owner = x
  BY <1>2, <1>5 DEF Elem
<1>9. ASSUME NEW d \in Cards, NEW m \in locked'[d] PROVE m \in Numids /\ elems'[m].owner = d
  <2>1. CASE m = n
    <3>1. d = c /\ lock
      <4>1. ASSUME d # c PROVE FALSE
        <5>1. elems[n].owner = d
          BY <1>7, <1>9, <2>1, <4>1 DEF LocksOwned
        <5>2. elems[n].owner \in {NoCard, c}
          BY <1>3, <1>4
        <5>3. QED
          BY <4>1, <5>1, <5>2, ElemsAssumption
      <4>2. QED
        BY <1>7, <1>9, <2>1, <4>1
    <3>2. QED
      BY <1>2, <1>4, <1>8, <2>1, <3>1
  <2>2. CASE m # n
    <3>1. m \in locked[d]
      BY <1>7, <1>9, <2>2
    <3>2. m \in Numids /\ elems[m].owner = d
      BY <3>1 DEF LocksOwned
    <3>3. QED
      BY <1>5, <2>2, <3>2
  <2>3. QED
    BY <2>1, <2>2
<1>10. LocksOwned'
  <2>1. Numids' = Numids
    BY <1>0, <1>6 DEF Numids
  <2>2. QED
    BY <1>9, <2>1 DEF LocksOwned
<1>11. QED
  BY <1>0, <1>6, <1>7, <1>10 DEF ElemsKept

\* No lock is added, and what stays locked keeps its owner.
LEMMA LocksStay ==
    ASSUME TypeOK, LocksOwned, Keeps(elems, elems'),
           \A d \in Cards : \A m \in locked'[d] :
               m \in locked[d] /\ (m \in Numids => elems'[m].owner = elems[m].owner)
    PROVE  LocksOwned'
<1>1. Numids \subseteq Numids'
  BY DEF TypeOK, Numids, Keeps
<1>2. ASSUME NEW d \in Cards, NEW m \in locked'[d] PROVE m \in Numids' /\ elems'[m].owner = d
  <2>1. m \in locked[d]
    BY <1>2
  <2>2. m \in Numids /\ elems[m].owner = d
    BY <2>1 DEF LocksOwned
  <2>3. QED
    BY <1>1, <2>2
<1>3. QED
  BY <1>2 DEF LocksOwned

LEMMA FinalizeStep ==
    ASSUME TypeOK, Layout(elems), LocksOwned, NEW c \in Cards, Finalize(c)
    PROVE  ElemsKept
<1>0. /\ elems \in Seq(Elem) /\ Len(elems) \in 1..MaxNumid /\ Numids = 1..Len(elems)
      /\ locked \in [Cards -> SUBSET Nat]
  BY DEF TypeOK, Numids
<1>1. /\ elems' = [n \in Numids |-> IF elems[n].owner = c
                                    THEN [elems[n] EXCEPT !.owner = NoCard] ELSE elems[n]]
      /\ locked' = [locked EXCEPT ![c] = {}]
  BY DEF Finalize
<1>2. /\ DOMAIN elems' = Numids /\ elems' = [m \in Numids |-> elems'[m]]
      /\ \A m \in Numids : elems[m].owner # c => elems'[m] = elems[m]
      /\ \A m \in Numids : elems[m].owner = c => elems'[m] = [elems[m] EXCEPT !.owner = NoCard]
  BY <1>1
<1>3. elems' \in Seq(Elem) /\ Len(elems') = Len(elems) /\ Keeps(elems, elems') /\ Layout(elems')
  <2>1. \A m \in Numids : \/ elems'[m] = elems[m]
                           \/ \E o \in Owners : elems'[m] = [elems[m] EXCEPT !.owner = o]
    BY <1>2 DEF Owners
  <2>2. QED
    BY <1>2, <2>1, OwnersChange
<1>4. /\ locked' \in [Cards -> SUBSET Nat] /\ locked'[c] = {}
      /\ \A d \in Cards : d # c => locked'[d] = locked[d]
  BY <1>0, <1>1
<1>5. ASSUME NEW d \in Cards, NEW m \in locked'[d]
      PROVE  m \in locked[d] /\ (m \in Numids => elems'[m].owner = elems[m].owner)
  <2>1. d # c /\ m \in locked[d]
    BY <1>4, <1>5
  <2>2. elems[m].owner = d
    BY <2>1 DEF LocksOwned
  <2>3. QED
    BY <1>2, <2>1, <2>2
<1>6. LocksOwned'
  BY <1>3, <1>5, LocksStay
<1>7. QED
  BY <1>0, <1>3, <1>4, <1>6 DEF ElemsKept

LEMMA RemoveStep ==
    ASSUME TypeOK, Layout(elems), LocksOwned, NEW c \in Cards, NEW id, NEW n,
           remove_elems(c, id, n)
    PROVE  ElemsKept
<1>0. /\ elems \in Seq(Elem) /\ Len(elems) \in 1..MaxNumid /\ Numids = 1..Len(elems)
      /\ locked \in [Cards -> SUBSET Nat]
  BY DEF TypeOK, Numids
<1>1. /\ Call(c, "remove", id, n) /\ elems' = Removed(Control(n))
      /\ locked' = [d \in Cards |-> locked[d] \ Control(n)]
  BY DEF remove_elems, Unlocked
<1>2. n \in Numids
  BY <1>0, <1>1, Found
<1>3. /\ elems' \in Seq(Elem) /\ Len(elems') = Len(elems) /\ Keeps(elems, elems') /\ Layout(elems')
      /\ \A m \in Numids \ Control(n) : elems'[m] = elems[m]
  BY <1>1, <1>2, RemovedElements
<1>4. locked' \in [Cards -> SUBSET Nat] /\ \A d \in Cards : locked'[d] = locked[d] \ Control(n)
  BY <1>0, <1>1
<1>5. LocksOwned'
  BY <1>3, <1>4, LocksStay
<1>6. QED
  BY <1>0, <1>3, <1>4, <1>5 DEF ElemsKept

LEMMA AddStep ==
    ASSUME TypeOK, Layout(elems), LocksOwned, NEW c \in Cards, NEW name \in Names,
           NEW spec \in Specs, NEW count \in 1..MaxCount, add_elems(c, name, spec, count)
    PROVE  ElemsKept
<1>0. /\ elems \in Seq(Elem) /\ Len(elems) \in 1..MaxNumid /\ Numids = 1..Len(elems)
      /\ locked \in [Cards -> SUBSET Nat] /\ count \in Nat \ {0} /\ MaxNumid \in Nat
  BY ElemsAssumption DEF TypeOK, Numids
<1>1. /\ "none" \in AddOutcomes(name, count) /\ locked' = locked
      /\ elems' = WithNew(elems, c, name, spec, count) /\ Len(elems) + count <= MaxNumid
  BY DEF add_elems, AddTo
<1>2. elems' \in Seq(Elem) /\ IsNew(elems, elems', c, name, spec, count)
  BY <1>0, <1>1, NewElements DEF AllNames
<1>3. \A n \in Alive : ~(elems[n].name = name /\ elems[n].index < count)
  BY <1>1 DEF AddOutcomes
<1>4. ASSUME NEW n \in AliveIn(elems), elems[n].name = name PROVE FALSE
  <2> DEFINE k == elems[n].ctl
  <2>1. n \in 1..Len(elems) /\ elems[n].alive
    BY DEF AliveIn
  <2>2. k \in 1..Len(elems) /\ elems[k].ctl = k /\ elems[k].name = name /\ elems[k].alive
    BY <1>4, <2>1 DEF Layout, Placed
  <2> HIDE DEF k
  <2>3. k = elems[k].ctl + elems[k].index /\ elems[k] \in Elem
    BY <1>0, <2>2 DEF Layout, Placed
  <2>4. elems[k].index \in Nat
    BY <2>3 DEF Elem
  <2>5. elems[k].index = 0
    BY <2>2, <2>3, <2>4
  <2>6. k \in Alive
    BY <1>0, <2>2 DEF Alive
  <2>7. QED
    BY <1>0, <1>3, <2>2, <2>5, <2>6
<1>5. Layout(elems') /\ Keeps(elems, elems')
  BY <1>0, <1>2, <1>4, LayoutNew
<1>6. Len(elems') \in 1..MaxNumid /\ \A m \in Numids : elems'[m] = elems[m]
  BY <1>0, <1>1, <1>2 DEF IsNew
<1>7. LocksOwned'
  BY <1>1, <1>5, <1>6, LocksStay
<1>8. QED
  BY <1>0, <1>1, <1>2, <1>5, <1>6, <1>7 DEF ElemsKept

LEMMA ReplaceStep ==
    ASSUME TypeOK, Layout(elems), LocksOwned, NEW c \in Cards, NEW id, NEW n,
           NEW spec \in Specs, NEW count \in 1..MaxCount, replace_elems(c, id, n, spec, count)
    PROVE  ElemsKept
<1> DEFINE es == Removed(Control(n))
           name == elems[n].name
<1>0. /\ elems \in Seq(Elem) /\ Len(elems) \in 1..MaxNumid /\ Numids = 1..Len(elems)
      /\ locked \in [Cards -> SUBSET Nat] /\ count \in Nat \ {0} /\ MaxNumid \in Nat
  BY ElemsAssumption DEF TypeOK, Numids
<1>1. /\ Call(c, "replace", id, n) /\ Len(es) + count <= MaxNumid
      /\ elems' = WithNew(es, c, name, spec, count)
      /\ locked' = [d \in Cards |-> locked[d] \ Control(n)]
  BY DEF replace_elems, AddTo, Unlocked
<1>2. n \in Numids /\ n \in Alive /\ elems[n] \in Elem
  BY <1>0, <1>1, Found
<1>3. name \in AllNames
  BY <1>2 DEF Elem
<1>4. /\ es \in Seq(Elem) /\ Len(es) = Len(elems) /\ Keeps(elems, es) /\ Layout(es)
      /\ \A m \in Numids \ Control(n) : es[m] = elems[m]
      /\ \A m \in AliveIn(es) : m \in Alive /\ elems[m].ctl # elems[n].ctl
  BY <1>2, RemovedElements
<1> HIDE DEF es
<1>5. ASSUME NEW m \in AliveIn(es), es[m].name = name PROVE FALSE
  <2>1. m \in Alive /\ elems[m].ctl # elems[n].ctl /\ m \in 1..Len(elems)
    BY <1>4 DEF AliveIn
  <2>2. elems[m].name = elems[n].name
    BY <1>4, <1>5, <2>1 DEF Keeps
  <2>3. QED
    BY <1>2, <2>1, <2>2, AliveIs DEF Layout
<1> HIDE DEF name
<1>6. elems' \in Seq(Elem) /\ IsNew(es, elems', c, name, spec, count)
  BY <1>0, <1>1, <1>3, <1>4, NewElements
<1>7. Layout(elems') /\ Keeps(es, elems')
  BY <1>0, <1>4, <1>5, <1>6, LayoutNew
<1>8. Keeps(elems, elems')
  BY <1>4, <1>7 DEF Keeps
<1>9. Len(elems') \in 1..MaxNumid /\ \A m \in Numids \ Control(n) : elems'[m] = elems[m]
  <2>1. Len(elems') = Len(es) + count /\ \A m \in 1..Len(es) : elems'[m] = es[m]
    BY <1>6 DEF IsNew
  <2>2. Len(es) = Len(elems) /\ Len(es) + count <= MaxNumid
    BY <1>1, <1>4
  <2>3. Len(elems') \in 1..MaxNumid
    BY ONLY <1>0, <2>1, <2>2
  <2>4. ASSUME NEW m \in Numids \ Control(n) PROVE elems'[m] = elems[m]
    <3>1. m \in 1..Len(es) /\ es[m] = elems[m]
      BY <1>0, <1>4, <2>2
    <3>2. QED
      BY <2>1, <3>1
  <2>5. QED
    BY <2>3, <2>4
<1>10. locked' \in [Cards -> SUBSET Nat] /\ \A d \in Cards : locked'[d] = locked[d] \ Control(n)
  BY <1>0, <1>1
<1>11. LocksOwned'
  BY <1>8, <1>9, <1>10, LocksStay
<1>12. QED
  BY <1>6, <1>7, <1>8, <1>9, <1>10, <1>11 DEF ElemsKept

\* A step of get_elem_info(), or one that leaves the elements alone.
Reads ==
    \/ \E c \in Cards, id \in Ids, n \in Numids :
          \/ write_elem_value(c, id, n) \/ write_elem_tlv(c, id, n) \/ get_elem_info(c, id, n)
    \/ \E c \in Cards : ParseEnumName(c) \/ InfoDone(c)
    \/ Disconnect
    \/ UNCHANGED vars
Changes ==
    \/ \E c \in Cards, id \in Ids, n \in Numids :
          \/ \E lock \in BOOLEAN : lock_elem(c, id, n, lock)
          \/ remove_elems(c, id, n)
          \/ \E spec \in Specs, count \in 1..MaxCount : replace_elems(c, id, n, spec, count)
    \/ \E c \in Cards, spec \in Specs, count \in 1..MaxCount, name \in Names :
          add_elems(c, name, spec, count)
    \/ \E c \in Cards : Finalize(c)

LEMMA Steps == ASSUME [Next]_vars PROVE Reads \/ Changes
<1>1. ASSUME NEW id, NEW n \in Find(id) PROVE n \in Numids
  BY DEF Find, Alive
<1>2. CASE UNCHANGED vars
  BY <1>2 DEF Reads
<1>3. CASE Disconnect
  BY <1>3 DEF Reads
<1>4. ASSUME NEW c \in Cards, NEW id \in Ids, NEW n \in Find(id),
             \/ \E lock \in BOOLEAN : lock_elem(c, id, n, lock)
             \/ write_elem_value(c, id, n)
             \/ write_elem_tlv(c, id, n)
             \/ remove_elems(c, id, n)
             \/ get_elem_info(c, id, n)
             \/ \E spec \in Specs, count \in 1..MaxCount : replace_elems(c, id, n, spec, count)
      PROVE  Reads \/ Changes
  <2>1. n \in Numids
    BY <1>1
  <2>2. QED
    BY <1>4, <2>1 DEF Reads, Changes
<1>5. ASSUME NEW c \in Cards,
             \/ \E spec \in Specs, count \in 1..MaxCount, name \in Names :
                    add_elems(c, name, spec, count)
             \/ ParseEnumName(c) \/ InfoDone(c) \/ Finalize(c)
      PROVE  Reads \/ Changes
  BY <1>5 DEF Reads, Changes
<1>6. QED
  BY <1>2, <1>3, <1>4, <1>5 DEF Next

LEMMA KeepsAll == ASSUME TypeOK, Layout(elems), LocksOwned, [Next]_vars PROVE ElemsKept
<1>1. CASE Changes
  BY <1>1, LockStep, FinalizeStep, RemoveStep, AddStep, ReplaceStep DEF Changes
<1>2. CASE Reads
  <2>1. elems' = elems /\ locked' = locked
    BY <1>2 DEF Reads, write_elem_value, write_elem_tlv, get_elem_info, ParseEnumName, InfoDone,
                Disconnect, cardVars, vars
  <2>2. Keeps(elems, elems')
    BY <2>1 DEF Keeps, TypeOK
  <2>3. LocksOwned'
    BY <2>1 DEF LocksOwned, Numids
  <2>4. QED
    BY <2>1, <2>2, <2>3 DEF ElemsKept, TypeOK
<1>3. QED
  BY <1>1, <1>2, Steps

LEMMA EntriesKept ==
    ASSUME TypeOK, Layout(elems), EntriesPoint, Keeps(elems, elems'), [Next]_vars
    PROVE  EntriesPoint'
<1>0. Len(elems) \in Nat /\ elems \in Seq(Elem)
  BY DEF TypeOK
<1>1. CASE entries' = entries
  <2>1. ASSUME NEW e \in entries PROVE /\ e.numid \in Numids'
                                       /\ elems'[e.numid].name = e.name
                                       /\ elems'[e.numid].index = e.index
    <3>1. /\ e.numid \in 1..Len(elems)
          /\ elems[e.numid].name = e.name /\ elems[e.numid].index = e.index
      BY DEF EntriesPoint, Numids
    <3>2. QED
      BY <1>0, <3>1 DEF Keeps, Numids
  <2>2. QED
    BY <1>1, <2>1 DEF EntriesPoint
<1>2. ASSUME NEW c \in Cards, NEW es \in Seq(Elem), NEW name \in AllNames, NEW spec \in Specs,
             NEW count \in 1..MaxCount, AddTo(es, c, name, spec, count)
      PROVE  EntriesPoint'
  <2>0. Len(es) \in Nat /\ count \in Nat
    BY ElemsAssumption
  <2>1. IsNew(es, elems', c, name, spec, count) /\ elems' \in Seq(Elem)
    BY <1>2, <2>0, NewElements DEF AddTo
  <2>2. ASSUME NEW e \in entries'
        PROVE  /\ e.numid \in Numids'
               /\ elems'[e.numid].name = e.name /\ elems'[e.numid].index = e.index
    <3>1. PICK i \in 0..count - 1 : e = Entry(Len(es) + 1, name, i)
      BY <1>2, <2>2 DEF AddTo
    <3>2. e.numid = Len(es) + 1 + i /\ e.name = name /\ e.index = i
      BY <3>1 DEF Entry
    <3>3. e.numid \in Len(es) + 1..Len(elems') /\ e.numid \in 1..Len(elems')
          /\ e.numid - Len(es) - 1 = i
      BY <2>0, <2>1, <3>2 DEF IsNew
    <3>4. elems'[e.numid] = Element(e.numid, Len(es) + 1, name, i, spec, c)
      BY <2>1, <3>3 DEF IsNew
    <3>5. QED
      BY <3>2, <3>3, <3>4 DEF Element, Numids
  <2>3. QED
    BY <2>2 DEF EntriesPoint
<1>3. CASE Reads
  <2>1. entries' = entries
    BY <1>3 DEF Reads, write_elem_value, write_elem_tlv, get_elem_info, ParseEnumName, InfoDone,
                Disconnect, cardVars, vars
  <2>2. QED
    BY <1>1, <2>1
<1>4. ASSUME NEW c \in Cards, NEW spec \in Specs, NEW count \in 1..MaxCount, NEW name \in Names,
             add_elems(c, name, spec, count)
      PROVE  EntriesPoint'
  BY <1>0, <1>2, <1>4 DEF add_elems, AllNames
<1>5. ASSUME NEW c \in Cards, NEW id \in Ids, NEW n \in Numids, NEW spec \in Specs,
             NEW count \in 1..MaxCount, replace_elems(c, id, n, spec, count)
      PROVE  EntriesPoint'
  <2>1. Removed(Control(n)) \in Seq(Elem)
    BY RemovedElements
  <2>2. elems[n] \in Elem
    BY <1>0 DEF Numids
  <2>3. elems[n].name \in AllNames
    BY <2>2 DEF Elem
  <2>4. AddTo(Removed(Control(n)), c, elems[n].name, spec, count)
    BY <1>5 DEF replace_elems
  <2>5. QED
    BY <1>2, <2>1, <2>3, <2>4
<1>6. ASSUME NEW c \in Cards, NEW id \in Ids, NEW n \in Numids,
             (\E lock \in BOOLEAN : lock_elem(c, id, n, lock)) \/ remove_elems(c, id, n)
      PROVE  EntriesPoint'
  BY <1>1, <1>6 DEF lock_elem, remove_elems
<1>7. ASSUME NEW c \in Cards, Finalize(c) PROVE EntriesPoint'
  BY <1>1, <1>7 DEF Finalize
<1>8. QED
  BY <1>3, <1>4, <1>5, <1>6, <1>7, Steps DEF Changes
----------------------------------------------------------------------------
LEMMA CallKept ==
    ASSUME NEW es, NEW fs, Keeps(es, fs), Len(es) \in Nat, NEW f, CallSound(es, f)
    PROVE  CallSound(fs, f)
<1>1. f.numid \in 1..Len(es)
  BY DEF CallSound
<1>2. f.numid \in 1..Len(fs) /\ fs[f.numid].type = es[f.numid].type
      /\ fs[f.numid].items = es[f.numid].items
  BY <1>1 DEF Keeps
<1>3. QED
  BY <1>2 DEF CallSound, DataOf

LEMMA IdleType == Idle \in CallSet /\ NoInfo \in InfoSet
<1>1. <<>> \in Seq(LabelSet)
  OBVIOUS
<1>2. NoInfo \in InfoSet
  BY <1>1 DEF NoInfo, InfoSet
<1>3. QED
  BY <1>1, <1>2 DEF Idle, CallSet

LEMMA DataType ==
    ASSUME TypeOK, NEW n \in Numids PROVE Data(n) \in InfoSet /\ Data(n) = DataOf(elems[n])
<1>1. elems[n] \in Elem
  BY DEF TypeOK, Numids
<1>2. elems[n].type \in Types /\ elems[n].items \in Nat
  BY <1>1 DEF Elem
<1>3. <<>> \in Seq(LabelSet)
  OBVIOUS
<1>4. QED
  BY <1>2, <1>3 DEF Data, DataOf, InfoSet

\* The element of a turn of the loop is the one of the first ioctl.
LEMMA LabelledIs ==
    ASSUME TypeOK, NEW c \in Cards, call[c].numid \in Numids, NEW n \in Labelled(c)
    PROVE  n = call[c].numid
<1>1. n \in Numids /\ (n = call[c].numid \/ elems[n].name = call[c].numid)
  BY DEF Labelled, Find, Alive
<1>2. elems[n] \in Elem
  BY <1>1 DEF TypeOK, Numids
<1>3. elems[n].name \in AllNames
  BY <1>2 DEF Elem
<1>4. call[c].numid \in 1..MaxNumid
  BY ElemsAssumption DEF TypeOK, Numids
<1>5. QED
  BY <1>1, <1>3, <1>4, ElemsAssumption DEF AllNames

\* The state of a call after one more label.
LEMMA LabelStep ==
    ASSUME TypeOK, NEW f \in CallSet, CallSound(elems, f), Len(f.labels) < f.count,
           NEW g, g = [f EXCEPT !.data = Data(f.numid),
                                !.labels = Append(f.labels, Label(f.numid, Len(f.labels)))]
    PROVE  g \in CallSet /\ CallSound(elems, g)
<1>1. /\ f.numid \in Nat /\ f.count \in Nat /\ f.labels \in Seq(LabelSet) /\ f.numid \in Numids
      /\ Len(f.labels) \in Nat
  BY DEF CallSet, CallSound, Numids
<1>2. Label(f.numid, Len(f.labels)) \in LabelSet
  BY <1>1 DEF Label, LabelSet
<1>3. Data(f.numid) \in InfoSet /\ Data(f.numid) = DataOf(elems[f.numid])
  BY <1>1, DataType
<1>4. /\ g.numid = f.numid /\ g.count = f.count /\ g.data = Data(f.numid)
      /\ g.labels = Append(f.labels, Label(f.numid, Len(f.labels)))
  BY DEF CallSet
<1>5. g \in CallSet
  <2>1. Append(f.labels, Label(f.numid, Len(f.labels))) \in Seq(LabelSet)
    BY <1>1, <1>2
  <2>2. \A d \in InfoSet, l \in Seq(LabelSet) : [f EXCEPT !.data = d, !.labels = l] \in CallSet
    BY DEF CallSet
  <2>3. QED
    BY <1>3, <2>1, <2>2
<1>6. /\ Len(g.labels) = Len(f.labels) + 1
      /\ \A i \in 1..Len(f.labels) : g.labels[i] = f.labels[i]
      /\ g.labels[Len(f.labels) + 1] = Label(f.numid, Len(f.labels))
  BY <1>1, <1>2, <1>4
<1>7. ASSUME NEW i \in 1..Len(g.labels) PROVE g.labels[i] = Label(g.numid, i - 1)
  <2>1. CASE i \in 1..Len(f.labels)
    BY <1>4, <1>6, <2>1 DEF CallSound
  <2>2. CASE i = Len(f.labels) + 1
    <3>1. i - 1 = Len(f.labels)
      BY <1>1, <2>2
    <3>2. QED
      BY <1>4, <1>6, <2>2, <3>1
  <2>3. QED
    BY <1>1, <1>6, <2>1, <2>2
<1>8. Len(g.labels) <= g.count
  BY <1>1, <1>4, <1>6
<1>9. QED
  BY <1>3, <1>4, <1>5, <1>7, <1>8 DEF CallSound

\* What a step leaves true of the calls and of the answer.
InfoKept ==
    /\ info' \in InfoSet /\ call' \in [Cards -> CallSet] /\ CallsSound' /\ InfoOfOneElem'

\* One call moves on.
LEMMA CallMoves ==
    ASSUME TypeOK, CallsSound, elems' = elems, NEW c \in Cards, NEW g \in CallSet,
           g # Idle => CallSound(elems, g), call' = [call EXCEPT ![c] = g]
    PROVE  call' \in [Cards -> CallSet] /\ CallsSound'
<1>1. call \in [Cards -> CallSet]
  BY DEF TypeOK
<1>2. /\ call' \in [Cards -> CallSet] /\ call'[c] = g
      /\ \A d \in Cards : d # c => call'[d] = call[d]
  BY <1>1
<1>3. ASSUME NEW d \in Cards, call'[d] # Idle PROVE CallSound(elems', call'[d])
  <2>1. CASE d = c
    BY <1>2, <1>3, <2>1
  <2>2. CASE d # c
    BY <1>2, <1>3, <2>2 DEF CallsSound
  <2>3. QED
    BY <2>1, <2>2
<1>4. QED
  BY <1>2, <1>3 DEF CallsSound

LEMMA InfoSame ==
    ASSUME TypeOK, CallsSound, InfoOfOneElem, Keeps(elems, elems'), UNCHANGED <<info, call>>
    PROVE  InfoKept
<1>1. ASSUME NEW d \in Cards, call'[d] # Idle PROVE CallSound(elems', call'[d])
  <2>1. CallSound(elems, call[d])
    BY <1>1 DEF CallsSound
  <2>2. QED
    BY <2>1, CallKept DEF TypeOK
<1>2. CallsSound'
  BY <1>1 DEF CallsSound
<1>3. InfoOfOneElem'
  BY DEF InfoOfOneElem
<1>4. QED
  BY <1>2, <1>3 DEF InfoKept, TypeOK

LEMMA FirstIoctl ==
    ASSUME TypeOK, Layout(elems), CallsSound, InfoOfOneElem,
           NEW c \in Cards, NEW id, NEW n, get_elem_info(c, id, n)
    PROVE  InfoKept
<1>1. elems' = elems /\ n \in Numids /\ elems[n] \in Elem
  BY Found DEF get_elem_info, Numids
<1>2. /\ Data(n) \in InfoSet /\ Data(n) = DataOf(elems[n])
      /\ elems[n].items \in Nat /\ n \in Nat
  BY <1>1, DataType DEF Elem, Numids
<1>3. CASE elems[n].type = "ENUMERATED"
  <2> DEFINE g == [numid |-> n, count |-> elems[n].items, data |-> Data(n), labels |-> <<>>]
  <2>1. call' = [call EXCEPT ![c] = g] /\ info' = info
    BY <1>3 DEF get_elem_info
  <2>2. <<>> \in Seq(LabelSet) /\ Len(<<>>) = 0
    OBVIOUS
  <2>3. g \in CallSet
    BY <1>2, <2>2 DEF CallSet
  <2>4. CallSound(elems, g)
    BY <1>1, <1>2, <1>3, <2>2 DEF CallSound, Numids
  <2> HIDE DEF g
  <2>5. call' \in [Cards -> CallSet] /\ CallsSound'
    BY <1>1, <2>1, <2>3, <2>4, CallMoves
  <2>6. InfoOfOneElem'
    BY <2>1 DEF InfoOfOneElem
  <2>7. QED
    BY <2>1, <2>5, <2>6 DEF InfoKept, TypeOK
<1>4. CASE elems[n].type # "ENUMERATED"
  <2>1. info' = Data(n) /\ call' = call
    BY <1>4 DEF get_elem_info
  <2>2. CallsSound'
    BY <1>1, <2>1 DEF CallsSound
  <2>3. InfoOfOneElem'
    BY <1>4, <2>1 DEF InfoOfOneElem, Data
  <2>4. QED
    BY <1>2, <2>1, <2>2, <2>3 DEF InfoKept, TypeOK
<1>5. QED
  BY <1>3, <1>4

LEMMA LabelIoctl ==
    ASSUME TypeOK, CallsSound, InfoOfOneElem, NEW c \in Cards, ParseEnumName(c)
    PROVE  InfoKept
<1> DEFINE f == call[c]
           i == Len(f.labels)
<1>1. elems' = elems /\ info' = info /\ f # Idle /\ MoreLabels(f)
  BY DEF ParseEnumName
<1>2. f \in CallSet /\ CallSound(elems, f) /\ call \in [Cards -> CallSet]
  BY <1>1 DEF TypeOK, CallsSound
<1>3. InfoOfOneElem' /\ info' \in InfoSet
  BY <1>1 DEF InfoOfOneElem, TypeOK
<1>4. ASSUME NEW n \in Labelled(c),
             call' = [call EXCEPT ![c].data = Data(n),
                         ![c].labels = Append(@, Label(n,
                             IF i < elems[n].items THEN i ELSE elems[n].items - 1))]
      PROVE  call' \in [Cards -> CallSet] /\ CallsSound'
  <2>1. n = f.numid /\ i < f.count /\ f.count = elems[n].items
    <3>1. f.numid \in Numids /\ f.count = elems[f.numid].items
      BY <1>2 DEF CallSound, Numids
    <3>2. n = f.numid
      BY <3>1, LabelledIs
    <3>3. QED
      BY <1>1, <3>1, <3>2 DEF MoreLabels
  <2> DEFINE g == [f EXCEPT !.data = Data(f.numid),
                            !.labels = Append(f.labels, Label(f.numid, Len(f.labels)))]
  <2>2. g \in CallSet /\ CallSound(elems, g)
    BY <1>2, <2>1, LabelStep
  <2>3. call' = [call EXCEPT ![c] = g]
    <3>1. Label(n, IF i < elems[n].items THEN i ELSE elems[n].items - 1)
            = Label(f.numid, Len(f.labels))
      BY <2>1
    <3>2. QED
      BY <1>2, <1>4, <2>1, <3>1
  <2> HIDE DEF g
  <2>4. QED
    BY <1>1, <2>2, <2>3, CallMoves
<1>5. ASSUME call' = [call EXCEPT ![c] = Idle]
      PROVE  call' \in [Cards -> CallSet] /\ CallsSound'
  BY <1>1, <1>5, CallMoves, IdleType
<1>6. call' \in [Cards -> CallSet] /\ CallsSound'
  BY <1>4, <1>5 DEF ParseEnumName
<1>7. QED
  BY <1>3, <1>6 DEF InfoKept

LEMMA LastLabel ==
    ASSUME TypeOK, Layout(elems), CallsSound, NEW c \in Cards, InfoDone(c)
    PROVE  InfoKept
<1> DEFINE f == call[c]
<1>1. /\ elems' = elems /\ f # Idle /\ ~MoreLabels(f) /\ call' = [call EXCEPT ![c] = Idle]
      /\ info' = [f.data EXCEPT !.class = "ENUMERATED", !.labels = f.labels]
  BY DEF InfoDone
<1>2. f \in CallSet /\ CallSound(elems, f)
  BY <1>1 DEF TypeOK, CallsSound
<1>3. call' \in [Cards -> CallSet] /\ CallsSound'
  BY <1>1, CallMoves, IdleType
<1> HIDE DEF f
<1>4. f.data \in InfoSet /\ f.labels \in Seq(LabelSet) /\ f.count \in Nat
  BY <1>2 DEF CallSet
<1>5. /\ info' \in InfoSet /\ info'.class = "ENUMERATED" /\ info'.labels = f.labels
      /\ info'.type = f.data.type /\ info'.items = f.data.items
  BY <1>1, <1>4 DEF InfoSet
<1>6. f.data.type = "ENUMERATED" /\ f.data.items = f.count
  BY <1>2 DEF CallSound, DataOf
<1>7. Len(f.labels) = f.count
  <2>1. Len(f.labels) <= f.count /\ ~(Len(f.labels) < f.count) /\ Len(f.labels) \in Nat
    BY <1>1, <1>2, <1>4 DEF CallSound, MoreLabels
  <2>2. QED
    BY <1>4, <2>1
<1>8. ASSUME NEW i \in 1..f.count PROVE f.labels[i] = Label(f.labels[1].of, i - 1)
  <2>1. i \in 1..Len(f.labels) /\ 1 \in 1..Len(f.labels)
    BY <1>4, <1>7
  <2>2. f.labels[i] = Label(f.numid, i - 1) /\ f.labels[1] = Label(f.numid, 1 - 1)
    BY <1>2, <2>1 DEF CallSound
  <2>3. f.labels[1].of = f.numid
    BY <2>2 DEF Label
  <2>4. QED
    BY <2>2, <2>3
<1>9. InfoOfOneElem'
  BY <1>5, <1>6, <1>7, <1>8 DEF InfoOfOneElem
<1>10. QED
  BY <1>3, <1>5, <1>9 DEF InfoKept

LEMMA KeepsInfo ==
    ASSUME TypeOK, Layout(elems), CallsSound, InfoOfOneElem, Keeps(elems, elems'), [Next]_vars
    PROVE  InfoKept
<1>1. CASE Changes
  <2>1. UNCHANGED <<info, call>>
    BY <1>1 DEF Changes, lock_elem, remove_elems, replace_elems, add_elems, Finalize
  <2>2. QED
    BY <2>1, InfoSame
<1>2. ASSUME NEW c \in Cards, NEW id, NEW n,
             write_elem_value(c, id, n) \/ write_elem_tlv(c, id, n)
      PROVE  InfoKept
  <2>1. UNCHANGED <<info, call>>
    BY <1>2 DEF write_elem_value, write_elem_tlv, cardVars
  <2>2. QED
    BY <2>1, InfoSame
<1>3. CASE Disconnect \/ UNCHANGED vars
  <2>1. UNCHANGED <<info, call>>
    BY <1>3 DEF Disconnect, cardVars, vars
  <2>2. QED
    BY <2>1, InfoSame
<1>4. QED
  BY <1>1, <1>2, <1>3, FirstIoctl, LabelIoctl, LastLabel, Steps DEF Reads
----------------------------------------------------------------------------
LEMMA InvInit == Init => ElemsInv
<1> SUFFICES ASSUME Init PROVE ElemsInv
  OBVIOUS
<1> DEFINE e == Element(1, 1, Kernel, 0, KernelSpec, NoCard)
<1>1. /\ elems = <<e>> /\ locked = [c \in Cards |-> {}] /\ info = NoInfo
      /\ call = [c \in Cards |-> Idle] /\ entries = {}
  BY DEF Init
<1>2. KernelSpec \in AllSpecs /\ KernelSpec.items \in Nat
      /\ (KernelSpec.type = "ENUMERATED" <=> KernelSpec.items > 0)
  BY ElemsAssumption DEF AllSpecs
<1>3. KernelSpec.type \in Types /\ KernelSpec.access \in {s.access : s \in AllSpecs}
  BY <1>2 DEF Types
<1>4. e \in Elem
  BY <1>2, <1>3 DEF Element, Elem, AllNames, Owners
<1>5. /\ e.alive = TRUE /\ e.ctl = 1 /\ e.index = 0 /\ e.name = Kernel
      /\ e.type = KernelSpec.type /\ e.items = KernelSpec.items
  BY DEF Element
<1> HIDE DEF e
<1>6. elems \in Seq(Elem) /\ Len(elems) = 1 /\ elems[1] = e
  BY <1>1, <1>4
<1>7. TypeOK
  BY <1>1, <1>6, IdleType, ElemsAssumption DEF TypeOK
<1>8. Layout(elems)
  <2>1. 1..Len(elems) = {1}
    BY <1>6
  <2>2. Placed(elems, 1)
    BY <1>2, <1>5, <1>6 DEF Placed
  <2>3. QED
    BY <2>1, <2>2 DEF Layout, AliveIn
<1>9. LocksOwned /\ CallsSound /\ EntriesPoint
  BY <1>1 DEF LocksOwned, CallsSound, EntriesPoint
<1>10. InfoOfOneElem
  BY <1>1 DEF InfoOfOneElem, NoInfo
<1>11. QED
  BY <1>7, <1>8, <1>9, <1>10 DEF ElemsInv

LEMMA InvNext == ElemsInv /\ [Next]_vars => ElemsInv'
<1> SUFFICES ASSUME ElemsInv, [Next]_vars PROVE ElemsInv'
  OBVIOUS
<1>1. TypeOK /\ Layout(elems) /\ LocksOwned /\ CallsSound /\ EntriesPoint /\ InfoOfOneElem
  BY DEF ElemsInv
<1>2. ElemsKept
  BY <1>1, KeepsAll
<1>3. Keeps(elems, elems')
  BY <1>2 DEF ElemsKept
<1>4. EntriesPoint'
  BY <1>1, <1>3, EntriesKept
<1>5. InfoKept
  BY <1>1, <1>3, KeepsInfo
<1>6. QED
  BY <1>2, <1>4, <1>5 DEF ElemsInv, ElemsKept, InfoKept, TypeOK

LEMMA InvAlways == Spec => []ElemsInv
BY InvInit, InvNext, PTL DEF Spec

(***************************************************************************)
(* What add_elems() and replace_elems() answered points to the elements    *)
(* that they made, with any number of cards that add, replace and remove.  *)
(***************************************************************************)
THEOREM EntriesPointToElems == Spec => []EntriesPoint
<1>1. ElemsInv => EntriesPoint
  BY DEF ElemsInv
<1>2. QED
  BY <1>1, InvAlways, PTL

(***************************************************************************)
(* get_elem_info() puts the information of one element together, whatever  *)
(* the other cards do between its ioctls.                                  *)
(***************************************************************************)
THEOREM InfoIsOfOneElem == Spec => []InfoOfOneElem
<1>1. ElemsInv => InfoOfOneElem
  BY DEF ElemsInv
<1>2. QED
  BY <1>1, InvAlways, PTL

LEMMA WriteAllowed ==
    ASSUME ElemsInv, [Next]_vars, written' # written,
           NEW c \in Cards, written'.numid \in locked[c]
    PROVE  written'.card = c
<1>1. TypeOK /\ Layout(elems) /\ LocksOwned
  BY DEF ElemsInv
<1>2. PICK d \in Cards, id \in Ids, n \in Numids :
          write_elem_value(d, id, n) \/ write_elem_tlv(d, id, n)
  <2>1. ~Changes
    BY DEF Changes, lock_elem, remove_elems, replace_elems, add_elems, Finalize
  <2>2. ASSUME NEW d \in Cards, NEW id, NEW n
        PROVE  ~get_elem_info(d, id, n) /\ ~ParseEnumName(d) /\ ~InfoDone(d)
    BY DEF get_elem_info, ParseEnumName, InfoDone
  <2>3. ~Disconnect /\ ~UNCHANGED vars
    BY DEF Disconnect, vars
  <2>4. QED
    BY <2>1, <2>2, <2>3, Steps DEF Reads
<1>3. written'.numid = n /\ written'.card = d
  BY <1>2 DEF write_elem_value, write_elem_tlv
<1>4. PICK op \in {"write", "write_tlv"} : Call(d, op, id, n)
  BY <1>2 DEF write_elem_value, write_elem_tlv
<1>5. elems[n].owner \in {NoCard, d}
  BY <1>1, <1>4, Found, Allowed
<1>6. elems[n].owner = c
  BY <1>1, <1>3 DEF LocksOwned
<1>7. QED
  BY <1>3, <1>5, <1>6, ElemsAssumption

(***************************************************************************)
(* An element that a card locked by lock_elem() is written by no other     *)
(* card, neither its value nor its TLV data.                               *)
(***************************************************************************)
THEOREM LockedIsNotWritten == Spec => LockExcludes
<1>1. ElemsInv /\ [Next]_vars =>
        [written' # written =>
            \A c \in Cards : written'.numid \in locked[c] => written'.card = c]_vars
  BY WriteAllowed
<1>2. QED
  BY <1>1, InvAlways, PTL DEF Spec, LockExcludes
----------------------------------------------------------------------------
\* The error of each errno, as one table.
TableError(op, errno) ==
    CASE errno = "none" -> "none"
      [] errno = "ENODEV" -> "DISCONNECTED"
      [] errno = "ENOENT" /\ op # "label" -> "ELEM_NOT_FOUND"
      [] errno = "EBUSY" /\ op \in {"lock", "replace", "remove"} -> "ELEM_OWNED"
      [] errno = "EPERM" /\ op \in {"unlock", "write_tlv", "command_tlv"} -> "ELEM_OWNED"
      [] errno = "EPERM" /\ op \in {"write", "read"} -> "ELEM_NOT_SUPPORTED"
      [] OTHER -> "FAILED"
Errnos == {"none", "ENODEV", "ENOENT", "EBUSY", "EPERM", "EINVAL", "ENXIO", "ENOMEM"}

LEMMA TellsApart ==
    ASSUME NEW op \in Ops, NEW errno \in Errnos
    PROVE  ErrorOf(op, errno) = TableError(op, errno)
<1>1. CASE op \in {"lock", "replace", "remove"}
  BY <1>1 DEF ErrorOf, LockError, ReplaceError, RemoveError, Told, BusyIsOwned, TableError, Errnos
<1>2. CASE op \in {"unlock", "write_tlv", "command_tlv"}
  BY <1>2 DEF ErrorOf, UnlockError, WriteTlvError, CommandTlvError, Told, PermIsOwned,
              TableError, Errnos
<1>3. CASE op \in {"write", "read"}
  BY <1>3 DEF ErrorOf, WriteError, ReadError, Told, PermIsNotSupported, TableError, Errnos
<1>4. CASE op \in {"info", "read_tlv"}
  BY <1>4 DEF ErrorOf, InfoError, ReadTlvError, Told, NotFound, TableError, Errnos
<1>5. CASE op = "label"
  <2>1. errno \notin DOMAIN <<>>
    OBVIOUS
  <2>2. QED
    BY <1>5, <2>1 DEF ErrorOf, LabelError, Told, TableError, Errnos
<1>6. QED
  BY <1>1, <1>2, <1>3, <1>4, <1>5 DEF Ops

\* What each refusal says of the element.
LEMMA RefusalTells ==
    ASSUME NEW c, NEW op \in Ops, NEW n, NEW errno \in Refusals(c, op, n)
    PROVE  /\ errno \in {"none", "EBUSY", "EPERM", "EINVAL", "ENXIO"}
           /\ errno = "EBUSY" /\ op = "lock" => elems[n].owner # NoCard
           /\ errno = "EBUSY" /\ op \in {"replace", "remove"} =>
                 \E m \in Control(n) : OwnedByOther(c, m)
           /\ errno = "EPERM" /\ op \in {"unlock", "write_tlv", "command_tlv"} =>
                 OwnedByOther(c, n)
           /\ errno = "EPERM" /\ op \in {"write", "read"} =>
                 elems[n].access # {"READ", "WRITE"} \/ (op = "write" /\ OwnedByOther(c, n))
<1>1. CASE op = "lock"
  BY <1>1 DEF Refusals, If
<1>2. CASE op = "unlock"
  BY <1>2 DEF Refusals, If
<1>3. CASE op = "write"
  BY <1>3 DEF Refusals, If
<1>4. CASE op = "read"
  BY <1>4 DEF Refusals, If
<1>5. CASE op \in {"write_tlv", "command_tlv"}
  BY <1>5 DEF Refusals
<1>6. CASE op = "read_tlv"
  BY <1>6 DEF Refusals
<1>7. CASE op \in {"remove", "replace"}
  BY <1>7 DEF Refusals, If
<1>8. CASE op \in {"label", "info"}
  BY <1>8 DEF Refusals
<1>9. QED
  BY <1>1, <1>2, <1>3, <1>4, <1>5, <1>6, <1>7, <1>8 DEF Ops

\* Where an outcome comes from.
Absent(op, id, errno) ==
    /\ connected
    /\ \/ errno = "EINVAL" /\ op \in {"write_tlv", "read_tlv", "command_tlv"} /\ id \notin 1..MaxNumid
       \/ errno = "ENOENT" /\ Find(id) = {}
Present(c, op, id, errno) ==
    /\ connected /\ The(id) \in Find(id)
    /\ \/ errno = "none" /\ Refusals(c, op, The(id)) = {}
       \/ errno \in Refusals(c, op, The(id))

LEMMA OutcomeFrom ==
    ASSUME TypeOK, NEW c, NEW op, NEW id, NEW errno \in Outcomes(c, op, id)
    PROVE  \/ ~connected /\ errno = "ENODEV"
           \/ Absent(op, id, errno)
           \/ Present(c, op, id, errno)
<1>1. Find(id) # {0}
  <2>1. Find(id) \subseteq Numids
    BY DEF Find, Alive
  <2>2. Len(elems) \in Nat
    BY DEF TypeOK
  <2>3. 0 \notin Numids
    BY ONLY <2>2 DEF Numids
  <2>4. QED
    BY <2>1, <2>3
<1>2. CASE ~connected
  BY <1>2 DEF Outcomes
<1>3. CASE connected /\ Numid(op, id) = {0}
  BY <1>1, <1>3 DEF Outcomes, Numid, Absent
<1>4. CASE connected /\ Numid(op, id) # {0} /\ Find(id) = {}
  BY <1>4 DEF Outcomes, Absent
<1>5. CASE connected /\ Numid(op, id) # {0} /\ Find(id) # {}
  <2>1. The(id) \in Find(id)
    BY <1>5 DEF The
  <2>2. QED
    BY <1>5, <2>1 DEF Outcomes, Present
<1>6. QED
  BY <1>2, <1>3, <1>4, <1>5

\* Someone who is in the way owns an element of the control that id names.
Owned(c, op, id) ==
    \E n \in Find(id) : \E m \in Control(n) :
        IF op = "lock" THEN elems[m].owner # NoCard ELSE OwnedByOther(c, m)

\* ErrorTells, of one call.
Tells(c, op, id, error) ==
    /\ error = "DISCONNECTED" <=> ~connected
    /\ error = "ELEM_NOT_FOUND" => Find(id) = {}
    /\ error = "ELEM_OWNED" => Owned(c, op, id)
    /\ error = "ELEM_NOT_SUPPORTED" =>
          \E n \in Find(id) : elems[n].access # {"READ", "WRITE"} \/ Owned(c, op, id)
    /\ connected /\ Find(id) = {} /\ id \in 1..MaxNumid /\ op # "label" =>
          error = "ELEM_NOT_FOUND"
    /\ error # "ELEM_EXIST"
    /\ connected /\ id \in Alive /\ op \in {"lock", "write_tlv", "command_tlv"} =>
          (OwnedByOther(c, id) => error = "ELEM_OWNED")

LEMMA AbsentTells ==
    ASSUME TypeOK, NEW c, NEW op \in Ops, NEW id, NEW errno, Absent(op, id, errno)
    PROVE  Tells(c, op, id, TableError(op, errno))
<1>1. Alive \subseteq 1..MaxNumid
  BY ElemsAssumption DEF TypeOK, Alive, Numids
<1>2. CASE errno = "EINVAL" /\ op \in {"write_tlv", "read_tlv", "command_tlv"} /\ id \notin 1..MaxNumid
  <2>1. TableError(op, errno) = "FAILED"
    BY <1>2 DEF TableError
  <2>2. connected /\ id \notin Alive
    BY <1>1, <1>2 DEF Absent
  <2>3. QED
    BY <1>2, <2>1, <2>2 DEF Tells
<1>3. CASE errno = "ENOENT" /\ Find(id) = {}
  <2>1. TableError(op, errno) = IF op = "label" THEN "FAILED" ELSE "ELEM_NOT_FOUND"
    BY <1>3 DEF TableError
  <2>2. connected /\ id \notin Alive
    BY <1>3 DEF Absent, Find
  <2>3. QED
    BY <1>3, <2>1, <2>2 DEF Tells
<1>4. QED
  BY <1>2, <1>3 DEF Absent

LEMMA PresentTells ==
    ASSUME TypeOK, Layout(elems), NEW c, NEW op \in Ops, NEW id, NEW errno,
           Present(c, op, id, errno)
    PROVE  errno \in Errnos /\ Tells(c, op, id, TableError(op, errno))
<1> DEFINE n == The(id)
           error == TableError(op, errno)
<1>1. /\ connected /\ n \in Find(id)
      /\ (errno = "none" /\ Refusals(c, op, n) = {}) \/ errno \in Refusals(c, op, n)
  BY DEF Present
<1>2. n \in Alive /\ n \in Control(n)
  BY <1>1 DEF Find, Control
<1>3. id \in Alive => n = id
  <2>1. id \in Alive => id \in Find(id)
    BY DEF Find
  <2>2. QED
    BY <1>1, <2>1, FindUnique
<1> HIDE DEF n
<1>4. /\ errno \in {"none", "EBUSY", "EPERM", "EINVAL", "ENXIO"}
      /\ errno = "EBUSY" /\ op = "lock" => elems[n].owner # NoCard
      /\ errno = "EBUSY" /\ op \in {"replace", "remove"} =>
            \E m \in Control(n) : OwnedByOther(c, m)
      /\ errno = "EPERM" /\ op \in {"unlock", "write_tlv", "command_tlv"} => OwnedByOther(c, n)
      /\ errno = "EPERM" /\ op \in {"write", "read"} =>
            elems[n].access # {"READ", "WRITE"} \/ (op = "write" /\ OwnedByOther(c, n))
  BY <1>1, RefusalTells
<1>5. errno \in Errnos
  BY <1>4 DEF Errnos
<1>6. error \in {"none", "ELEM_OWNED", "ELEM_NOT_SUPPORTED", "FAILED"}
  BY <1>4 DEF TableError
<1>7. error = "ELEM_OWNED" =>
         \/ errno = "EBUSY" /\ op \in {"lock", "replace", "remove"}
         \/ errno = "EPERM" /\ op \in {"unlock", "write_tlv", "command_tlv"}
  BY <1>4 DEF TableError
<1>8. error = "ELEM_NOT_SUPPORTED" => errno = "EPERM" /\ op \in {"write", "read"}
  BY <1>4 DEF TableError
<1>9. ASSUME error = "ELEM_OWNED" PROVE Owned(c, op, id)
  <2>1. CASE op = "lock"
    BY <1>1, <1>2, <1>4, <1>7, <1>9, <2>1 DEF Owned
  <2>2. CASE op # "lock"
    <3>1. \E m \in Control(n) : OwnedByOther(c, m)
      BY <1>2, <1>4, <1>7, <1>9, <2>2
    <3>2. QED
      BY <1>1, <2>2, <3>1 DEF Owned
  <2>3. QED
    BY <2>1, <2>2
<1>10. ASSUME error = "ELEM_NOT_SUPPORTED"
       PROVE  elems[n].access # {"READ", "WRITE"} \/ Owned(c, op, id)
  <2>1. CASE op = "write" /\ OwnedByOther(c, n)
    BY <1>1, <1>2, <2>1 DEF Owned
  <2>2. QED
    BY <1>4, <1>8, <1>10, <2>1
<1>11. ASSUME id \in Alive, op \in {"lock", "write_tlv", "command_tlv"}, OwnedByOther(c, id)
       PROVE  error = "ELEM_OWNED"
  <2>1. n = id /\ OwnedByOther(c, n)
    BY <1>3, <1>11
  <2>2. CASE op = "lock"
    <3>1. Refusals(c, op, n) = {"EBUSY"}
      BY <2>1, <2>2 DEF Refusals, If, OwnedByOther
    <3>2. errno = "EBUSY"
      BY <1>1, <3>1
    <3>3. QED
      BY <2>2, <3>2 DEF TableError
  <2>3. CASE op \in {"write_tlv", "command_tlv"}
    <3>1. Refusals(c, op, n) = {"EPERM"}
      BY <2>1, <2>3 DEF Refusals
    <3>2. errno = "EPERM"
      BY <1>1, <3>1
    <3>3. QED
      BY <2>3, <3>2 DEF TableError
  <2>4. QED
    BY <1>11, <2>2, <2>3
<1> HIDE DEF error
<1>12. Tells(c, op, id, error)
  BY <1>1, <1>6, <1>9, <1>10, <1>11 DEF Tells
<1>13. QED
  BY <1>5, <1>12 DEF error

LEMMA InvTells == ElemsInv => ErrorTells
<1> SUFFICES ASSUME ElemsInv PROVE ErrorTells
  OBVIOUS
<1>1. TypeOK /\ Layout(elems)
  BY DEF ElemsInv
<1>2. ASSUME NEW name \in Names, NEW count \in 1..MaxCount, NEW errno \in AddOutcomes(name, count),
             AddError(errno) = "ELEM_EXIST"
      PROVE  \E n \in Alive : elems[n].name = name
  <2>1. errno \in {"none", "ENODEV", "ENOMEM", "EBUSY"}
    BY <1>2 DEF AddOutcomes
  <2>2. errno = "EBUSY"
    BY <1>2, <2>1 DEF AddError, Told, BusyIsExist
  <2>3. QED
    BY <1>2, <2>2 DEF AddOutcomes
<1>3. ASSUME NEW c \in Cards, NEW op \in Ops, NEW id \in Ids, NEW errno \in Outcomes(c, op, id)
      PROVE  Tells(c, op, id, ErrorOf(op, errno))
  <2>1. CASE ~connected /\ errno = "ENODEV"
    <3>1. ErrorOf(op, errno) = "DISCONNECTED"
      BY <2>1, TellsApart DEF TableError, Errnos
    <3>2. QED
      BY <2>1, <3>1 DEF Tells
  <2>2. CASE Absent(op, id, errno)
    <3>1. errno \in Errnos
      BY <2>2 DEF Absent, Errnos
    <3>2. QED
      BY <1>1, <2>2, <3>1, AbsentTells, TellsApart
  <2>3. CASE Present(c, op, id, errno)
    BY <1>1, <2>3, PresentTells, TellsApart
  <2>4. QED
    BY <1>1, <1>3, <2>1, <2>2, <2>3, OutcomeFrom
<1>4. QED
  BY <1>2, <1>3 DEF ErrorTells, Tells, Owned

(***************************************************************************)
(* In every state, and for every call, the error that a method of          *)
(* ALSACtlCard reports means what ALSACtlCardError documents of it.        *)
(***************************************************************************)
THEOREM ErrorsTell == Spec => []ErrorTells
BY InvAlways, InvTells, PTL
============================================================================
