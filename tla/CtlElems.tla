------------------------------ MODULE CtlElems ------------------------------
(***************************************************************************)
(* Element operations of ALSACtlCard (src/ctl/card.c): several card        *)
(* objects, of one or of several processes, lock, add, replace, remove,    *)
(* write and read the elements of one sound card, and ask for their        *)
(* information.                                                            *)
(*                                                                         *)
(* External, from the control core: an element has a numid that is never   *)
(* used again, and belongs to a control, the elements that were made       *)
(* together.  A descriptor may own an element, by ELEM_LOCK or as the one  *)
(* that added it; others then neither write nor remove it.                 *)
(***************************************************************************)
EXTENDS Naturals, Sequences, FiniteSets

CONSTANTS Cards,       \* card objects, each with a descriptor
          NoCard,
          Names,       \* names of elements
          Kernel, KernelSpec,  \* the element that the driver made
          Specs,       \* what is asked for in an element: type, items, access
          MaxNumid,    \* bound on the elements made
          MaxCount     \* bound on the elements added by a call

ASSUME ElemsAssumption ==
    /\ NoCard \notin Cards /\ Kernel \notin Names
    /\ (Names \cup {Kernel}) \cap 1..MaxNumid = {}  \* a name is no number
    /\ MaxNumid \in Nat \ {0} /\ MaxCount \in Nat \ {0}
    /\ \A s \in Specs \cup {KernelSpec} : s.items \in Nat /\ (s.type = "ENUMERATED" <=> s.items > 0)

VARIABLES elems,       \* every element ever made, by numid
          connected,   \* FALSE once the card is gone
          locked,      \* the elements a card was told to have locked
          info,        \* the information object that was got last
          call,        \* the get_elem_info() under way, of each card
          written,     \* the last write of a value or of TLV data, and its card
          entries      \* identifiers that the last add or replace answered

vars == <<elems, connected, locked, info, call, written, entries>>
cardVars == <<locked, info, call, entries>>

Numids == 1..Len(elems)
Alive == {n \in Numids : elems[n].alive}
Control(n) == {m \in Alive : elems[m].ctl = elems[n].ctl}

\* An identifier: a numid, or a name, which stands for its first element.
Ids == 1..MaxNumid \cup Names \cup {Kernel}
Find(id) == {n \in Alive : n = id \/ (elems[n].name = id /\ elems[n].index = 0)}

\* A label, told by its element and its position.
Label(n, i) == [of |-> n, item |-> i]
NoInfo == [class |-> "none", type |-> "none", items |-> 0, labels |-> <<>>]
Idle == [numid |-> 0, count |-> 0, data |-> NoInfo, labels |-> <<>>]
----------------------------------------------------------------------------
Element(n, ctl, name, index, spec, owner) ==
    [alive |-> TRUE, ctl |-> ctl, name |-> name, index |-> index,
     type |-> spec.type, items |-> spec.items, access |-> spec.access,
     user |-> owner # NoCard, owner |-> owner]

Init ==
    /\ elems = <<Element(1, 1, Kernel, 0, KernelSpec, NoCard)>>
    /\ connected = TRUE
    /\ locked = [c \in Cards |-> {}]
    /\ info = NoInfo
    /\ call = [c \in Cards |-> Idle]
    /\ written = [numid |-> 0, card |-> NoCard]
    /\ entries = {}

(***************************************************************************)
(* The error that each method reports for an errno of its ioctl: one of    *)
(* the errors that it tells apart, or FAILED with the errno.  "label" is   *)
(* parse_enum_names(), of get_elem_info().                                 *)
(***************************************************************************)
Told(errno, apart) ==
    CASE errno = "none" -> "none"
      [] errno = "ENODEV" -> "DISCONNECTED"
      [] errno \in DOMAIN apart -> apart[errno]
      [] OTHER -> "FAILED"
NotFound == [ENOENT |-> "ELEM_NOT_FOUND"]
BusyIsOwned == [ENOENT |-> "ELEM_NOT_FOUND", EBUSY |-> "ELEM_OWNED"]
BusyIsExist == [ENOENT |-> "ELEM_NOT_FOUND", EBUSY |-> "ELEM_EXIST"]
PermIsOwned == [ENOENT |-> "ELEM_NOT_FOUND", EPERM |-> "ELEM_OWNED"]
PermIsNotSupported == [ENOENT |-> "ELEM_NOT_FOUND", EPERM |-> "ELEM_NOT_SUPPORTED"]

LockError(errno) == Told(errno, BusyIsOwned)
UnlockError(errno) == Told(errno, PermIsOwned)
LabelError(errno) == Told(errno, <<>>)
InfoError(errno) == Told(errno, NotFound)
WriteTlvError(errno) == Told(errno, PermIsOwned)
ReadTlvError(errno) == Told(errno, NotFound)
CommandTlvError(errno) == Told(errno, PermIsOwned)

\* Mutant of ReplaceError: EBUSY is that of ELEM_ADD.
ReplaceErrorExist(errno) == Told(errno, BusyIsExist)

ReplaceError(errno) == Told(errno, BusyIsOwned)
AddError(errno) == Told(errno, BusyIsExist)
RemoveError(errno) == Told(errno, BusyIsOwned)
WriteError(errno) == Told(errno, PermIsNotSupported)
ReadError(errno) == Told(errno, PermIsNotSupported)

Ops == {"lock", "unlock", "label", "info", "write_tlv", "read_tlv", "command_tlv",
        "replace", "remove", "write", "read"}
ErrorOf(op, errno) ==
    CASE op = "lock" -> LockError(errno)           [] op = "unlock" -> UnlockError(errno)
      [] op = "label" -> LabelError(errno)         [] op = "info" -> InfoError(errno)
      [] op = "write_tlv" -> WriteTlvError(errno)  [] op = "read_tlv" -> ReadTlvError(errno)
      [] op = "command_tlv" -> CommandTlvError(errno)
      [] op = "replace" -> ReplaceError(errno)     [] op = "remove" -> RemoveError(errno)
      [] op = "write" -> WriteError(errno)         [] op = "read" -> ReadError(errno)

\* External: does another descriptor own element n?
OwnedByOther(c, n) == elems[n].owner \notin {NoCard, c}
If(cond, errno) == IF cond THEN {errno} ELSE {}
The(id) == CHOOSE n \in Find(id) : TRUE

(***************************************************************************)
(* External: the outcomes of the ioctl of operation op on the element n.   *)
(* ELEM_LOCK fails for an element that has an owner, be it the same        *)
(* descriptor.  The ones that remove look at all elements of the control.  *)
(***************************************************************************)
Refusals(c, op, n) ==
    CASE op = "lock" -> If(elems[n].owner # NoCard, "EBUSY")
      [] op = "unlock" -> If(elems[n].owner = NoCard, "EINVAL") \cup If(OwnedByOther(c, n), "EPERM")
      [] op = "write" -> If("WRITE" \notin elems[n].access \/ OwnedByOther(c, n), "EPERM")
      [] op = "read" -> If("READ" \notin elems[n].access, "EPERM")
      [] op \in {"write_tlv", "command_tlv"} ->
            IF OwnedByOther(c, n) THEN {"EPERM"} ELSE {"none", "ENXIO"}
      [] op = "read_tlv" -> {"none", "ENXIO"}
      [] op \in {"remove", "replace"} ->
            IF ~elems[n].user THEN {"EINVAL"}
            ELSE If(\E m \in Control(n) : OwnedByOther(c, m), "EBUSY")
      [] OTHER -> {}

\* The TLV operations put elem_id->numid to the packet, which is zero for an
\* identifier by name; the other ones hand over the identifier.
Numid(op, id) ==
    IF op \in {"write_tlv", "read_tlv", "command_tlv"} /\ id \notin 1..MaxNumid
    THEN {0} ELSE Find(id)

Outcomes(c, op, id) ==
    IF ~connected THEN {"ENODEV"}
    ELSE IF Numid(op, id) = {0} THEN {"EINVAL"}
    ELSE IF Find(id) = {} THEN {"ENOENT"}
    ELSE LET errs == Refusals(c, op, The(id)) IN IF errs = {} THEN {"none"} ELSE errs

\* External: the outcome of ELEM_ADD for a new control.
AddOutcomes(name, count) ==
    IF ~connected THEN {"ENODEV"}
    ELSE IF \E n \in Alive : elems[n].name = name /\ elems[n].index < count THEN {"EBUSY"}
    ELSE {"none", "ENOMEM"}

\* Card c calls op for the element n that id points to, and succeeds.  A call
\* that fails changes nothing but for replace_elems(); see ErrorTells.
Call(c, op, id, n) == call[c] = Idle /\ "none" \in Outcomes(c, op, id) /\ n \in Find(id)
----------------------------------------------------------------------------
\* Mutant of LockRequest: the other way round.
LockRequestSwapped(lock) == IF lock THEN "unlock" ELSE "lock"

LockRequest(lock) == IF lock THEN "lock" ELSE "unlock"

\* alsactl_card_lock_elem()
lock_elem(c, id, n, lock) ==
    /\ Call(c, LockRequest(lock), id, n)
    /\ elems' = [elems EXCEPT ![n].owner = IF LockRequest(lock) = "lock" THEN c ELSE NoCard]
    /\ locked' = [locked EXCEPT ![c] = IF lock THEN @ \cup {n} ELSE @ \ {n}]
    /\ UNCHANGED <<connected, info, call, written, entries>>

\* alsactl_card_write_elem_value()
write_elem_value(c, id, n) ==
    /\ Call(c, "write", id, n)
    /\ written' = [numid |-> n, card |-> c]
    /\ UNCHANGED <<elems, connected, cardVars>>

\* alsactl_card_write_elem_tlv().  read_elem_tlv(), command_elem_tlv() and
\* read_elem_value() change nothing here.
write_elem_tlv(c, id, n) ==
    /\ Call(c, "write_tlv", id, n)
    /\ written' = [numid |-> n, card |-> c]
    /\ UNCHANGED <<elems, connected, cardVars>>
----------------------------------------------------------------------------
\* Mutant of Entry: the index stays.
EntryNoIndex(first, name, i) == [numid |-> first + i, name |-> name, index |-> 0]

\* The identifier number i that add_or_replace_elems() answers: the one that
\* the ioctl stored, with numid and index incremented i times.
Entry(first, name, i) == [numid |-> first + i, name |-> name, index |-> i]

\* External: the elements es, with those of a new control, owned by c.
WithNew(es, c, name, spec, count) ==
    es \o [i \in 1..count |-> Element(Len(es) + i, Len(es) + 1, name, i - 1, spec, c)]
Removed(S) ==
    [n \in Numids |-> IF n \notin S THEN elems[n]
                      ELSE [elems[n] EXCEPT !.alive = FALSE, !.owner = NoCard]]

\* add_or_replace_elems() with an information object whose class is that of
\* its type.  es: the elements that were left when the new ones are added.
AddTo(es, c, name, spec, count) ==
    /\ Len(es) + count <= MaxNumid
    /\ elems' = WithNew(es, c, name, spec, count)
    /\ entries' = {Entry(Len(es) + 1, name, i) : i \in 0..count - 1}

\* alsactl_card_add_elems()
add_elems(c, name, spec, count) ==
    /\ call[c] = Idle /\ "none" \in AddOutcomes(name, count)
    /\ AddTo(elems, c, name, spec, count)
    /\ UNCHANGED <<connected, locked, info, call, written>>

\* Elements that were removed are no longer locked.
Unlocked(S) == locked' = [d \in Cards |-> locked[d] \ S]

\* alsactl_card_replace_elems().  External: the old elements are removed
\* before the new ones are made, which may still fail.
replace_elems(c, id, n, spec, count) ==
    /\ Call(c, "replace", id, n)
    /\ AddTo(Removed(Control(n)), c, elems[n].name, spec, count)
    /\ Unlocked(Control(n))
    /\ UNCHANGED <<connected, info, call, written>>

\* alsactl_card_remove_elems(), or a replace_elems() that fails half way.
remove_elems(c, id, n) ==
    /\ Call(c, "remove", id, n)
    /\ elems' = Removed(Control(n))
    /\ Unlocked(Control(n))
    /\ UNCHANGED <<connected, info, call, written, entries>>
----------------------------------------------------------------------------
\* External: what ELEM_INFO stores for element n; the object keeps it.
Data(n) == [class |-> elems[n].type, type |-> elems[n].type, items |-> elems[n].items,
            labels |-> <<>>]

\* alsactl_card_get_elem_info(): the first ioctl, and all of it for an element
\* that is not enumerated.
get_elem_info(c, id, n) ==
    /\ Call(c, "info", id, n)
    /\ IF elems[n].type = "ENUMERATED"
       THEN /\ call' = [call EXCEPT ![c] = [numid |-> n, count |-> elems[n].items,
                                            data |-> Data(n), labels |-> <<>>]]
            /\ UNCHANGED info
       ELSE /\ info' = Data(n)
            /\ UNCHANGED call
    /\ UNCHANGED <<elems, connected, locked, written, entries>>

\* Mutant of Labelled: the element is looked up by its name again.
LabelledByName(c) == Find(elems[call[c].numid].name)

\* The element of the ioctls in parse_enum_names(): data->id has the numid
\* that the first ioctl stored.
Labelled(c) == Find(call[c].numid)

\* The condition of that loop.
MoreLabels(f) == Len(f.labels) < f.count

(***************************************************************************)
(* One turn of the loop of parse_enum_names().  External: the last item is *)
(* told for one that does not exist.  A failure frees the labels.          *)
(***************************************************************************)
ParseEnumName(c) ==
    LET f == call[c]
        i == Len(f.labels) IN
    /\ f # Idle /\ MoreLabels(f)
    /\ \/ /\ connected
          /\ \E n \in Labelled(c) :
                call' = [call EXCEPT ![c].data = Data(n),
                            ![c].labels = Append(@, Label(n,
                                IF i < elems[n].items THEN i ELSE elems[n].items - 1))]
       \/ /\ ~connected \/ Labelled(c) = {}
          /\ call' = [call EXCEPT ![c] = Idle]
    /\ UNCHANGED <<elems, connected, locked, info, written, entries>>

\* The end of get_elem_info(): *dst = data, for an object of the class that
\* the first ioctl told.
InfoDone(c) ==
    LET f == call[c] IN
    /\ f # Idle /\ ~MoreLabels(f)
    /\ info' = [f.data EXCEPT !.class = "ENUMERATED", !.labels = f.labels]
    /\ call' = [call EXCEPT ![c] = Idle]
    /\ UNCHANGED <<elems, connected, locked, written, entries>>

\* The card object is finalized, and its descriptor closed.  Another one may
\* take its place.
Finalize(c) ==
    /\ call[c] = Idle
    /\ elems' = [n \in Numids |-> IF elems[n].owner = c
                                  THEN [elems[n] EXCEPT !.owner = NoCard] ELSE elems[n]]
    /\ locked' = [locked EXCEPT ![c] = {}]
    /\ UNCHANGED <<connected, info, call, written, entries>>

\* The card is unplugged, or its driver unbound.
Disconnect ==
    /\ connected
    /\ connected' = FALSE
    /\ UNCHANGED <<elems, written, cardVars>>

Next ==
    \/ \E c \in Cards :
          \/ \E id \in Ids : \E n \in Find(id) :
                \/ \E lock \in BOOLEAN : lock_elem(c, id, n, lock)
                \/ write_elem_value(c, id, n)
                \/ write_elem_tlv(c, id, n)
                \/ remove_elems(c, id, n)
                \/ get_elem_info(c, id, n)
                \/ \E spec \in Specs, count \in 1..MaxCount : replace_elems(c, id, n, spec, count)
          \/ \E spec \in Specs, count \in 1..MaxCount, name \in Names :
                add_elems(c, name, spec, count)
          \/ ParseEnumName(c)
          \/ InfoDone(c)
          \/ Finalize(c)
    \/ Disconnect

Spec == Init /\ [][Next]_vars
----------------------------------------------------------------------------
(***************************************************************************)
(* "Lock/Unlock indicated element not to be written by the other           *)
(* processes": from the moment that a card was told to have locked it      *)
(* until it unlocks or removes it or is finalized, no other card changes   *)
(* the value of the element or its TLV data.                               *)
(***************************************************************************)
LockExcludes ==
    [][written' # written =>
          \A c \in Cards : written'.numid \in locked[c] => written'.card = c]_vars

(***************************************************************************)
(* "Returns the list of their identifier": what add_elems and              *)
(* replace_elems answered points to elements that the call made, each by   *)
(* its numid and by its name and index, as long as they are there.         *)
(***************************************************************************)
EntriesPoint ==
    \A e \in entries :
        /\ e.numid \in Numids
        /\ elems[e.numid].name = e.name /\ elems[e.numid].index = e.index

(***************************************************************************)
(* The information of an enumerated element, put together of several       *)
(* ioctls, is that of one element: its labels are all the labels of it, in *)
(* order, and its class is the one of its type, also when other cards      *)
(* replace the element meanwhile.                                          *)
(***************************************************************************)
InfoOfOneElem ==
    /\ info.class = info.type
    /\ info.type = "ENUMERATED" =>
          /\ Len(info.labels) = info.items
          /\ \A i \in 1..info.items : info.labels[i] = Label(info.labels[1].of, i - 1)

(***************************************************************************)
(* In every state, whatever a card asks for, the error that it gets means  *)
(* what ALSACtlCardError documents: "in disconnect state", "not found in   *)
(* the card", "owned by the other process" (for lock_elem: by any one) and *)
(* "not supported by the element", which is also told of a write to an     *)
(* element that another one owns; and an element that another owns, or     *)
(* that is not there, is told as such, but for a TLV operation by name and *)
(* for an element that is removed while its labels are read.               *)
(***************************************************************************)
ErrorTells ==
    /\ \A name \in Names, count \in 1..MaxCount : \A errno \in AddOutcomes(name, count) :
          AddError(errno) = "ELEM_EXIST" => \E n \in Alive : elems[n].name = name
    /\ \A c \in Cards, op \in Ops, id \in Ids : \A errno \in Outcomes(c, op, id) :
           LET error == ErrorOf(op, errno)
               owned == \E n \in Find(id) : \E m \in Control(n) :
                           IF op = "lock" THEN elems[m].owner # NoCard ELSE OwnedByOther(c, m)
           IN  /\ error = "DISCONNECTED" <=> ~connected
               /\ error = "ELEM_NOT_FOUND" => Find(id) = {}
               /\ error = "ELEM_OWNED" => owned
               /\ error = "ELEM_NOT_SUPPORTED" =>
                     \E n \in Find(id) : elems[n].access # {"READ", "WRITE"} \/ owned
               /\ connected /\ Find(id) = {} /\ id \in 1..MaxNumid /\ op # "label" =>
                     error = "ELEM_NOT_FOUND"
               /\ error # "ELEM_EXIST"
               /\ connected /\ id \in Alive /\ op \in {"lock", "write_tlv", "command_tlv"} =>
                     (OwnedByOther(c, id) => error = "ELEM_OWNED")
=============================================================================
