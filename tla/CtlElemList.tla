---------------------------- MODULE CtlElemList ----------------------------
(***************************************************************************)
(* alsactl_card_get_elem_id_list() (src/ctl/card.c): one ioctl asks for    *)
(* the number of elements, an array of that size is allocated, and further *)
(* ioctls fill it page by page, while other processes add and remove       *)
(* elements.  Each ioctl is atomic in the kernel, and answers the count of *)
(* its own time.                                                           *)
(***************************************************************************)
EXTENDS Naturals, Sequences

CONSTANTS PageSize,    \* 1000 in the code
          MaxElems,    \* elements that ever exist, numbered in the order added
          InitElems,   \* elements at the start
          MaxCalls     \* bound on the calls

ASSUME ElemListAssumption ==
    /\ PageSize \in Nat \ {0} /\ MaxElems \in Nat /\ MaxCalls \in Nat
    /\ InitElems \in 0..MaxElems

VARIABLES kelems,      \* the elements of the card, in the kernel's order
          added,       \* how many were ever added
          present,     \* the sound card is still there
          pc,          \* "idle", "count", "page", "deliver"
          count, offset, \* list->count and list->offset
          room,        \* ids the array has room for; 0: none is allocated
          ids,         \* ids written to the array
          entries,     \* the list handed to the caller by the last call
          stayed,      \* elements that were there all through the call
          changes,     \* what happened to the elements during the call
          calls

listVars == <<kelems, added, present, pc, count, offset, room, ids, entries,
          stayed, changes, calls>>
callVars == <<pc, count, offset, room, ids, entries, calls>>
Elems == {kelems[i] : i \in 1..Len(kelems)}
Lesser(m, n) == IF m < n THEN m ELSE n

ListInit ==
    /\ kelems = [i \in 1..InitElems |-> i]
    /\ added = InitElems
    /\ present = TRUE
    /\ pc = "idle" /\ count = 0 /\ offset = 0 /\ room = 0 /\ ids = <<>>
    /\ entries = <<>>
    /\ stayed = {} /\ changes = {}
    /\ calls = 0

\* Another process adds an element, at the end of the kernel's list.
AddElem ==
    /\ present /\ added < MaxElems
    /\ added' = added + 1
    /\ kelems' = Append(kelems, added')
    /\ changes' = changes \cup {"added"}
    /\ UNCHANGED <<present, callVars, stayed>>

\* Another process removes one: those behind it move up.
RemoveElem(i) ==
    /\ present
    /\ kelems' = SubSeq(kelems, 1, i - 1) \o SubSeq(kelems, i + 1, Len(kelems))
    /\ stayed' = stayed \ {kelems[i]}
    /\ changes' = changes \cup {"removed"}
    /\ UNCHANGED <<added, present, callVars>>

ListDisconnect ==
    /\ present
    /\ present' = FALSE
    /\ UNCHANGED <<kelems, added, callVars, stayed, changes>>

\* The caller enters the function.
Call ==
    /\ pc = "idle" /\ calls < MaxCalls
    /\ pc' = "count"
    /\ calls' = calls + 1
    /\ stayed' = Elems /\ changes' = {}
    /\ UNCHANGED <<kelems, added, present, count, offset, room, ids, entries>>

\* The call returns FALSE with an error.
Fail ==
    /\ pc' = "idle"
    /\ entries' = <<>>
    /\ UNCHANGED <<kelems, added, present, calls, stayed, changes>>

\* Mutant of RoomFor: one id short.
RoomForLess(n) == n - 1

\* g_malloc_n(list->count, sizeof(*ids)).
RoomFor(n) == n

(***************************************************************************)
(* The first ioctl of allocate_elem_ids(), on a zeroed list: only the      *)
(* count is asked for.  With no element nothing is allocated.              *)
(***************************************************************************)
GetCount ==
    /\ pc = "count"
    /\ \/ /\ present
          /\ count' = Len(kelems)
          /\ offset' = 0
          /\ room' = IF count' = 0 THEN 0 ELSE RoomFor(count')
          /\ ids' = <<>>
          /\ pc' = IF count' = 0 THEN "deliver" ELSE "page"
          /\ UNCHANGED <<kelems, added, present, entries, calls, stayed, changes>>
       \/ ~present /\ Fail /\ UNCHANGED <<count, offset, room, ids>>

\* list->space = MIN(list->count - list->offset, 1000).
Space == Lesser(count - offset, PageSize)

\* list->offset += list->space.
NextOffset == offset + Space

\* Mutant of MorePages: only as long as full pages are left.
MorePagesFull == offset + PageSize < count

\* The condition of the loop: list->offset < list->count.
MorePages == offset < count

\* free(ids).
FreeIds == room' = 0

(***************************************************************************)
(* One turn of the loop of allocate_elem_ids().  The ioctl writes as many  *)
(* of the ids from offset on as there are and as space asks for, and       *)
(* overwrites count.  When it fails the array is freed.                    *)
(***************************************************************************)
GetPage ==
    /\ pc = "page" /\ MorePages
    /\ \/ /\ present
          /\ LET last == Lesser(offset + Space, Len(kelems)) IN
                ids' = SubSeq(ids, 1, offset) \o SubSeq(kelems, offset + 1, last)
          /\ count' = Len(kelems)
          /\ offset' = NextOffset
          /\ UNCHANGED <<kelems, added, present, pc, room, entries, calls, stayed, changes>>
       \/ /\ ~present
          /\ FreeIds
          /\ Fail
          /\ UNCHANGED <<count, offset, ids>>

\* The loop ends; list->space = list->count.
PagesDone ==
    /\ pc = "page" /\ ~MorePages
    /\ pc' = "deliver"
    /\ UNCHANGED <<kelems, added, present, count, offset, room, ids, entries, calls, stayed, changes>>

(***************************************************************************)
(* alsactl_card_get_elem_id_list() copies list.count ids of the array into *)
(* the list of the caller, and deallocates the array.                      *)
(***************************************************************************)
Deliver ==
    /\ pc = "deliver"
    /\ entries' = SubSeq(ids, 1, count)
    /\ FreeIds
    /\ pc' = "idle"
    /\ UNCHANGED <<kelems, added, present, count, offset, ids, calls, stayed, changes>>

ListNext ==
    \/ AddElem
    \/ \E i \in 1..Len(kelems) : RemoveElem(i)
    \/ ListDisconnect
    \/ Call
    \/ GetCount
    \/ GetPage
    \/ PagesDone
    \/ Deliver

ListSpec == ListInit /\ [][ListNext]_listVars
----------------------------------------------------------------------------
ListTypeOK ==
    /\ kelems \in Seq(1..MaxElems) /\ added \in 0..MaxElems
    /\ present \in BOOLEAN
    /\ pc \in {"idle", "count", "page", "deliver"}
    /\ count \in Nat /\ offset \in Nat /\ room \in Nat
    /\ ids \in Seq(1..MaxElems) /\ entries \in Seq(1..MaxElems)
    /\ stayed \subseteq 1..MaxElems /\ changes \subseteq {"added", "removed"}
    /\ calls \in 0..MaxCalls

(***************************************************************************)
(* "Allocate spaces for these elements": the ids that the ioctls write     *)
(* have room in the array, in every page.                                  *)
(***************************************************************************)
InBounds == pc \in {"page", "deliver"} => Len(ids) <= room

\* They have, as long as no other process adds an element during the call,
\* however many are removed.
InBoundsUnlessAdded == "added" \notin changes => InBounds

\* Every id that is handed to the caller was written by an ioctl of this
\* call, also when the number of elements changes from page to page.
EntriesWritten == pc = "deliver" => count <= Len(ids)

(***************************************************************************)
(* "Generate a list of ElemId for ALSA control character device associated *)
(* to the sound card": an element that is there all through the call is in *)
(* the list, unless the removal of another one moves it between the pages. *)
(***************************************************************************)
ListComplete ==
    (pc = "deliver" /\ "removed" \notin changes) =>
        \A e \in stayed : \E i \in 1..Len(ids) : i <= count /\ ids[i] = e
============================================================================
