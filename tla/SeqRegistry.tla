----------------------------- MODULE SeqRegistry -----------------------------
(***************************************************************************)
(* The sequencer's clients, ports, queues and subscriptions: a user client *)
(* (src/seq/user-client.c) makes and removes them while threads of one     *)
(* process ask for lists of them (src/seq/query.c).                        *)
(*                                                                         *)
(* A query opens the device for itself, which makes it a client as well,   *)
(* counts, enumerates with an ioctl for each entry, and closes.  External: *)
(* the kernel gives the lowest free number to a descriptor, a client, a    *)
(* port or a queue; client 0 is the sequencer itself.                      *)
(***************************************************************************)
EXTENDS Integers, Sequences, FiniteSets, FiniteSetsExt

CONSTANTS Queries,       \* threads that call the functions of query.c
          Asks,          \* the kinds of list that each of them asks for
          None, User,
          MaxClient,     \* bound on the numbers of clients
          MaxPort,       \* bound on the numbers of ports of the user client
          MaxQueue,      \* bound on the numbers of queues
          MaxSubs,       \* bound on the subscriptions of a port
          MaxMade        \* bound on ports, queues and subscriptions together

ASSUME RegistryAssumption ==
    /\ IsFiniteSet(Queries) /\ None \notin Queries /\ User \notin Queries \cup {None}
    /\ Asks \in [Queries -> SUBSET {"clients", "ports", "queues", "subs", "info"}]
    /\ MaxClient \in Nat /\ MaxPort \in Nat /\ MaxQueue \in Nat /\ MaxSubs \in Nat
    /\ MaxMade \in Nat

VARIABLES clients,     \* who has each number: None, a query's descriptor, User
          ports, queues, subs,   \* numbers in use, and count of subscriptions
          fds,         \* the client number behind each descriptor, or -1
          query,       \* the call under way, of each thread
          devnode,     \* the device node can be found
          stolen       \* a descriptor of another query was closed

registry == <<clients, ports, queues, subs>>
vars == <<registry, fds, query, devnode, stolen>>

ClientIds == 0..MaxClient
Fds == 0..Cardinality(Queries) - 1
Used == {i \in ClientIds : clients[i] # None}
Lowest(S, max) == CHOOSE i \in 0..max : i \notin S /\ \A j \in 0..i - 1 : j \in S
CanMake == Cardinality(ports) + Cardinality(queues) + subs < MaxMade
HasUser == \E i \in ClientIds : clients[i] = User

\* The numbers that a list is about.
Numbers(kind) ==
    CASE kind = "clients" -> Used [] kind = "ports" -> ports
      [] kind = "queues" -> queues [] OTHER -> {}

Idle == [pc |-> "idle", kind |-> "none", fd |-> -1, my_id |-> -1, count |-> 0, calls |-> 0, last |-> -1, list |-> <<>>,
         result |-> FALSE, told |-> -1, came |-> FALSE, went |-> FALSE]

Init ==
    /\ clients = [i \in ClientIds |-> IF i = 0 THEN "system" ELSE None]
    /\ ports = {} /\ queues = {} /\ subs = 0
    /\ fds = [n \in Fds |-> -1]
    /\ query = [q \in Queries |-> Idle]
    /\ devnode \in BOOLEAN
    /\ stolen = FALSE

\* History: whether numbers came or went during a call.
Noted(kind, now, f) ==
    [q \in Queries |->
        IF f[q].kind = kind /\ (f[q].pc = "loop" \/ (f[q].pc # "count" /\ f[q].result))
        THEN [f[q] EXCEPT !.came = @ \/ now \ Numbers(kind) # {},
                          !.went = @ \/ Numbers(kind) \ now # {}]
        ELSE f[q]]
----------------------------------------------------------------------------
\* The user client is opened, and closed with all that it made.
OpenUser ==
    /\ devnode /\ ~HasUser /\ Used # ClientIds
    /\ LET i == Lowest(Used, MaxClient) IN
          /\ clients' = [clients EXCEPT ![i] = User]
          /\ query' = Noted("clients", Used \cup {i}, query)
    /\ UNCHANGED <<ports, queues, subs, fds, devnode, stolen>>
CloseUser ==
    /\ HasUser
    /\ LET i == CHOOSE j \in ClientIds : clients[j] = User IN
          /\ clients' = [clients EXCEPT ![i] = None]
          /\ query' = Noted("clients", Used \ {i}, Noted("ports", {}, Noted("queues", {}, query)))
    /\ ports' = {} /\ queues' = {} /\ subs' = 0
    /\ UNCHANGED <<fds, devnode, stolen>>

SetPorts(S) ==
    /\ ports' = S
    /\ query' = Noted("ports", S, query)
    /\ UNCHANGED <<clients, queues, fds, devnode, stolen>>

\* alsaseq_user_client_create_port(), with an information that has never been
\* given to create_port_at().
create_port ==
    /\ HasUser /\ ports # 0..MaxPort /\ CanMake
    /\ SetPorts(ports \cup {Lowest(ports, MaxPort)})
    /\ UNCHANGED subs

\* alsaseq_user_client_create_port_at(), and create_port() with an information
\* that was given to it before: SNDRV_SEQ_PORT_FLG_GIVEN_PORT stays set.
create_port_at(p) ==
    /\ HasUser /\ p \notin ports /\ CanMake
    /\ SetPorts(ports \cup {p})
    /\ UNCHANGED subs

\* alsaseq_user_client_delete_port().  Subscriptions are those of port 0.
delete_port(p) ==
    /\ HasUser /\ p \in ports
    /\ SetPorts(ports \ {p})
    /\ subs' = IF p = 0 THEN 0 ELSE subs

\* alsaseq_user_client_operate_subscription()
operate_subscription(establish) ==
    /\ HasUser /\ 0 \in ports
    /\ IF establish THEN subs < MaxSubs /\ CanMake /\ subs' = subs + 1
       ELSE subs > 0 /\ subs' = subs - 1
    /\ UNCHANGED <<clients, ports, queues, fds, query, devnode, stolen>>

SetQueues(S) ==
    /\ queues' = S
    /\ query' = Noted("queues", S, query)
    /\ UNCHANGED <<clients, ports, subs, fds, devnode, stolen>>

\* alsaseq_user_client_create_queue(), alsaseq_user_client_delete_queue()
create_queue ==
    /\ HasUser /\ queues # 0..MaxQueue /\ CanMake
    /\ SetQueues(queues \cup {Lowest(queues, MaxQueue)})
delete_queue(i) == HasUser /\ i \in queues /\ SetQueues(queues \ {i})
----------------------------------------------------------------------------
\* Query q goes on with the fields of f.
Goes(q, f) == query' = [query EXCEPT ![q] = f]

(***************************************************************************)
(* open_fd(): open(2) succeeds, and the query becomes a client.  When it   *)
(* fails, so does the query.  When the devnode cannot be found, -1 is      *)
(* returned, which is true, and the descriptor is undefined.  Bound: after *)
(* a query has closed the descriptor of another one no more are begun.     *)
(***************************************************************************)
open_fd(q, kind) ==
    LET f == [Idle EXCEPT !.pc = "count", !.kind = kind] IN
    /\ query[q] = Idle /\ ~stolen
    /\ \/ /\ devnode /\ Used # ClientIds /\ \E n \in Fds : fds[n] = -1
          /\ LET n == CHOOSE m \in Fds : fds[m] = -1 /\ \A k \in 0..m - 1 : fds[k] # -1
                 i == Lowest(Used, MaxClient) IN
                /\ fds' = [fds EXCEPT ![n] = i]
                /\ clients' = [clients EXCEPT ![i] = q]
                /\ query' = [Noted("clients", Used \cup {i}, query) EXCEPT ![q] = [f EXCEPT !.fd = n]]
       \/ /\ ~devnode
          /\ \E n \in Fds : Goes(q, [f EXCEPT !.fd = n])
          /\ UNCHANGED <<fds, clients>>
    /\ UNCHANGED <<ports, queues, subs, devnode, stolen>>

Valid(f) == fds[f.fd] # -1

\* The end of the call, with a result.
Ends(f, result) == [Idle EXCEPT !.pc = "close", !.kind = f.kind, !.fd = f.fd, !.result = result]
Succeeds(f, told) ==
    [Ends(f, TRUE) EXCEPT !.my_id = f.my_id, !.told = told, !.list = f.list, !.came = f.came, !.went = f.went]

\* Mutant of ClientCount: the query counts itself.
ClientCountAll == Cardinality(Used)

\* alsaseq_get_client_id_list(): count of the others.
ClientCount == Cardinality(Used) - 1

(***************************************************************************)
(* The ioctls that come before the loops.  told is *entry_count, which     *)
(* get_queue_id_list() does not set when there is no queue.                *)
(***************************************************************************)
Count(q) ==
    LET f == query[q]
        Loop(n) == [f EXCEPT !.pc = "loop", !.count = n] IN
    /\ f.pc = "count" /\ f.kind # "info"
    /\ Goes(q, IF ~Valid(f) THEN Ends(f, FALSE)
               ELSE CASE f.kind = "clients" -> IF ClientCount = 0 THEN Succeeds(f, 0)
                                           ELSE [Loop(ClientCount) EXCEPT !.my_id = fds[f.fd]]
                      [] f.kind = "ports" -> IF HasUser THEN Loop(Cardinality(ports)) ELSE Ends(f, FALSE)
                      [] f.kind = "queues" -> IF queues = {} THEN Succeeds(f, -1) ELSE Loop(Cardinality(queues))
                      [] f.kind = "subs" -> IF subs = 0 THEN Ends(f, FALSE) ELSE Loop(subs))
    /\ UNCHANGED <<registry, fds, devnode, stolen>>

\* What the functions with a single ioctl ask for is there: the sequencer, the
\* user client, its port 0, its memory pool, queue 0.
get_system_info == TRUE
get_client_info == HasUser
get_port_info == 0 \in ports
get_client_pool == HasUser
get_queue_info_by_id == 0 \in queues
get_queue_info_by_name == 0 \in queues
get_queue_status == 0 \in queues

Info(q) ==
    LET f == query[q] IN
    /\ f.pc = "count" /\ f.kind = "info"
    /\ \E there \in {get_system_info, get_client_info, get_port_info, get_client_pool,
                     get_queue_info_by_id, get_queue_info_by_name, get_queue_status} :
          Goes(q, Ends(f, Valid(f) /\ there))
    /\ UNCHANGED <<registry, fds, devnode, stolen>>

\* The numbers in S that are larger than the last one; the kernel finds the least.
After(S, last) == {i \in S : i > last}

\* alsaseq_get_client_id_list(): the client of this query is left out.
NotMyself(f, i) == i # f.my_id

\* Mutant of MoreEntries: the loop ends when the kernel has no more.
MoreEntriesAlways(f) == TRUE

MoreEntries(f) == Len(f.list) < f.count

\* One turn of a loop: the next number is found, and listed if it counts.
Entry(q, i, counts) ==
    Goes(q, [query[q] EXCEPT !.last = i, !.calls = @ + 1, !.list = IF counts THEN Append(@, i) ELSE @])

NextClient(q) ==
    LET f == query[q] IN
    /\ f.pc = "loop" /\ f.kind = "clients" /\ MoreEntries(f)
    /\ IF ~Valid(f) THEN Goes(q, Ends(f, FALSE))
       ELSE IF After(Used, f.last) = {} THEN Goes(q, Succeeds(f, f.count))
       ELSE LET i == Min(After(Used, f.last)) IN Entry(q, i, NotMyself(f, i))
    /\ UNCHANGED <<registry, fds, devnode, stolen>>

\* alsaseq_get_port_id_list().  External: ENXIO when the client is gone.
NextPort(q) ==
    LET f == query[q] IN
    /\ f.pc = "loop" /\ f.kind = "ports" /\ MoreEntries(f)
    /\ IF ~Valid(f) \/ ~HasUser THEN Goes(q, [Ends(f, FALSE) EXCEPT !.pc = "reclose"])
       ELSE IF After(ports, f.last) = {} THEN Goes(q, [Succeeds(f, f.count) EXCEPT !.pc = "reclose"])
       ELSE Entry(q, Min(After(ports, f.last)), TRUE)
    /\ UNCHANGED <<registry, fds, devnode, stolen>>

\* alsaseq_get_queue_id_list(): every number is tried, failures are skipped.
NextQueue(q) ==
    LET f == query[q]
        i == f.last + 1 IN
    /\ f.pc = "loop" /\ f.kind = "queues" /\ MoreEntries(f)
    /\ Goes(q, IF i > MaxQueue THEN Succeeds(f, f.count)
               ELSE [f EXCEPT !.last = i, !.calls = @ + 1,
                              !.list = IF Valid(f) /\ i \in queues THEN Append(@, i) ELSE @])
    /\ UNCHANGED <<registry, fds, devnode, stolen>>

(***************************************************************************)
(* alsaseq_get_subscription_list(): an entry is made of the last answer,   *)
(* then the next one is asked for.  External: ENOENT when there is none,   *)
(* as after the last one; the list is freed for that.                      *)
(***************************************************************************)
NextSub(q) ==
    LET f == query[q]
        index == Len(f.list) + 1 IN
    /\ f.pc = "loop" /\ f.kind = "subs" /\ MoreEntries(f)
    /\ Goes(q, IF Valid(f) /\ index < subs THEN [f EXCEPT !.calls = @ + 1, !.list = Append(@, index - 1)]
               ELSE Ends(f, FALSE))
    /\ UNCHANGED <<registry, fds, devnode, stolen>>

\* A loop is over with a full list; the result of get_subscription_list() is
\* then undefined.
LoopDone(q) ==
    LET f == query[q] IN
    /\ f.pc = "loop" /\ ~MoreEntries(f)
    /\ IF f.kind = "subs" THEN \E result \in BOOLEAN : Goes(q, Ends(f, result))
       ELSE Goes(q, [Succeeds(f, f.count) EXCEPT !.pc = IF f.kind = "ports" THEN "reclose" ELSE "close"])
    /\ UNCHANGED <<registry, fds, devnode, stolen>>

\* External: close(2), which is the end of the client behind the descriptor.
CloseFd(q, next) ==
    LET f == query[q]
        i == fds[f.fd] IN
    /\ fds' = [fds EXCEPT ![f.fd] = -1]
    /\ clients' = IF i = -1 THEN clients ELSE [clients EXCEPT ![i] = None]
    /\ query' = [Noted("clients", Used \ {i}, query) EXCEPT ![q] = next]
    /\ stolen' = (stolen \/ (i # -1 /\ clients[i] # q))
    /\ UNCHANGED <<ports, queues, subs, devnode>>

\* close(fd) behind the loop of get_port_id_list(), which is not the last one.
ClosePortList(q) ==
    /\ query[q].pc = "reclose"
    /\ CloseFd(q, [query[q] EXCEPT !.pc = "close"])

\* Mutant of Close: the descriptor is left open for a failure.
CloseOnSuccess(q) ==
    /\ query[q].pc = "close"
    /\ \/ query[q].result /\ CloseFd(q, Idle)
       \/ ~query[q].result /\ Goes(q, Idle) /\ UNCHANGED <<registry, fds, devnode, stolen>>

\* close(fd) at the end of each function, which returns.
Close(q) ==
    /\ query[q].pc = "close"
    /\ CloseFd(q, Idle)

Progress(q) ==
    \/ Count(q) \/ Info(q) \/ NextClient(q) \/ NextPort(q) \/ NextQueue(q) \/ NextSub(q)
    \/ LoopDone(q) \/ ClosePortList(q) \/ Close(q)

Next ==
    \/ OpenUser \/ CloseUser \/ create_port \/ create_queue
    \/ \E p \in 0..MaxPort : create_port_at(p) \/ delete_port(p)
    \/ \E establish \in BOOLEAN : operate_subscription(establish)
    \/ \E i \in 0..MaxQueue : delete_queue(i)
    \/ \E q \in Queries : \/ \E kind \in Asks[q] : open_fd(q, kind)
                          \/ Progress(q)

Spec == Init /\ [][Next]_vars
----------------------------------------------------------------------------
\* A list is about to be returned.
Answered(f) == f.pc = "close" /\ f.result /\ f.told > 0

(***************************************************************************)
(* "g_warn_if_fail(index == count)" and "Get the list of ...": no number   *)
(* is listed twice, nor more than there is room for.  When no number went  *)
(* away during a call, the list is full, and when none came either, it has *)
(* all of them but for the client of the query itself.                     *)
(***************************************************************************)
ListsExact ==
    \A q \in Queries : LET f == query[q] IN
        Answered(f) /\ ~stolen =>
            /\ Len(f.list) <= f.told
            /\ \A i, j \in 1..Len(f.list) : i < j => f.list[i] < f.list[j]
            /\ ~f.went => Len(f.list) = f.told
            /\ ~f.went /\ ~f.came => Numbers(f.kind) \ {f.list[i] : i \in 1..f.told} =
                                         IF f.kind = "clients" THEN {f.my_id} ELSE {}

(***************************************************************************)
(* A query has its descriptor to itself from open(2) to its last step, and *)
(* leaves none behind.  Two exceptions: get_port_id_list() closes twice,   *)
(* so that it may close the descriptor that another thread was given       *)
(* meanwhile; and the descriptor is undefined if no devnode was found.     *)
(***************************************************************************)
OwnDescriptor ==
    ~stolen /\ devnode =>
        /\ \A q \in Queries : query[q].pc \in {"count", "loop", "reclose"} =>
              fds[query[q].fd] # -1 /\ clients[fds[query[q].fd]] = q
        /\ \A n \in Fds : fds[n] # -1 =>
              \E q \in Queries : query[q].fd = n /\ query[q].pc # "idle"

(***************************************************************************)
(* A list costs at most one ioctl for each entry that was counted (one     *)
(* more for the client of the query), or one for each number of a queue,   *)
(* however fast clients, ports and queues come and go: the loops end.      *)
(***************************************************************************)
CallsBounded ==
    \A q \in Queries : LET f == query[q] IN
        f.calls <= CASE f.kind = "queues" -> MaxQueue + 1
                     [] f.kind = "clients" -> f.count + 1
                     [] OTHER -> f.count
=============================================================================
