------------------------- MODULE SeqRegistryProofs -------------------------
(***************************************************************************)
(* Proofs about the functions of query.c, for any number of threads that   *)
(* call them and of clients, ports, queues and subscriptions that come and *)
(* go.                                                                     *)
(***************************************************************************)
EXTENDS SeqRegistry, FiniteSetTheorems, SequenceTheorems, TLAPS

Kinds == {"none", "clients", "ports", "queues", "subs", "info"}
Query == [pc : {"idle", "count", "loop", "reclose", "close"}, kind : Kinds, fd : Int,
          my_id : Int, count : Int, calls : Int, last : Int, list : Seq(Int),
          result : BOOLEAN, told : Int, came : BOOLEAN, went : BOOLEAN]

TypeOK ==
    /\ clients \in [ClientIds -> Queries \cup {None, User, "system"}]
    /\ ports \subseteq 0..MaxPort /\ queues \subseteq 0..MaxQueue /\ subs \in Nat
    /\ fds \in [Fds -> ClientIds \cup {-1}]
    /\ query \in [Queries -> Query]
    /\ devnode \in BOOLEAN /\ stolen \in BOOLEAN

(***************************************************************************)
(* Each descriptor has a client of its own behind it.  The descriptors and *)
(* the queries that opened them are paired, until a query closes the       *)
(* descriptor of another one.  Without a devnode there are none.           *)
(***************************************************************************)
Own ==
    /\ \A q \in Queries : query[q].pc # "idle" => query[q].fd \in Fds
    /\ \A n \in Fds : fds[n] # -1 =>
          /\ devnode /\ clients[fds[n]] \in Queries
          /\ \A m \in Fds : fds[m] = fds[n] => m = n
    /\ \A q \in Queries : query[q].pc = "loop" => devnode
    /\ ~stolen /\ devnode =>
        /\ \A q \in Queries : query[q].pc \in {"count", "loop", "reclose"} =>
              fds[query[q].fd] # -1 /\ clients[fds[query[q].fd]] = q
        /\ \A n \in Fds : fds[n] # -1 =>
              LET q == clients[fds[n]] IN
              q \in Queries /\ query[q].fd = n /\ query[q].pc # "idle"

Passed(last, my_id) == IF last >= my_id THEN 1 ELSE 0

\* A turn of a loop makes an entry, but for the client of the query, which is
\* passed once.  It is the list of ports whose descriptor is closed twice.
CallsSound(f) ==
    /\ f.pc = "reclose" => f.kind = "ports"
    /\ f.pc = "count" => f.kind # "none" /\ f.list = <<>> /\ f.last = -1
    /\ f.pc # "loop" => f.calls = 0 /\ f.count = 0
    /\ f.pc = "loop" =>
          /\ f.kind \in {"clients", "ports", "queues", "subs"} /\ Len(f.list) <= f.count
          /\ f.kind = "clients" => f.calls <= Len(f.list) + Passed(f.last, f.my_id)
          /\ f.kind = "queues" => f.last \in -1..MaxQueue /\ f.calls = f.last + 1
          /\ f.kind \notin {"clients", "queues"} => f.calls = Len(f.list)

Rng(s) == {s[i] : i \in 1..Len(s)}
Increasing(s) == \A i, j \in 1..Len(s) : i < j => s[i] < s[j]
Mine(f) == IF f.kind = "clients" THEN {f.my_id} ELSE {}

(***************************************************************************)
(* The state of a loop over the numbers N.  As long as none of them went   *)
(* away, those that were counted are still there, and the ones passed are  *)
(* in the list; when none came either, they are all there are.             *)
(***************************************************************************)
Counted(f, N, orig) ==
    /\ IsFiniteSet(orig) /\ Cardinality(orig) = f.count
    /\ orig \cap Mine(f) = {}
    /\ \A x \in orig : x <= f.last => x \in Rng(f.list)
    /\ ~f.came => orig = N \ Mine(f)
LoopSound(f, N) ==
    /\ Increasing(f.list)
    /\ \A x \in Rng(f.list) : x <= f.last /\ x \notin Mine(f)
    /\ ~f.went => Rng(f.list) \subseteq N /\ Mine(f) \subseteq N /\ \E orig \in SUBSET N : Counted(f, N, orig)
ListDone(f, N) ==
    /\ Len(f.list) <= f.told /\ Increasing(f.list)
    /\ ~f.went => Len(f.list) = f.told
    /\ ~f.went /\ ~f.came => N \ Rng(f.list) = Mine(f)
Listing(f) == f.pc = "loop" /\ f.kind \in {"clients", "ports", "queues"}
Listed(f) == f.pc \in {"reclose", "close"} /\ f.result /\ f.told > 0
ListSound(f, N) == (Listing(f) => LoopSound(f, N)) /\ (Listed(f) => ListDone(f, N))

RegInv ==
    /\ TypeOK /\ Own
    /\ \A q \in Queries : CallsSound(query[q])
    /\ ~stolen => \A q \in Queries : ListSound(query[q], Numbers(query[q].kind))
----------------------------------------------------------------------------
\* A set of natural numbers that is not empty has a least member.
LEMMA Least ==
    ASSUME NEW T \in SUBSET Nat, T # {}
    PROVE  \E x \in T : \A y \in T : x <= y
<1> DEFINE R == {ss \in Nat \X Nat : ss[1] < ss[2]}
<1>1. IsWellFoundedOn(R, Nat)
  BY NatLessThanWellFounded, Zenon DEF OpToRel
<1>2. R = {ss \in Nat \X Nat : ss[1] < ss[2]}
  OBVIOUS
<1> HIDE DEF R
<1>3. PICK x \in T : \A y \in T : ~(<<y, x>> \in R)
  BY <1>1, WFMin
<1>4. ASSUME NEW y \in T PROVE x <= y
  <2>1. ~(y < x)
    BY <1>2, <1>3
  <2>2. QED
    BY <2>1
<1>5. QED
  BY <1>3, <1>4

\* The kernel has a number to give as long as one is free.
LEMMA LowestIsFree ==
    ASSUME NEW max \in Nat, NEW S \in SUBSET (0..max), S # 0..max
    PROVE  Lowest(S, max) \in 0..max /\ Lowest(S, max) \notin S
<1> DEFINE T == (0..max) \ S
<1>1. PICK x \in T : \A y \in T : x <= y
  <2>1. T \in SUBSET Nat
    OBVIOUS
  <2>2. T # {}
    <3>1. \E x \in 0..max : x \notin S
      BY Zenon
    <3>2. QED
      BY <3>1
  <2>3. QED
    BY <2>1, <2>2, Least
<1>2. ASSUME NEW j \in 0..x - 1 PROVE j \in S
  <2>1. j \in 0..max /\ ~(x <= j)
    BY <1>1
  <2>2. QED
    BY <1>1, <2>1
<1>3. \E i \in 0..max : i \notin S /\ \A j \in 0..i - 1 : j \in S
  BY <1>1, <1>2
<1>4. QED
  BY <1>3 DEF Lowest

\* What the kernel finds next.
LEMMA MinIsLeast ==
    ASSUME NEW S \in SUBSET Nat, S # {}
    PROVE  Min(S) \in S /\ \A y \in S : Min(S) <= y
<1>1. \E x \in S : \A y \in S : x <= y
  BY Least
<1>2. QED
  BY <1>1 DEF Min

LEMMA FdIsFree ==
    ASSUME NEW g \in [Fds -> ClientIds \cup {-1}], \E n \in Fds : g[n] = -1
    PROVE  LET n == CHOOSE m \in Fds : g[m] = -1 /\ \A k \in 0..m - 1 : g[k] # -1 IN
           n \in Fds /\ g[n] = -1
<1> DEFINE T == {n \in Fds : g[n] = -1}
<1>1. Cardinality(Queries) \in Nat
  BY RegistryAssumption, FS_CardinalityType
<1>2. PICK m \in T : \A y \in T : m <= y
  <2>1. T \in SUBSET Nat /\ T # {}
    BY <1>1 DEF Fds
  <2>2. QED
    BY <2>1, Least
<1>3. ASSUME NEW k \in 0..m - 1 PROVE g[k] # -1
  <2>1. k \in Fds /\ ~(m <= k)
    BY <1>1, <1>2 DEF Fds
  <2>2. QED
    BY <1>2, <2>1
<1>4. \E n \in Fds : g[n] = -1 /\ \A k \in 0..n - 1 : g[k] # -1
  BY <1>2, <1>3
<1>5. QED
  BY <1>4
----------------------------------------------------------------------------
\* What another one's step does to a call: it is noted whether numbers came or
\* went, as the numbers N become M.
SameCall(f, g) ==
    /\ g.pc = f.pc /\ g.kind = f.kind /\ g.fd = f.fd /\ g.my_id = f.my_id /\ g.count = f.count
    /\ g.calls = f.calls /\ g.last = f.last /\ g.list = f.list /\ g.result = f.result
    /\ g.told = f.told
Recording(f) == f.pc = "loop" \/ (f.pc # "count" /\ f.result)
Follows(f, g, N, M) ==
    /\ SameCall(f, g)
    /\ Recording(f) /\ ~g.came => ~f.came /\ M \subseteq N
    /\ Recording(f) /\ ~g.went => ~f.went /\ N \subseteq M

LEMMA FollowsItself ==
    ASSUME NEW f \in Query, NEW N
    PROVE  Follows(f, f, N, N)
BY DEF Follows, SameCall

LEMMA CallsFollow ==
    ASSUME NEW f, NEW g, SameCall(f, g), CallsSound(f)
    PROVE  CallsSound(g)
BY DEF SameCall, CallsSound

LEMMA ListsFollow ==
    ASSUME NEW f \in Query, NEW g \in Query, NEW N, NEW M,
           Follows(f, g, N, M), ListSound(f, N)
    PROVE  ListSound(g, M)
<1>1. Mine(g) = Mine(f) /\ SameCall(f, g)
  BY DEF Follows, SameCall, Mine
<1>2. ASSUME Listing(g) PROVE LoopSound(g, M)
  <2>1. LoopSound(f, N) /\ Recording(f)
    BY <1>1, <1>2 DEF ListSound, Listing, SameCall, Recording
  <2>2. Increasing(g.list) /\ \A x \in Rng(g.list) : x <= g.last /\ x \notin Mine(g)
    BY <1>1, <2>1 DEF LoopSound, SameCall
  <2>3. ASSUME ~g.went
        PROVE  Rng(g.list) \subseteq M /\ Mine(g) \subseteq M /\ \E orig \in SUBSET M : Counted(g, M, orig)
    <3>1. ~f.went /\ N \subseteq M
      BY <2>1, <2>3 DEF Follows
    <3>2. Rng(f.list) \subseteq N /\ Mine(f) \subseteq N /\ g.list = f.list
      BY <1>1, <2>1, <3>1 DEF LoopSound, SameCall
    <3>3. PICK orig \in SUBSET N : Counted(f, N, orig)
      BY <2>1, <3>1 DEF LoopSound
    <3>4. ASSUME ~g.came PROVE orig = M \ Mine(g)
      <4>1. ~f.came /\ M = N
        BY <2>1, <3>1, <3>4 DEF Follows
      <4>2. QED
        BY <1>1, <3>3, <4>1 DEF Counted
    <3>5. Counted(g, M, orig)
      BY <1>1, <3>3, <3>4 DEF Counted, SameCall
    <3>6. QED
      BY <1>1, <3>1, <3>2, <3>5
  <2>4. QED
    BY <2>2, <2>3 DEF LoopSound
<1>3. ASSUME Listed(g) PROVE ListDone(g, M)
  <2>1. ListDone(f, N) /\ Recording(f)
    BY <1>1, <1>3 DEF ListSound, Listed, SameCall, Recording
  <2>2. Len(g.list) <= g.told /\ Increasing(g.list)
    BY <1>1, <2>1 DEF ListDone, SameCall
  <2>3. ASSUME ~g.went PROVE Len(g.list) = g.told
    BY <1>1, <2>1, <2>3 DEF ListDone, SameCall, Follows
  <2>4. ASSUME ~g.went, ~g.came PROVE M \ Rng(g.list) = Mine(g)
    <3>1. ~f.went /\ ~f.came /\ M = N
      BY <2>1, <2>4 DEF Follows
    <3>2. QED
      BY <1>1, <2>1, <3>1 DEF ListDone, SameCall
  <2>5. QED
    BY <2>2, <2>3, <2>4 DEF ListDone
<1>4. QED
  BY <1>2, <1>3 DEF ListSound

LEMMA NotedFollows ==
    ASSUME NEW kind \in Kinds, NEW now, NEW F \in [Queries -> Query]
    PROVE  /\ Noted(kind, now, F) \in [Queries -> Query]
           /\ \A q \in Queries :
                 /\ F[q].kind = kind => Follows(F[q], Noted(kind, now, F)[q], Numbers(kind), now)
                 /\ F[q].kind # kind => Noted(kind, now, F)[q] = F[q]
<1> DEFINE came == now \ Numbers(kind) # {}
           went == Numbers(kind) \ now # {}
           G == Noted(kind, now, F)
<1>1. ASSUME NEW q \in Queries
      PROVE  /\ G[q] \in Query
             /\ F[q].kind = kind => Follows(F[q], G[q], Numbers(kind), now)
             /\ F[q].kind # kind => G[q] = F[q]
  <2>1. F[q] \in Query
    OBVIOUS
  <2>2. G[q] = IF F[q].kind = kind /\ Recording(F[q])
               THEN [F[q] EXCEPT !.came = @ \/ came, !.went = @ \/ went] ELSE F[q]
    BY DEF Noted, Recording
  <2>3. came \in BOOLEAN /\ went \in BOOLEAN
    OBVIOUS
  <2>4. (~came => now \subseteq Numbers(kind)) /\ (~went => Numbers(kind) \subseteq now)
    OBVIOUS
  <2> HIDE DEF came, went, G
  <2>5. G[q] \in Query
    BY <2>1, <2>2, <2>3 DEF Query
  <2>6. SameCall(F[q], G[q])
    BY <2>1, <2>2 DEF Query, SameCall
  <2>7. ASSUME F[q].kind = kind, Recording(F[q])
        PROVE  (~G[q].came => ~F[q].came /\ ~came) /\ (~G[q].went => ~F[q].went /\ ~went)
    <3>1. G[q].came = (F[q].came \/ came) /\ G[q].went = (F[q].went \/ went)
      BY <2>1, <2>2, <2>7 DEF Query
    <3>2. QED
      BY <3>1
  <2>8. QED
    BY <2>2, <2>4, <2>5, <2>6, <2>7 DEF Follows
<1>2. G \in [Queries -> Query]
  <2>1. G = [q \in Queries |-> G[q]]
    BY DEF Noted
  <2>2. QED
    BY <1>1, <2>1
<1>3. QED
  BY <1>1, <1>2
----------------------------------------------------------------------------
\* A step leaves a call to itself, or gives it a sound state.
Followed(p) ==
    \A k \in Kinds : query[p].kind = k => Follows(query[p], query'[p], Numbers(k), Numbers(k)')
Sound(p) ==
    /\ CallsSound(query'[p])
    /\ ~stolen' => \A k \in Kinds : query'[p].kind = k => ListSound(query'[p], Numbers(k)')
CallsAndLists ==
    /\ \A q \in Queries : CallsSound(query[q])
    /\ ~stolen => \A q \in Queries : ListSound(query[q], Numbers(query[q].kind))

LEMMA CallsAndListsKept ==
    ASSUME RegInv, query' \in [Queries -> Query], stolen => stolen',
           \A p \in Queries : Followed(p) \/ Sound(p)
    PROVE  CallsAndLists'
<1>1. ASSUME NEW p \in Queries PROVE Sound(p)
  <2>1. CASE Sound(p)
    BY <2>1
  <2>2. CASE Followed(p)
    <3>1. query[p] \in Query /\ query'[p] \in Query /\ CallsSound(query[p])
      BY DEF RegInv, TypeOK
    <3>2. PICK k \in Kinds : query[p].kind = k
      BY <3>1 DEF Query
    <3>3. Follows(query[p], query'[p], Numbers(k), Numbers(k)')
      BY <2>2, <3>2 DEF Followed
    <3>4. SameCall(query[p], query'[p]) /\ query'[p].kind = k
      BY <3>2, <3>3 DEF Follows, SameCall
    <3>5. CallsSound(query'[p])
      BY <3>1, <3>4, CallsFollow
    <3>6. ASSUME ~stolen' PROVE ListSound(query'[p], Numbers(k)')
      <4>1. ListSound(query[p], Numbers(k))
        BY <3>2, <3>6 DEF RegInv
      <4>2. QED
        BY <3>1, <3>3, <4>1, ListsFollow
    <3>7. QED
      BY <3>4, <3>5, <3>6 DEF Sound
  <2>3. QED
    BY <2>1, <2>2
<1>2. ASSUME NEW p \in Queries, ~stolen'
      PROVE  ListSound(query[p], Numbers(query[p].kind))'
  <2>1. PICK k \in Kinds : query'[p].kind = k
    BY DEF Query
  <2>2. ListSound(query'[p], Numbers(k)')
    BY <1>1, <1>2, <2>1 DEF Sound
  <2>3. QED
    BY <2>1, <2>2 DEF Numbers, Used
<1>3. \A p \in Queries : CallsSound(query'[p])
  BY <1>1 DEF Sound
<1>4. QED
  BY <1>2, <1>3 DEF CallsAndLists

\* The user client's steps.
RegistryStep ==
    /\ query' \in [Queries -> Query] /\ \A p \in Queries : Followed(p)
    /\ UNCHANGED <<fds, devnode, stolen>>
    /\ clients' \in [ClientIds -> Queries \cup {None, User, "system"}]
    /\ ports' \subseteq 0..MaxPort /\ queues' \subseteq 0..MaxQueue /\ subs' \in Nat
    /\ \A i \in ClientIds : clients[i] \in Queries => clients'[i] = clients[i]

LEMMA FollowedIsSame ==
    ASSUME NEW p \in Queries, query[p] \in Query, Followed(p)
    PROVE  SameCall(query[p], query'[p])
<1>1. query[p].kind \in Kinds
  BY DEF Query
<1>2. QED
  BY <1>1 DEF Followed, Follows

LEMMA RegistryStepKeeps ==
    ASSUME RegInv, RegistryStep
    PROVE  RegInv'
<1>1. TypeOK' /\ TypeOK /\ Own
  BY DEF RegInv, TypeOK, RegistryStep
<1>2. CallsAndLists'
  BY CallsAndListsKept DEF RegistryStep
<1>3. \A p \in Queries : query'[p].pc = query[p].pc /\ query'[p].fd = query[p].fd
  BY <1>1, FollowedIsSame DEF RegistryStep, SameCall, TypeOK
<1>4. fds' = fds /\ devnode' = devnode /\ stolen' = stolen
  BY DEF RegistryStep
<1>5. \A n \in Fds : fds[n] # -1 /\ clients[fds[n]] \in Queries => clients'[fds[n]] = clients[fds[n]]
  BY <1>1 DEF RegistryStep, TypeOK
<1>6. Own'
  BY <1>1, <1>3, <1>4, <1>5 DEF Own
<1>7. QED
  BY <1>1, <1>2, <1>6 DEF RegInv, CallsAndLists

LEMMA UsedType ==
    ASSUME RegInv
    PROVE  /\ Used \subseteq ClientIds /\ ClientIds \subseteq Nat
           /\ Used # ClientIds =>
                 LET i == Lowest(Used, MaxClient) IN i \in ClientIds /\ i \notin Used /\ clients[i] = None
<1>1. Used \subseteq ClientIds /\ ClientIds \subseteq Nat
  BY RegistryAssumption DEF Used, ClientIds
<1>2. Used # ClientIds => Lowest(Used, MaxClient) \in ClientIds /\ Lowest(Used, MaxClient) \notin Used
  BY <1>1, LowestIsFree, RegistryAssumption DEF ClientIds
<1>3. QED
  BY <1>1, <1>2 DEF Used

LEMMA NotedIsFollowed ==
    ASSUME RegInv, NEW kind \in Kinds, NEW p \in Queries, NEW now, now = Numbers(kind)',
           query'[p] = Noted(kind, now, query)[p],
           \A k \in Kinds : k # kind => Numbers(k)' = Numbers(k)
    PROVE  Followed(p)
<1>1. query \in [Queries -> Query] /\ query[p] \in Query
  BY DEF RegInv, TypeOK
<1>2. /\ query[p].kind = kind => Follows(query[p], query'[p], Numbers(kind), now)
      /\ query[p].kind # kind => query'[p] = query[p]
  BY <1>1, NotedFollows
<1>3. ASSUME NEW k \in Kinds, query[p].kind = k
      PROVE  Follows(query[p], query'[p], Numbers(k), Numbers(k)')
  <2>1. CASE k = kind
    BY <1>2, <1>3, <2>1
  <2>2. CASE k # kind
    <3>1. query'[p] = query[p] /\ Numbers(k)' = Numbers(k)
      BY <1>2, <1>3, <2>2
    <3>2. Follows(query[p], query[p], Numbers(k), Numbers(k))
      BY <1>1, FollowsItself
    <3>3. QED
      BY <3>1, <3>2
  <2>3. QED
    BY <2>1, <2>2
<1>4. QED
  BY <1>3 DEF Followed

LEMMA OpenUserStep ==
    ASSUME RegInv, OpenUser
    PROVE  RegistryStep
<1> DEFINE i == Lowest(Used, MaxClient)
<1>1. i \in ClientIds /\ clients[i] = None /\ TypeOK
  BY UsedType DEF OpenUser, RegInv
<1>2. clients' = [clients EXCEPT ![i] = User] /\ query' = Noted("clients", Used \cup {i}, query)
      /\ UNCHANGED <<ports, queues, subs, fds, devnode, stolen>>
  BY DEF OpenUser
<1> HIDE DEF i
<1>3. Used \cup {i} = Numbers("clients")'
  BY <1>1, <1>2, RegistryAssumption DEF Used, TypeOK, Numbers
<1>4. \A k \in Kinds : k # "clients" => Numbers(k)' = Numbers(k)
  BY <1>2 DEF Numbers, Kinds
<1>5. query' \in [Queries -> Query]
  BY <1>1, <1>2, NotedFollows DEF TypeOK, Kinds
<1>6. \A p \in Queries : Followed(p)
  <2>1. "clients" \in Kinds
    BY DEF Kinds
  <2>2. QED
    BY <1>2, <1>3, <1>4, <2>1, NotedIsFollowed
<1>7. clients' \in [ClientIds -> Queries \cup {None, User, "system"}]
      /\ \A j \in ClientIds : clients[j] \in Queries => clients'[j] = clients[j]
  BY <1>1, <1>2, RegistryAssumption DEF TypeOK
<1>8. QED
  BY <1>1, <1>2, <1>5, <1>6, <1>7 DEF RegistryStep, TypeOK

LEMMA CloseUserStep ==
    ASSUME RegInv, CloseUser
    PROVE  RegistryStep
<1> DEFINE i == CHOOSE j \in ClientIds : clients[j] = User
           F == Noted("queues", {}, query)
           G == Noted("ports", {}, F)
           H == Noted("clients", Used \ {i}, G)
<1>1. i \in ClientIds /\ clients[i] = User /\ TypeOK
  BY DEF CloseUser, HasUser, RegInv
<1>2. clients' = [clients EXCEPT ![i] = None] /\ query' = H
      /\ ports' = {} /\ queues' = {} /\ subs' = 0 /\ UNCHANGED <<fds, devnode, stolen>>
  BY DEF CloseUser
<1>3. /\ F \in [Queries -> Query]
      /\ \A q \in Queries :
            /\ query[q].kind = "queues" => Follows(query[q], F[q], queues, {})
            /\ query[q].kind # "queues" => F[q] = query[q]
  BY <1>1, NotedFollows DEF TypeOK, Kinds, Numbers
<1> HIDE DEF F
<1>4. /\ G \in [Queries -> Query]
      /\ \A q \in Queries :
            /\ F[q].kind = "ports" => Follows(F[q], G[q], ports, {})
            /\ F[q].kind # "ports" => G[q] = F[q]
  BY <1>3, NotedFollows DEF Kinds, Numbers
<1> HIDE DEF G
<1>5. /\ H \in [Queries -> Query]
      /\ \A q \in Queries :
            /\ G[q].kind = "clients" => Follows(G[q], H[q], Used, Used \ {i})
            /\ G[q].kind # "clients" => H[q] = G[q]
  BY <1>4, NotedFollows DEF Kinds, Numbers
<1> HIDE DEF H, i
<1>6. Used \ {i} = Used'
  BY <1>1, <1>2 DEF Used, TypeOK
<1>7. ASSUME NEW p \in Queries PROVE Followed(p)
  <2>1. query[p] \in Query
    BY <1>1 DEF TypeOK
  <2>2. ASSUME query[p].kind = "queues" PROVE Follows(query[p], H[p], queues, {})
    <3>1. Follows(query[p], F[p], queues, {}) /\ F[p].kind = "queues"
      BY <1>3, <2>2 DEF Follows, SameCall
    <3>2. H[p] = F[p]
      BY <1>4, <1>5, <3>1
    <3>3. QED
      BY <3>1, <3>2
  <2>3. ASSUME query[p].kind = "ports" PROVE Follows(query[p], H[p], ports, {})
    <3>1. F[p] = query[p]
      BY <1>3, <2>3
    <3>2. Follows(query[p], G[p], ports, {}) /\ G[p].kind = "ports"
      BY <1>4, <2>3, <3>1 DEF Follows, SameCall
    <3>3. H[p] = G[p]
      BY <1>5, <3>2
    <3>4. QED
      BY <3>2, <3>3
  <2>4. ASSUME query[p].kind = "clients" PROVE Follows(query[p], H[p], Used, Used')
    <3>1. G[p] = query[p]
      BY <1>3, <1>4, <2>4
    <3>2. QED
      BY <1>5, <1>6, <2>4, <3>1
  <2>5. ASSUME query[p].kind \notin {"clients", "ports", "queues"} PROVE H[p] = query[p]
    BY <1>3, <1>4, <1>5, <2>5
  <2>6. ASSUME NEW k \in Kinds, query[p].kind = k
        PROVE  Follows(query[p], query'[p], Numbers(k), Numbers(k)')
    <3>1. CASE k = "queues"
      BY <1>2, <2>2, <2>6, <3>1 DEF Numbers
    <3>2. CASE k = "ports"
      BY <1>2, <2>3, <2>6, <3>2 DEF Numbers
    <3>3. CASE k = "clients"
      BY <1>2, <2>4, <2>6, <3>3 DEF Numbers
    <3>4. CASE k \notin {"clients", "ports", "queues"}
      <4>1. query'[p] = query[p] /\ Numbers(k) = {} /\ Numbers(k)' = {}
        BY <1>2, <2>5, <2>6, <3>4 DEF Numbers
      <4>2. Follows(query[p], query[p], {}, {})
        BY <2>1, FollowsItself
      <4>3. QED
        BY <4>1, <4>2
    <3>5. QED
      BY <3>1, <3>2, <3>3, <3>4
  <2>7. QED
    BY <2>6 DEF Followed
<1>8. clients' \in [ClientIds -> Queries \cup {None, User, "system"}]
      /\ \A j \in ClientIds : clients[j] \in Queries => clients'[j] = clients[j]
  BY <1>1, <1>2, RegistryAssumption DEF TypeOK
<1>9. QED
  BY <1>2, <1>5, <1>7, <1>8 DEF RegistryStep

LEMMA SetPortsStep ==
    ASSUME RegInv, NEW S \in SUBSET (0..MaxPort), SetPorts(S), subs' \in Nat
    PROVE  RegistryStep
<1>1. ports' = S /\ query' = Noted("ports", S, query) /\ UNCHANGED <<clients, queues, fds, devnode, stolen>>
  BY DEF SetPorts
<1>2. TypeOK /\ "ports" \in Kinds
  BY DEF RegInv, Kinds
<1>3. S = Numbers("ports")' /\ \A k \in Kinds : k # "ports" => Numbers(k)' = Numbers(k)
  BY <1>1 DEF Numbers, Used
<1>4. query' \in [Queries -> Query]
  BY <1>1, <1>2, NotedFollows DEF TypeOK
<1>5. \A p \in Queries : Followed(p)
  BY <1>1, <1>2, <1>3, NotedIsFollowed
<1>6. QED
  BY <1>1, <1>2, <1>4, <1>5 DEF RegistryStep, TypeOK

LEMMA SetQueuesStep ==
    ASSUME RegInv, NEW S \in SUBSET (0..MaxQueue), SetQueues(S)
    PROVE  RegistryStep
<1>1. queues' = S /\ query' = Noted("queues", S, query) /\ UNCHANGED <<clients, ports, subs, fds, devnode, stolen>>
  BY DEF SetQueues
<1>2. TypeOK /\ "queues" \in Kinds
  BY DEF RegInv, Kinds
<1>3. S = Numbers("queues")' /\ \A k \in Kinds : k # "queues" => Numbers(k)' = Numbers(k)
  BY <1>1 DEF Numbers, Used
<1>4. query' \in [Queries -> Query]
  BY <1>1, <1>2, NotedFollows DEF TypeOK
<1>5. \A p \in Queries : Followed(p)
  BY <1>1, <1>2, <1>3, NotedIsFollowed
<1>6. QED
  BY <1>1, <1>2, <1>4, <1>5 DEF RegistryStep, TypeOK

UserStep ==
    \/ OpenUser \/ CloseUser \/ create_port \/ create_queue
    \/ \E p \in 0..MaxPort : create_port_at(p) \/ delete_port(p)
    \/ \E establish \in BOOLEAN : operate_subscription(establish)
    \/ \E i \in 0..MaxQueue : delete_queue(i)

LEMMA UserStepKeeps ==
    ASSUME RegInv, UserStep
    PROVE  RegInv'
<1>1. TypeOK
  BY DEF RegInv
<1>2. CASE OpenUser
  BY <1>2, OpenUserStep, RegistryStepKeeps
<1>3. CASE CloseUser
  BY <1>3, CloseUserStep, RegistryStepKeeps
<1>4. CASE create_port
  <2>1. Lowest(ports, MaxPort) \in 0..MaxPort
    BY <1>1, <1>4, LowestIsFree, RegistryAssumption DEF create_port, TypeOK
  <2>2. ports \cup {Lowest(ports, MaxPort)} \in SUBSET (0..MaxPort)
        /\ SetPorts(ports \cup {Lowest(ports, MaxPort)}) /\ subs' \in Nat
    BY <1>1, <1>4, <2>1 DEF create_port, TypeOK
  <2>3. QED
    BY <2>2, SetPortsStep, RegistryStepKeeps
<1>5. CASE create_queue
  <2>1. Lowest(queues, MaxQueue) \in 0..MaxQueue
    BY <1>1, <1>5, LowestIsFree, RegistryAssumption DEF create_queue, TypeOK
  <2>2. queues \cup {Lowest(queues, MaxQueue)} \in SUBSET (0..MaxQueue)
        /\ SetQueues(queues \cup {Lowest(queues, MaxQueue)})
    BY <1>1, <1>5, <2>1 DEF create_queue, TypeOK
  <2>3. QED
    BY <2>2, SetQueuesStep, RegistryStepKeeps
<1>6. ASSUME NEW p \in 0..MaxPort, create_port_at(p) PROVE RegInv'
  <2>1. ports \cup {p} \in SUBSET (0..MaxPort) /\ SetPorts(ports \cup {p}) /\ subs' \in Nat
    BY <1>1, <1>6 DEF create_port_at, TypeOK
  <2>2. QED
    BY <2>1, SetPortsStep, RegistryStepKeeps
<1>7. ASSUME NEW p \in 0..MaxPort, delete_port(p) PROVE RegInv'
  <2>1. ports \ {p} \in SUBSET (0..MaxPort) /\ SetPorts(ports \ {p}) /\ subs' \in Nat
    BY <1>1, <1>7 DEF delete_port, TypeOK
  <2>2. QED
    BY <2>1, SetPortsStep, RegistryStepKeeps
<1>8. ASSUME NEW establish \in BOOLEAN, operate_subscription(establish) PROVE RegInv'
  <2>1. UNCHANGED <<clients, ports, queues, fds, query, devnode, stolen>> /\ subs' \in Nat
    BY <1>1, <1>8 DEF operate_subscription, TypeOK
  <2>2. ASSUME NEW p \in Queries PROVE Followed(p)
    <3>1. \A k \in Kinds : Numbers(k)' = Numbers(k)
      BY <2>1 DEF Numbers, Used
    <3>2. \A k \in Kinds : Follows(query[p], query[p], Numbers(k), Numbers(k))
      BY <1>1, FollowsItself DEF TypeOK
    <3>3. query' = query
      BY <2>1
    <3>4. QED
      BY <3>1, <3>2, <3>3 DEF Followed
  <2>3. RegistryStep
    BY <1>1, <2>1, <2>2 DEF RegistryStep, TypeOK
  <2>4. QED
    BY <2>3, RegistryStepKeeps
<1>9. ASSUME NEW i \in 0..MaxQueue, delete_queue(i) PROVE RegInv'
  <2>1. queues \ {i} \in SUBSET (0..MaxQueue) /\ SetQueues(queues \ {i})
    BY <1>1, <1>9 DEF delete_queue, TypeOK
  <2>2. QED
    BY <2>1, SetQueuesStep, RegistryStepKeeps
<1>10. QED
  BY <1>2, <1>3, <1>4, <1>5, <1>6, <1>7, <1>8, <1>9 DEF UserStep
----------------------------------------------------------------------------
LEMMA UntouchedIsFollowed ==
    ASSUME RegInv, NEW p \in Queries, query'[p] = query[p], UNCHANGED <<clients, ports, queues>>
    PROVE  Followed(p)
<1>1. \A k \in Kinds : Numbers(k)' = Numbers(k)
  BY DEF Numbers, Used
<1>2. \A k \in Kinds : Follows(query[p], query[p], Numbers(k), Numbers(k))
  BY FollowsItself DEF RegInv, TypeOK
<1>3. QED
  BY <1>1, <1>2 DEF Followed

\* The state of a call with neither a loop under way nor a list.
Bare(f) ==
    /\ f \in Query /\ f.pc # "loop" /\ f.calls = 0 /\ f.count = 0
    /\ f.pc = "reclose" => f.kind = "ports"
    /\ f.pc = "count" => f.kind # "none" /\ f.list = <<>> /\ f.last = -1
    /\ f.pc = "count" \/ f.pc = "idle" \/ ~f.result \/ ~(f.told > 0)

LEMMA BareIsSound ==
    ASSUME NEW p \in Queries, Bare(query'[p])
    PROVE  Sound(p)
BY DEF Bare, Sound, CallsSound, ListSound, Listing, Listed

LEMMA IdleIsBare == Bare(Idle)
BY DEF Bare, Idle, Query, Kinds

LEMMA OpenKeeps ==
    ASSUME RegInv, NEW q \in Queries, NEW kind \in Asks[q], open_fd(q, kind)
    PROVE  RegInv'
<1> DEFINE f == [Idle EXCEPT !.pc = "count", !.kind = kind]
<1>1. TypeOK /\ Own /\ kind \in Kinds
  BY RegistryAssumption DEF RegInv, Kinds
<1>2. query[q] = Idle /\ ~stolen /\ UNCHANGED <<ports, queues, subs, devnode, stolen>>
  BY DEF open_fd
<1>3. Fds \subseteq Nat
  BY RegistryAssumption, FS_CardinalityType DEF Fds
<1>4. ASSUME NEW n \in Fds
      PROVE  Bare([f EXCEPT !.fd = n]) /\ [f EXCEPT !.fd = n].fd = n /\ [f EXCEPT !.fd = n].pc = "count"
  <2>1. Idle \in Query /\ Idle.calls = 0 /\ Idle.count = 0 /\ Idle.list = <<>> /\ Idle.last = -1
    BY IdleIsBare DEF Bare, Idle
  <2>2. n \in Int
    BY <1>3
  <2>3. /\ [f EXCEPT !.fd = n] \in Query
        /\ [f EXCEPT !.fd = n].calls = Idle.calls /\ [f EXCEPT !.fd = n].count = Idle.count
        /\ [f EXCEPT !.fd = n].fd = n /\ [f EXCEPT !.fd = n].pc = "count"
        /\ [f EXCEPT !.fd = n].list = Idle.list /\ [f EXCEPT !.fd = n].last = Idle.last
        /\ [f EXCEPT !.fd = n].kind = kind
    BY <1>1, <2>1, <2>2 DEF Query
  <2>4. kind # "none"
    BY RegistryAssumption
  <2>5. QED
    BY <2>1, <2>3, <2>4 DEF Bare
<1>5. CASE devnode /\ Used # ClientIds /\ \E n \in Fds : fds[n] = -1
  <2> DEFINE n == CHOOSE m \in Fds : fds[m] = -1 /\ \A k \in 0..m - 1 : fds[k] # -1
             i == Lowest(Used, MaxClient)
             g == [f EXCEPT !.fd = n]
             H == Noted("clients", Used \cup {i}, query)
  <2>1. n \in Fds /\ fds[n] = -1
    BY <1>1, <1>5, FdIsFree DEF TypeOK
  <2>2. i \in ClientIds /\ clients[i] = None
    BY <1>5, UsedType
  <2>3. /\ fds' = [fds EXCEPT ![n] = i] /\ clients' = [clients EXCEPT ![i] = q]
        /\ query' = [H EXCEPT ![q] = g]
    BY <1>5 DEF open_fd
  <2>4. Bare(g) /\ g.fd = n /\ g.pc = "count"
    BY <1>4, <2>1
  <2> HIDE DEF n, i, g
  <2>5. H \in [Queries -> Query]
    BY <1>1, NotedFollows DEF TypeOK, Kinds
  <2>6. \A p \in Queries : p # q => query'[p] = H[p]
    BY <2>3, <2>5
  <2>7. query' \in [Queries -> Query] /\ query'[q] = g
    BY <2>3, <2>4, <2>5 DEF Bare
  <2>8. Used \cup {i} = Numbers("clients")'
    BY <1>1, <2>2, <2>3, RegistryAssumption DEF Used, TypeOK, Numbers
  <2>9. \A k \in Kinds : k # "clients" => Numbers(k)' = Numbers(k)
    BY <1>2 DEF Numbers
  <2>10. \A p \in Queries : p # q => Followed(p)
    <3>1. "clients" \in Kinds
      BY DEF Kinds
    <3>2. QED
      BY <2>6, <2>8, <2>9, <3>1, NotedIsFollowed
  <2>11. Sound(q)
    BY <2>4, <2>7, BareIsSound
  <2>12. CallsAndLists'
    BY <1>2, <2>7, <2>10, <2>11, CallsAndListsKept
  <2>13. TypeOK'
    BY <1>1, <1>2, <2>1, <2>2, <2>3, <2>7 DEF TypeOK
  <2>14. \A p \in Queries : p # q => query'[p].pc = query[p].pc /\ query'[p].fd = query[p].fd
    BY <1>1, <2>10, FollowedIsSame DEF SameCall, TypeOK
  <2>15. query'[q].pc = "count" /\ query'[q].fd = n /\ query[q].pc = "idle"
    <3>1. query'[q] = g /\ g.pc = "count" /\ g.fd = n
      BY <2>4, <2>7
    <3>2. Idle.pc = "idle"
      BY DEF Idle
    <3>3. QED
      BY <1>2, <3>1, <3>2
  <2>16. fds' \in [Fds -> ClientIds \cup {-1}] /\ fds'[n] = i /\ \A m \in Fds : m # n => fds'[m] = fds[m]
    BY <1>1, <2>1, <2>2, <2>3 DEF TypeOK
  <2>17. clients'[i] = q /\ \A j \in ClientIds : j # i => clients'[j] = clients[j]
    BY <1>1, <2>2, <2>3 DEF TypeOK
  <2>18. i # -1 /\ None \notin Queries
    BY <2>2, RegistryAssumption DEF ClientIds
  <2>19. \A p \in Queries : query'[p].pc # "idle" => query'[p].fd \in Fds
    BY <1>1, <2>1, <2>14, <2>15 DEF Own
  <2>20. ASSUME NEW p \in Queries, query'[p].pc \in {"count", "loop", "reclose"}
         PROVE  fds'[query'[p].fd] # -1 /\ clients'[fds'[query'[p].fd]] = p
    <3>1. CASE p = q
      BY <2>15, <2>16, <2>17, <2>18, <3>1
    <3>2. CASE p # q
      <4>1. query[p].fd \in Fds /\ fds[query[p].fd] # -1 /\ clients[fds[query[p].fd]] = p
        BY <1>1, <1>2, <1>5, <2>14, <2>20, <3>2 DEF Own
      <4>2. fds'[query[p].fd] = fds[query[p].fd] /\ fds[query[p].fd] \in ClientIds
        BY <1>1, <2>1, <2>16, <4>1 DEF TypeOK
      <4>3. clients'[fds[query[p].fd]] = p
        BY <2>2, <2>17, <2>18, <4>1, <4>2
      <4>4. QED
        BY <2>14, <3>2, <4>1, <4>2, <4>3
    <3>3. QED
      BY <3>1, <3>2
  <2>21. ASSUME NEW m \in Fds, fds'[m] # -1
         PROVE  /\ clients'[fds'[m]] \in Queries /\ query'[clients'[fds'[m]]].fd = m
                /\ query'[clients'[fds'[m]]].pc # "idle"
    <3>1. CASE m = n
      BY <2>15, <2>16, <2>17, <3>1
    <3>2. CASE m # n
      <4>1. fds'[m] = fds[m] /\ fds[m] \in ClientIds
        BY <1>1, <2>16, <2>21, <3>2 DEF TypeOK
      <4>2. clients[fds[m]] \in Queries /\ query[clients[fds[m]]].fd = m /\ query[clients[fds[m]]].pc # "idle"
        BY <1>1, <1>2, <1>5, <2>21, <4>1 DEF Own
      <4>3. clients'[fds[m]] = clients[fds[m]] /\ clients[fds[m]] # q
        BY <2>2, <2>15, <2>17, <2>18, <4>1, <4>2
      <4>4. QED
        BY <2>14, <4>1, <4>2, <4>3
    <3>3. QED
      BY <3>1, <3>2
  <2>22. ASSUME NEW m \in Fds, NEW k \in Fds, fds'[m] # -1, fds'[k] = fds'[m] PROVE k = m
    <3>1. \A j \in Fds : fds[j] # i
      BY <1>1, <2>2, <2>18 DEF Own
    <3>2. QED
      BY <1>1, <2>16, <2>22, <3>1 DEF Own
  <2>23. devnode' /\ devnode
    BY <1>2, <1>5
  <2>24. Own'
    BY <2>19, <2>20, <2>21, <2>22, <2>23 DEF Own
  <2>25. QED
    BY <2>12, <2>13, <2>24 DEF RegInv, CallsAndLists
<1>6. CASE ~devnode /\ (\E n \in Fds : Goes(q, [f EXCEPT !.fd = n])) /\ UNCHANGED <<fds, clients>>
  <2>1. PICK n \in Fds : query' = [query EXCEPT ![q] = [f EXCEPT !.fd = n]]
    BY <1>6 DEF Goes
  <2> DEFINE g == [f EXCEPT !.fd = n]
  <2>2. Bare(g) /\ g.fd = n /\ g.pc = "count" /\ g \in Query
    BY <1>4 DEF Bare
  <2>3. query' = [query EXCEPT ![q] = g]
    BY <2>1
  <2> HIDE DEF g
  <2>4. query' \in [Queries -> Query] /\ query'[q] = g /\ \A p \in Queries : p # q => query'[p] = query[p]
    BY <1>1, <2>2, <2>3 DEF TypeOK
  <2>5. \A p \in Queries : p # q => Followed(p)
    BY <1>2, <1>6, <2>4, UntouchedIsFollowed
  <2>6. Sound(q)
    BY <2>2, <2>4, BareIsSound
  <2>7. CallsAndLists'
    BY <1>2, <2>4, <2>5, <2>6, CallsAndListsKept
  <2>8. TypeOK'
    BY <1>1, <1>2, <1>6, <2>4 DEF TypeOK
  <2>9. Own'
    BY <1>1, <1>2, <1>6, <2>2, <2>4 DEF Own
  <2>10. QED
    BY <2>7, <2>8, <2>9 DEF RegInv, CallsAndLists
<1>7. \/ devnode /\ Used # ClientIds /\ \E n \in Fds : fds[n] = -1
      \/ ~devnode /\ (\E n \in Fds : Goes(q, [f EXCEPT !.fd = n])) /\ UNCHANGED <<fds, clients>>
  BY Zenon DEF open_fd
<1>8. QED
  BY <1>5, <1>6, <1>7

LEMMA CloseFdKeeps ==
    ASSUME RegInv, NEW q \in Queries, NEW next \in Query, CloseFd(q, next),
           query[q].pc \in {"reclose", "close"}, next.pc \in {"close", "idle"},
           next.fd = query[q].fd \/ next.pc = "idle",
           query'[q] = next => Sound(q)
    PROVE  RegInv'
<1> DEFINE fd == query[q].fd
           i == fds[fd]
           H == Noted("clients", Used \ {i}, query)
<1>1. TypeOK /\ Own /\ fd \in Fds
  BY DEF RegInv, Own
<1>2. /\ fds' = [fds EXCEPT ![fd] = -1]
      /\ clients' = IF i = -1 THEN clients ELSE [clients EXCEPT ![i] = None]
      /\ query' = [H EXCEPT ![q] = next]
      /\ stolen' = (stolen \/ (i # -1 /\ clients[i] # q))
      /\ UNCHANGED <<ports, queues, subs, devnode>>
  BY Zenon DEF CloseFd
<1>3. H \in [Queries -> Query]
  BY <1>1, NotedFollows DEF TypeOK, Kinds
<1>4. i \in ClientIds \cup {-1} /\ -1 \notin ClientIds
  BY <1>1, RegistryAssumption DEF TypeOK, ClientIds
<1>5. Used \ {i} = Numbers("clients")'
  <2>1. CASE i = -1
    BY <1>2, <1>4, <2>1 DEF Used, Numbers
  <2>2. CASE i # -1
    BY <1>1, <1>2, <1>4, <2>2 DEF Used, TypeOK, Numbers
  <2>3. QED
    BY <2>1, <2>2
<1>6. fds' \in [Fds -> ClientIds \cup {-1}] /\ fds'[fd] = -1 /\ \A m \in Fds : m # fd => fds'[m] = fds[m]
  BY <1>1, <1>2 DEF TypeOK
<1>7. /\ clients' \in [ClientIds -> Queries \cup {None, User, "system"}]
      /\ \A j \in ClientIds : j # i => clients'[j] = clients[j]
  BY <1>1, <1>2, <1>4 DEF TypeOK
<1>8. stolen' \in BOOLEAN /\ (~stolen' => ~stolen /\ (i = -1 \/ clients[i] = q))
  BY <1>2
<1>9. fd = query[q].fd /\ i = fds[fd]
  OBVIOUS
<1> HIDE DEF fd, i
<1>10. \A p \in Queries : p # q => query'[p] = H[p]
  BY <1>2, <1>3
<1>11. query' \in [Queries -> Query] /\ query'[q] = next
  BY <1>2, <1>3
<1>12. \A k \in Kinds : k # "clients" => Numbers(k)' = Numbers(k)
  BY <1>2 DEF Numbers
<1>13. \A p \in Queries : p # q => Followed(p)
  <2>1. "clients" \in Kinds
    BY DEF Kinds
  <2>2. QED
    BY <1>5, <1>10, <1>12, <2>1, NotedIsFollowed
<1>14. CallsAndLists'
  BY <1>8, <1>11, <1>13, CallsAndListsKept
<1>15. TypeOK'
  BY <1>1, <1>2, <1>6, <1>7, <1>8, <1>11 DEF TypeOK
<1>16. \A p \in Queries : p # q => query'[p].pc = query[p].pc /\ query'[p].fd = query[p].fd
  BY <1>1, <1>13, FollowedIsSame DEF SameCall, TypeOK
<1>17. \A p \in Queries : query'[p].pc # "idle" => query'[p].fd \in Fds
  BY <1>1, <1>9, <1>11, <1>16 DEF Own
<1>18. \A p \in Queries : query'[p].pc = "loop" => devnode'
  BY <1>1, <1>2, <1>11, <1>16 DEF Own
<1>19. ASSUME ~stolen', devnode', NEW p \in Queries, query'[p].pc \in {"count", "loop", "reclose"}
       PROVE  fds'[query'[p].fd] # -1 /\ clients'[fds'[query'[p].fd]] = p
  <2>1. p # q
    BY <1>11, <1>19
  <2>2. query[p].fd \in Fds /\ fds[query[p].fd] # -1 /\ clients[fds[query[p].fd]] = p
    BY <1>1, <1>2, <1>8, <1>16, <1>19, <2>1 DEF Own
  <2>3. fds[query[p].fd] # i /\ query[p].fd # fd
    BY <1>8, <1>9, <1>19, <2>1, <2>2
  <2>4. fds[query[p].fd] \in ClientIds /\ fds'[query[p].fd] = fds[query[p].fd]
    BY <1>1, <1>6, <2>2, <2>3 DEF TypeOK
  <2>5. clients'[fds[query[p].fd]] = p
    BY <1>7, <2>2, <2>3, <2>4
  <2>6. QED
    BY <1>16, <2>1, <2>2, <2>4, <2>5
<1>20. ASSUME ~stolen', devnode', NEW m \in Fds, fds'[m] # -1
       PROVE  /\ clients'[fds'[m]] \in Queries /\ query'[clients'[fds'[m]]].fd = m
              /\ query'[clients'[fds'[m]]].pc # "idle"
  <2>1. m # fd /\ fds'[m] = fds[m] /\ fds[m] \in ClientIds
    BY <1>1, <1>6, <1>20 DEF TypeOK
  <2>2. clients[fds[m]] \in Queries /\ query[clients[fds[m]]].fd = m /\ query[clients[fds[m]]].pc # "idle"
    BY <1>1, <1>2, <1>8, <1>20, <2>1 DEF Own
  <2>3. clients[fds[m]] # q
    BY <1>9, <2>1, <2>2
  <2>4. fds[m] # i
    BY <1>4, <1>8, <1>20, <2>1, <2>3
  <2>5. clients'[fds[m]] = clients[fds[m]]
    BY <1>7, <2>1, <2>4
  <2>6. QED
    BY <1>16, <2>1, <2>2, <2>3, <2>5
<1>21. ASSUME NEW n \in Fds, fds'[n] # -1
       PROVE  /\ devnode' /\ clients'[fds'[n]] \in Queries
              /\ \A m \in Fds : fds'[m] = fds'[n] => m = n
  <2>1. n # fd /\ fds'[n] = fds[n] /\ fds[n] \in ClientIds
    BY <1>1, <1>6, <1>21 DEF TypeOK
  <2>2. devnode /\ clients[fds[n]] \in Queries /\ \A m \in Fds : fds[m] = fds[n] => m = n
    BY <1>1, <1>21, <2>1 DEF Own
  <2>3. fds[n] # i
    BY <1>1, <1>9, <2>1, <2>2
  <2>4. clients'[fds[n]] = clients[fds[n]]
    BY <1>7, <2>1, <2>3
  <2>5. QED
    BY <1>2, <1>6, <1>21, <2>1, <2>2, <2>4
<1>22. Own'
  BY <1>17, <1>18, <1>19, <1>20, <1>21 DEF Own
<1>23. QED
  BY <1>14, <1>15, <1>22 DEF RegInv, CallsAndLists

LEMMA CloseKeeps ==
    ASSUME RegInv, NEW q \in Queries, Close(q)
    PROVE  RegInv'
<1>1. CloseFd(q, Idle) /\ query[q].pc = "close"
  BY DEF Close
<1>2. Idle \in Query /\ Idle.pc = "idle" /\ Bare(Idle)
  BY IdleIsBare DEF Bare, Idle
<1>3. query'[q] = Idle => Sound(q)
  BY <1>2, BareIsSound
<1>4. QED
  BY <1>1, <1>2, <1>3, CloseFdKeeps

LEMMA ClosePortListKeeps ==
    ASSUME RegInv, NEW q \in Queries, ClosePortList(q)
    PROVE  RegInv'
<1> DEFINE f == query[q]
           g == [f EXCEPT !.pc = "close"]
<1>1. CloseFd(q, g) /\ f.pc = "reclose" /\ f \in Query /\ CallsSound(f)
  BY DEF ClosePortList, RegInv, TypeOK
<1>2. g \in Query /\ g.pc = "close" /\ g.fd = f.fd /\ g.kind = f.kind /\ g.calls = f.calls
      /\ g.count = f.count /\ g.list = f.list /\ g.told = f.told /\ g.result = f.result
      /\ g.went = f.went /\ g.came = f.came
  BY <1>1 DEF Query
<1>3. f.kind = "ports" /\ f.calls = 0 /\ f.count = 0
  BY <1>1 DEF CallsSound
<1>4. CallsSound(g)
  BY <1>2, <1>3 DEF CallsSound
<1>5. ports' = ports /\ (~stolen' => ~stolen)
  BY <1>1 DEF CloseFd
<1>6. ASSUME ~stolen' PROVE ListSound(g, ports)
  <2>1. ListSound(f, ports)
    BY <1>3, <1>5, <1>6 DEF RegInv, Numbers
  <2>2. Mine(f) = Mine(g)
    BY <1>2, <1>3 DEF Mine
  <2>3. QED
    BY <1>1, <1>2, <2>1, <2>2 DEF ListSound, Listing, Listed, ListDone
<1>7. query'[q] = g => Sound(q)
  BY <1>2, <1>3, <1>4, <1>5, <1>6 DEF Sound, Numbers
<1>8. QED
  BY <1>1, <1>2, <1>7, CloseFdKeeps
----------------------------------------------------------------------------
\* A step of query q alone, from f to g.
Moves(q, g) == query' = [query EXCEPT ![q] = g] /\ UNCHANGED <<registry, fds, devnode, stolen>>
Fits(f, g) ==
    /\ g \in Query /\ g.fd = f.fd /\ g.kind = f.kind /\ g.pc \in {"loop", "close", "reclose"}
    /\ g.pc = "loop" => devnode
    /\ CallsSound(g)
    /\ ~stolen => ListSound(g, Numbers(g.kind))

LEMMA MoveKeeps ==
    ASSUME RegInv, NEW q \in Queries, query[q].pc \in {"count", "loop"},
           NEW g, Moves(q, g), Fits(query[q], g)
    PROVE  RegInv'
<1>1. TypeOK /\ Own /\ g \in Query
  BY DEF RegInv, Fits
<1>2. /\ query' = [query EXCEPT ![q] = g] /\ clients' = clients /\ ports' = ports /\ queues' = queues
      /\ subs' = subs /\ fds' = fds /\ devnode' = devnode /\ stolen' = stolen
  BY DEF Moves, registry
<1>3. /\ query' \in [Queries -> Query] /\ query'[q] = g
      /\ \A p \in Queries : p # q => query'[p] = query[p]
  BY <1>1, <1>2 DEF TypeOK
<1>4. \A p \in Queries : p # q => Followed(p)
  BY <1>2, <1>3, UntouchedIsFollowed
<1>5. Sound(q)
  <2>1. \A k \in Kinds : Numbers(k)' = Numbers(k)
    BY <1>2 DEF Numbers, Used
  <2>2. QED
    BY <1>2, <1>3, <2>1 DEF Sound, Fits
<1>6. CallsAndLists'
  BY <1>2, <1>3, <1>4, <1>5, CallsAndListsKept
<1>7. TypeOK'
  BY <1>1, <1>2, <1>3 DEF TypeOK
<1>8. query'[q].fd = query[q].fd /\ query[q].pc # "idle" /\ query'[q].pc # "idle"
  BY <1>3 DEF Fits
<1>9. \A p \in Queries : query'[p].fd = query[p].fd /\ (query'[p].pc # "idle" <=> query[p].pc # "idle")
                         /\ (query'[p].pc \in {"count", "loop", "reclose"} =>
                                query[p].pc \in {"count", "loop", "reclose"})
  BY <1>3, <1>8
<1>10. Own'
  <2>1. \A p \in Queries : query'[p].pc = "loop" => devnode
    BY <1>1, <1>3 DEF Own, Fits
  <2>2. QED
    BY <1>1, <1>2, <1>9, <2>1 DEF Own
<1>11. QED
  BY <1>6, <1>7, <1>10 DEF RegInv, CallsAndLists

\* The numbers of a list are as many as its entries.
LEMMA RngCardinality ==
    ASSUME NEW s \in Seq(Int), Increasing(s)
    PROVE  IsFiniteSet(Rng(s)) /\ Cardinality(Rng(s)) = Len(s)
<1>1. Len(s) \in Nat /\ s \in [1..Len(s) -> Rng(s)]
  BY DEF Rng
<1>2. ASSUME NEW i \in 1..Len(s), NEW j \in 1..Len(s), s[i] = s[j] PROVE i = j
  <2>1. s[i] \in Int /\ s[j] \in Int /\ ~(s[i] < s[j]) /\ ~(s[j] < s[i])
    BY <1>2
  <2>2. ~(i < j) /\ ~(j < i)
    BY <2>1 DEF Increasing
  <2>3. QED
    BY <2>2
<1>3. s \in Bijection(1..Len(s), Rng(s))
  <2>1. s \in Injection(1..Len(s), Rng(s))
    BY <1>1, <1>2 DEF Injection, IsInjective
  <2>2. s \in Surjection(1..Len(s), Rng(s))
    BY <1>1 DEF Surjection, Rng
  <2>3. QED
    BY <2>1, <2>2 DEF Bijection
<1>4. ExistsBijection(1..Len(s), Rng(s))
  BY <1>3 DEF ExistsBijection
<1>5. QED
  BY <1>1, <1>4, FS_CountingElements, FS_NatBijection

\* A list is complete when it is full, and when all numbers were passed.
LEMMA LoopIsDone ==
    ASSUME NEW f \in Query, NEW N, LoopSound(f, N), Len(f.list) <= f.count,
           Len(f.list) = f.count \/ \A x \in N : x <= f.last
    PROVE  /\ ~f.went => Len(f.list) = f.count
           /\ ~f.went /\ ~f.came => N \ Rng(f.list) = Mine(f)
<1>1. f.list \in Seq(Int) /\ f.count \in Int /\ Increasing(f.list)
  BY DEF Query, LoopSound
<1>2. IsFiniteSet(Rng(f.list)) /\ Cardinality(Rng(f.list)) = Len(f.list) /\ Len(f.list) \in Nat
  BY <1>1, RngCardinality
<1> SUFFICES ASSUME ~f.went
             PROVE  /\ Len(f.list) = f.count
                    /\ ~f.came => N \ Rng(f.list) = Mine(f)
  OBVIOUS
<1>3. PICK orig \in SUBSET N : Counted(f, N, orig)
  BY DEF LoopSound
<1>4. IsFiniteSet(orig) /\ Cardinality(orig) = f.count
  BY <1>3 DEF Counted
<1>5. ASSUME \A x \in N : x <= f.last PROVE orig \subseteq Rng(f.list)
  BY <1>3, <1>5 DEF Counted
<1>6. Len(f.list) = f.count
  <2>1. CASE \A x \in N : x <= f.last
    <3>1. Cardinality(orig) <= Cardinality(Rng(f.list))
      BY <1>2, <1>5, <2>1, FS_Subset
    <3>2. QED
      BY <1>1, <1>2, <1>4, <3>1
  <2>2. QED
    BY <2>1
<1>7. ASSUME ~f.came PROVE N \ Rng(f.list) = Mine(f)
  <2>1. orig = N \ Mine(f) /\ Mine(f) \subseteq N /\ Rng(f.list) \subseteq N
    BY <1>3, <1>7 DEF Counted, LoopSound
  <2>2. Rng(f.list) \subseteq orig
    BY <2>1 DEF LoopSound
  <2>3. orig = Rng(f.list)
    BY <1>2, <1>4, <1>6, <2>2, FS_Subset
  <2>4. QED
    BY <2>1, <2>3
<1>8. QED
  BY <1>6, <1>7

\* A turn of a loop: no number between the last one and i is there, and i is
\* listed if it is there and not the client of the query.
Turn(f, i, counts) == [f EXCEPT !.last = i, !.calls = @ + 1, !.list = IF counts THEN Append(@, i) ELSE @]

LEMMA TurnFields ==
    ASSUME NEW f \in Query, NEW i \in Int, NEW counts \in BOOLEAN
    PROVE  LET g == Turn(f, i, counts) IN
           /\ g \in Query /\ g.pc = f.pc /\ g.kind = f.kind /\ g.fd = f.fd /\ g.my_id = f.my_id
           /\ g.count = f.count /\ g.calls = f.calls + 1 /\ g.last = i
           /\ g.list = IF counts THEN Append(f.list, i) ELSE f.list
           /\ g.result = f.result /\ g.told = f.told /\ g.came = f.came /\ g.went = f.went
<1> DEFINE s == IF counts THEN Append(f.list, i) ELSE f.list
           n == f.calls + 1
<1>1. f.list \in Seq(Int) /\ f.calls \in Int
  BY DEF Query
<1>2. s \in Seq(Int) /\ n \in Int
  BY <1>1
<1>3. Turn(f, i, counts) = [f EXCEPT !.last = i, !.calls = n, !.list = s]
  BY DEF Turn, Query
<1>4. n = f.calls + 1 /\ s = IF counts THEN Append(f.list, i) ELSE f.list
  OBVIOUS
<1> HIDE DEF s, n
<1>5. [f EXCEPT !.last = i, !.calls = n, !.list = s] \in Query
  BY <1>2 DEF Query
<1>6. QED
  BY <1>3, <1>4, <1>5 DEF Query

LEMMA TurnIsSound ==
    ASSUME NEW f \in Query, NEW N \in SUBSET Int, LoopSound(f, N), NEW i \in Int, i > f.last,
           \A x \in N : x > f.last => x >= i,
           NEW counts \in BOOLEAN, counts <=> (i \in N /\ i \notin Mine(f))
    PROVE  LoopSound(Turn(f, i, counts), N)
<1> DEFINE g == Turn(f, i, counts)
<1>1. /\ g \in Query /\ g.kind = f.kind /\ g.my_id = f.my_id /\ g.count = f.count /\ g.last = i
      /\ g.list = IF counts THEN Append(f.list, i) ELSE f.list
      /\ g.came = f.came /\ g.went = f.went
  BY TurnFields
<1> HIDE DEF g
<1>2. f.list \in Seq(Int) /\ f.last \in Int /\ Mine(g) = Mine(f)
  BY <1>1 DEF Query, Mine
<1>3. Rng(g.list) = IF counts THEN Rng(f.list) \cup {i} ELSE Rng(f.list)
  <2>1. CASE counts
    <3>1. g.list = Append(f.list, i)
      BY <1>1, <2>1
    <3>2. /\ Len(Append(f.list, i)) = Len(f.list) + 1 /\ Append(f.list, i)[Len(f.list) + 1] = i
          /\ \A k \in 1..Len(f.list) : Append(f.list, i)[k] = f.list[k]
      BY <1>2
    <3>3. Len(f.list) \in Nat
      BY <1>2
    <3>4. QED
      BY <2>1, <3>1, <3>2, <3>3 DEF Rng
  <2>2. CASE ~counts
    BY <1>1, <2>2
  <2>3. QED
    BY <2>1, <2>2
<1>4. \A x \in Rng(f.list) : x \in Int /\ x <= f.last /\ x \notin Mine(f)
  BY <1>2 DEF LoopSound, Rng
<1>5. Increasing(g.list)
  <2>1. CASE counts
    <3>1. SUFFICES ASSUME NEW j \in 1..Len(g.list), NEW k \in 1..Len(g.list), j < k
                   PROVE  g.list[j] < g.list[k]
      BY DEF Increasing
    <3>2. g.list = Append(f.list, i) /\ Len(g.list) = Len(f.list) + 1 /\ Len(f.list) \in Nat
      BY <1>1, <1>2, <2>1
    <3>3. j \in 1..Len(f.list) /\ g.list[j] = f.list[j] /\ f.list[j] \in Int
      BY <1>2, <3>1, <3>2
    <3>4. CASE k \in 1..Len(f.list)
      <4>1. g.list[k] = f.list[k]
        BY <1>2, <3>2, <3>4
      <4>2. f.list[j] < f.list[k]
        BY <3>1, <3>3, <3>4 DEF LoopSound, Increasing
      <4>3. QED
        BY <3>3, <4>1, <4>2
    <3>5. CASE k = Len(f.list) + 1
      <4>1. g.list[k] = i
        BY <1>2, <3>2, <3>5
      <4>2. f.list[j] \in Rng(f.list)
        BY <3>3 DEF Rng
      <4>3. f.list[j] <= f.last
        BY <1>4, <4>2
      <4>4. QED
        BY <1>2, <3>3, <4>1, <4>3
    <3>6. QED
      BY <3>2, <3>4, <3>5
  <2>2. CASE ~counts
    BY <1>1, <2>2 DEF LoopSound
  <2>3. QED
    BY <2>1, <2>2
<1>6. \A x \in Rng(g.list) : x <= g.last /\ x \notin Mine(g)
  <2>1. ASSUME NEW x \in Rng(f.list) PROVE x <= i /\ x \notin Mine(f)
    BY <1>2, <1>4
  <2>2. QED
    BY <1>1, <1>2, <1>3, <2>1
<1>7. ASSUME ~g.went
      PROVE  Rng(g.list) \subseteq N /\ Mine(g) \subseteq N /\ \E orig \in SUBSET N : Counted(g, N, orig)
  <2>1. Rng(f.list) \subseteq N /\ Mine(f) \subseteq N /\ \E orig \in SUBSET N : Counted(f, N, orig)
    BY <1>1, <1>7 DEF LoopSound
  <2>2. PICK orig \in SUBSET N : Counted(f, N, orig)
    BY <2>1
  <2>3. ASSUME NEW x \in orig, x <= i PROVE x \in Rng(g.list)
    <3>1. CASE x <= f.last
      BY <1>3, <2>2, <2>3, <3>1 DEF Counted
    <3>2. CASE ~(x <= f.last)
      <4>1. x = i
        BY <1>2, <2>3, <3>2
      <4>2. i \in N /\ i \notin Mine(f)
        BY <2>2, <2>3, <4>1 DEF Counted
      <4>3. QED
        BY <1>3, <4>1, <4>2
    <3>3. QED
      BY <3>1, <3>2
  <2>4. Counted(g, N, orig)
    BY <1>1, <1>2, <2>2, <2>3 DEF Counted
  <2>5. Rng(g.list) \subseteq N
    BY <1>3, <2>1
  <2>6. QED
    BY <1>2, <2>1, <2>4, <2>5
<1>8. QED
  BY <1>5, <1>6, <1>7 DEF LoopSound, g

\* A loop begins with the numbers that are there.
LEMMA StartIsSound ==
    ASSUME NEW g \in Query, NEW N \in SUBSET Nat, IsFiniteSet(N), g.list = <<>>, g.last = -1,
           Mine(g) \subseteq N, Cardinality(N \ Mine(g)) = g.count
    PROVE  LoopSound(g, N)
<1> DEFINE orig == N \ Mine(g)
<1>1. Rng(g.list) = {} /\ Increasing(g.list)
  BY DEF Rng, Increasing
<1>2. orig \in SUBSET N /\ IsFiniteSet(orig)
  BY FS_Subset
<1>3. \A x \in orig : ~(x <= g.last)
  BY <1>2
<1>4. Counted(g, N, orig)
  BY <1>2, <1>3 DEF Counted
<1>5. QED
  BY <1>1, <1>2, <1>4 DEF LoopSound
----------------------------------------------------------------------------
\* The end of a call.
LEMMA EndsFits ==
    ASSUME NEW f \in Query, NEW result \in BOOLEAN
    PROVE  /\ Fits(f, Ends(f, result))
           /\ f.kind = "ports" => Fits(f, [Ends(f, result) EXCEPT !.pc = "reclose"])
<1> DEFINE g == Ends(f, result)
           h == [g EXCEPT !.pc = "reclose"]
<1>1. Idle \in Query /\ Idle.calls = 0 /\ Idle.count = 0 /\ Idle.told = -1
  BY IdleIsBare DEF Bare, Idle
<1>2. /\ g \in Query /\ g.pc = "close" /\ g.kind = f.kind /\ g.fd = f.fd
      /\ g.calls = 0 /\ g.count = 0 /\ g.told = -1
  BY <1>1 DEF Ends, Query
<1> HIDE DEF g
<1>3. /\ h \in Query /\ h.pc = "reclose" /\ h.kind = f.kind /\ h.fd = f.fd
      /\ h.calls = 0 /\ h.count = 0 /\ h.told = -1
  BY <1>2 DEF Query
<1> HIDE DEF h
<1>4. Fits(f, g)
  BY <1>2 DEF Fits, CallsSound, ListSound, Listing, Listed
<1>5. f.kind = "ports" => Fits(f, h)
  BY <1>3 DEF Fits, CallsSound, ListSound, Listing, Listed
<1>6. QED
  BY <1>4, <1>5 DEF g, h

Finished(f, g, told) ==
    /\ g \in Query /\ g.kind = f.kind /\ g.fd = f.fd /\ g.my_id = f.my_id /\ g.told = told
    /\ g.list = f.list /\ g.came = f.came /\ g.went = f.went /\ g.calls = 0 /\ g.count = 0

LEMMA SucceedsFields ==
    ASSUME NEW f \in Query, NEW told \in Int
    PROVE  LET g == Succeeds(f, told)
               h == [g EXCEPT !.pc = "reclose"]
               k == [g EXCEPT !.pc = "close"] IN
           /\ Finished(f, g, told) /\ g.pc = "close"
           /\ Finished(f, h, told) /\ h.pc = "reclose"
           /\ Finished(f, k, told) /\ k.pc = "close"
<1> DEFINE e == Ends(f, TRUE)
           g == Succeeds(f, told)
<1>1. Idle \in Query /\ Idle.calls = 0 /\ Idle.count = 0
  BY IdleIsBare DEF Bare, Idle
<1>2. e \in Query /\ e.pc = "close" /\ e.kind = f.kind /\ e.fd = f.fd /\ e.calls = 0 /\ e.count = 0
  BY <1>1 DEF Ends, Query
<1> HIDE DEF e
<1>3. g = [e EXCEPT !.my_id = f.my_id, !.told = told, !.list = f.list, !.came = f.came, !.went = f.went]
  BY DEF Succeeds, e
<1>4. Finished(f, g, told) /\ g.pc = "close"
  BY <1>2, <1>3 DEF Finished, Query
<1> HIDE DEF g
<1>5. /\ Finished(f, [g EXCEPT !.pc = "reclose"], told) /\ [g EXCEPT !.pc = "reclose"].pc = "reclose"
      /\ Finished(f, [g EXCEPT !.pc = "close"], told) /\ [g EXCEPT !.pc = "close"].pc = "close"
  BY <1>4 DEF Finished, Query
<1>6. QED
  BY <1>4, <1>5 DEF g

LEMMA NothingFits ==
    ASSUME NEW f \in Query, NEW told \in Int, told <= 0
    PROVE  Fits(f, Succeeds(f, told))
<1> DEFINE g == Succeeds(f, told)
<1>1. Finished(f, g, told) /\ g.pc = "close"
  BY SucceedsFields
<1> HIDE DEF g
<1>2. Fits(f, g)
  BY <1>1 DEF Finished, Fits, CallsSound, ListSound, Listing, Listed
<1>3. QED
  BY <1>2 DEF g

LEMMA FinishedFits ==
    ASSUME NEW f \in Query, NEW g, Finished(f, g, f.count), CallsSound(f),
           f.pc = "loop", g.pc = "close" \/ (g.pc = "reclose" /\ f.kind = "ports"),
           ~stolen => LoopSound(f, Numbers(f.kind)),
           Len(f.list) = f.count \/ \A x \in Numbers(f.kind) : x <= f.last
    PROVE  Fits(f, g)
<1>1. Len(f.list) <= f.count
  BY DEF CallsSound
<1>2. ASSUME ~stolen PROVE ListDone(g, Numbers(g.kind))
  <2>1. /\ ~f.went => Len(f.list) = f.count
        /\ ~f.went /\ ~f.came => Numbers(f.kind) \ Rng(f.list) = Mine(f)
    BY <1>1, <1>2, LoopIsDone
  <2>2. Mine(g) = Mine(f) /\ Increasing(f.list)
    BY <1>2 DEF Mine, Finished, LoopSound
  <2>3. QED
    BY <1>1, <2>1, <2>2 DEF ListDone, Finished
<1>3. CallsSound(g)
  BY DEF Finished, CallsSound
<1>4. QED
  BY <1>2, <1>3 DEF Fits, Finished, ListSound, Listing
----------------------------------------------------------------------------
\* The step of a query, and what is known of it before.
LEMMA NumbersFinite ==
    ASSUME RegInv
    PROVE  /\ Used \in SUBSET Nat /\ IsFiniteSet(Used)
           /\ ports \in SUBSET Nat /\ IsFiniteSet(ports)
           /\ queues \in SUBSET Nat /\ IsFiniteSet(queues)
<1>1. MaxClient \in Int /\ MaxPort \in Int /\ MaxQueue \in Int /\ 0 \in Int
  BY RegistryAssumption
<1>2. IsFiniteSet(0..MaxClient) /\ IsFiniteSet(0..MaxPort) /\ IsFiniteSet(0..MaxQueue)
  BY <1>1, FS_Interval
<1>3. Used \in SUBSET (0..MaxClient) /\ ports \in SUBSET (0..MaxPort) /\ queues \in SUBSET (0..MaxQueue)
  BY DEF Used, ClientIds, RegInv, TypeOK
<1>4. IsFiniteSet(Used) /\ IsFiniteSet(ports) /\ IsFiniteSet(queues)
  BY <1>2, <1>3, FS_Subset
<1>5. QED
  BY <1>3, <1>4

LEMMA BeforeMove ==
    ASSUME RegInv, NEW q \in Queries, query[q].pc \in {"count", "loop"}
    PROVE  /\ query[q] \in Query /\ CallsSound(query[q]) /\ query[q].fd \in Fds
           /\ Listing(query[q]) /\ ~stolen => LoopSound(query[q], Numbers(query[q].kind))
           /\ query[q].pc = "loop" => devnode
           /\ Valid(query[q]) => devnode /\ fds[query[q].fd] \in Used
           /\ ~stolen /\ devnode => Valid(query[q])
<1>1. query[q] \in Query /\ CallsSound(query[q]) /\ query[q].fd \in Fds /\ TypeOK /\ Own
  BY DEF RegInv, TypeOK, Own
<1>2. Listing(query[q]) /\ ~stolen => LoopSound(query[q], Numbers(query[q].kind))
  BY DEF RegInv, ListSound
<1>3. query[q].pc = "loop" => devnode
  BY <1>1 DEF Own
<1>4. ASSUME Valid(query[q]) PROVE devnode /\ fds[query[q].fd] \in Used
  <2>1. devnode /\ clients[fds[query[q].fd]] \in Queries
    BY <1>1, <1>4 DEF Own, Valid
  <2>2. fds[query[q].fd] \in ClientIds
    BY <1>1, <1>4 DEF TypeOK, Valid
  <2>3. QED
    BY <2>1, <2>2, RegistryAssumption DEF Used
<1>5. ~stolen /\ devnode => Valid(query[q])
  BY <1>1 DEF Own, Valid
<1>6. QED
  BY <1>1, <1>2, <1>3, <1>4, <1>5

LoopOf(f, n) == [f EXCEPT !.pc = "loop", !.count = n]

Begun(f, g, n) ==
    /\ g \in Query /\ g.pc = "loop" /\ g.fd = f.fd /\ g.kind = f.kind
    /\ g.list = f.list /\ g.last = f.last /\ g.calls = f.calls /\ g.count = n

LEMMA LoopOfFields ==
    ASSUME NEW f \in Query, NEW n \in Int
    PROVE  Begun(f, LoopOf(f, n), n)
BY DEF Query, LoopOf, Begun

\* A loop that begins, over the numbers N.
Ready(f) == f \in Query /\ CallsSound(f) /\ f.pc = "count" /\ devnode
About(f, g, n, N) ==
    /\ f.kind \in {"clients", "ports", "queues"} /\ Numbers(f.kind) = N
    /\ N \in SUBSET Nat /\ IsFiniteSet(N) /\ Mine(g) \subseteq N /\ Cardinality(N \ Mine(g)) = n

LEMMA StartFits ==
    ASSUME NEW f, Ready(f), NEW n \in Nat, NEW g, Begun(f, g, n), NEW N,
           About(f, g, n, N) \/ f.kind = "subs"
    PROVE  Fits(f, g)
<1>1. f.calls = 0 /\ f.list = <<>> /\ f.last = -1
  BY DEF Ready, CallsSound
<1>2. Len(g.list) = 0 /\ g.list = <<>> /\ g.calls = 0 /\ g.last = -1 /\ g.count = n
  BY <1>1 DEF Begun
<1>3. g \in Query /\ g.pc = "loop" /\ g.fd = f.fd /\ g.kind = f.kind
  BY DEF Begun
<1>4. Passed(g.last, g.my_id) \in Nat
  BY DEF Passed
<1>5. CallsSound(g)
  <2>1. g.kind \in {"clients", "ports", "queues", "subs"}
    BY <1>3 DEF About
  <2>2. Len(g.list) <= g.count /\ g.calls <= Len(g.list) + Passed(g.last, g.my_id)
    BY <1>2, <1>4
  <2>3. g.last \in -1..MaxQueue /\ g.calls = g.last + 1 /\ g.calls = Len(g.list)
    BY <1>2, RegistryAssumption
  <2>4. QED
    BY <1>3, <2>1, <2>2, <2>3 DEF CallsSound
<1>6. ASSUME About(f, g, n, N) PROVE LoopSound(g, Numbers(g.kind))
  <2>1. Numbers(g.kind) = N /\ N \in SUBSET Nat /\ IsFiniteSet(N)
    BY <1>3, <1>6 DEF About
  <2>2. Mine(g) \subseteq N /\ Cardinality(N \ Mine(g)) = g.count
    BY <1>2, <1>6 DEF About
  <2>3. LoopSound(g, N)
    BY <1>2, <1>3, <2>1, <2>2, StartIsSound
  <2>4. QED
    BY <2>1, <2>3
<1>7. ListSound(g, Numbers(g.kind))
  BY <1>3, <1>6 DEF ListSound, Listing, Listed
<1>8. QED
  BY <1>3, <1>5, <1>7 DEF Fits, Ready

LEMMA CountKeeps ==
    ASSUME RegInv, NEW q \in Queries, Count(q)
    PROVE  RegInv'
<1> DEFINE f == query[q]
<1>1. f.pc = "count" /\ f.kind # "info" /\ UNCHANGED <<registry, fds, devnode, stolen>>
  BY DEF Count
<1>2. /\ f \in Query /\ CallsSound(f) /\ (Valid(f) => devnode /\ fds[f.fd] \in Used)
      /\ f.list = <<>> /\ f.last = -1 /\ f.kind \in Kinds \ {"info", "none"}
  BY <1>1, BeforeMove DEF CallsSound, Query
<1>3. SUFFICES \E g : query' = [query EXCEPT ![q] = g] /\ Fits(f, g)
  BY <1>1, MoveKeeps DEF Moves
<1>4. CASE ~Valid(f)
  <2>1. query' = [query EXCEPT ![q] = Ends(f, FALSE)]
    BY <1>4 DEF Count, Goes, LoopOf
  <2>2. QED
    BY <1>2, <2>1, EndsFits
<1>5. CASE Valid(f) /\ f.kind = "clients"
  <2> DEFINE n == ClientCount
             h == LoopOf(f, n)
             g == [h EXCEPT !.my_id = fds[f.fd]]
  <2>1. query' = [query EXCEPT ![q] = IF n = 0 THEN Succeeds(f, 0) ELSE g]
    BY <1>5 DEF Count, Goes, LoopOf
  <2>2. fds[f.fd] \in Used /\ Used \in SUBSET Nat /\ IsFiniteSet(Used) /\ devnode
    BY <1>2, <1>5, NumbersFinite
  <2>3. /\ Cardinality(Used \ {fds[f.fd]}) = Cardinality(Used) - 1
        /\ IsFiniteSet(Used \ {fds[f.fd]})
    <3> DEFINE x == fds[f.fd]
               S == Used
    <3>1. x \in S /\ IsFiniteSet(S)
      BY <2>2
    <3> HIDE DEF x, S
    <3>2. IsFiniteSet(S \ {x}) /\ Cardinality(S \ {x}) = Cardinality(S) - 1
      BY <3>1, FS_RemoveElement
    <3>3. QED
      BY <3>2 DEF x, S
  <2>4. n \in Nat /\ Cardinality(Used \ {fds[f.fd]}) = n
    BY <2>3, FS_CardinalityType DEF ClientCount
  <2>5. Begun(f, h, n)
    <3>1. f \in Query /\ n \in Int
      BY <1>2, <2>4
    <3>2. QED
      BY <3>1, LoopOfFields
  <2>6. fds[f.fd] \in Int
    BY <2>2
  <2> HIDE DEF n, h
  <2>7. /\ g \in Query /\ g.pc = "loop" /\ g.fd = f.fd /\ g.kind = f.kind
        /\ g.list = f.list /\ g.last = f.last /\ g.calls = f.calls /\ g.count = n
        /\ g.my_id = fds[f.fd]
    BY <2>5, <2>6 DEF Query, Begun
  <2> HIDE DEF g
  <2>8. Mine(g) = {fds[f.fd]} /\ Numbers(g.kind) = Used
    BY <1>5, <2>7 DEF Mine, Numbers
  <2>9. Ready(f) /\ Begun(f, g, n)
    BY <1>1, <1>2, <2>2, <2>7 DEF Ready, Begun
  <2>10. Fits(f, g)
    <3>1. f.kind = "clients" /\ Numbers(f.kind) = Used
      BY <1>5 DEF Numbers
    <3>2. Mine(g) \subseteq Used /\ Cardinality(Used \ Mine(g)) = n
      BY <2>2, <2>4, <2>8
    <3>3. About(f, g, n, Used)
      BY <2>2, <3>1, <3>2 DEF About
    <3>4. n \in Nat
      BY <2>4
    <3>5. QED
      BY <2>9, <3>3, <3>4, StartFits
  <2>11. Fits(f, Succeeds(f, 0))
    BY <1>2, NothingFits
  <2>12. QED
    BY <2>1, <2>10, <2>11
<1>6. ASSUME NEW N \in SUBSET Nat, IsFiniteSet(N), devnode, f.kind \in {"ports", "queues"},
             Numbers(f.kind) = N
      PROVE  Fits(f, LoopOf(f, Cardinality(N)))
  <2> DEFINE g == LoopOf(f, Cardinality(N))
  <2>1. Cardinality(N) \in Nat
    BY <1>6, FS_CardinalityType
  <2>2. Begun(f, g, Cardinality(N))
    <3>1. f \in Query /\ Cardinality(N) \in Int
      BY <1>2, <2>1
    <3>2. QED
      BY <3>1, LoopOfFields
  <2> HIDE DEF g
  <2>3. Mine(g) = {} /\ N \ Mine(g) = N
    BY <1>6, <2>2 DEF Mine, Begun
  <2>4. Ready(f) /\ About(f, g, Cardinality(N), N)
    BY <1>1, <1>2, <1>6, <2>3 DEF Ready, About
  <2>5. Fits(f, g)
    BY <2>1, <2>2, <2>4, StartFits
  <2>6. QED
    BY <2>5 DEF g
<1>7. CASE Valid(f) /\ f.kind = "ports"
  <2>1. query' = [query EXCEPT ![q] = IF HasUser THEN LoopOf(f, Cardinality(ports)) ELSE Ends(f, FALSE)]
    BY <1>7 DEF Count, Goes, LoopOf
  <2>2. Fits(f, LoopOf(f, Cardinality(ports)))
    BY <1>2, <1>6, <1>7, NumbersFinite DEF Numbers
  <2>3. QED
    BY <1>2, <2>1, <2>2, EndsFits
<1>8. CASE Valid(f) /\ f.kind = "queues"
  <2>1. query' = [query EXCEPT ![q] = IF queues = {} THEN Succeeds(f, -1) ELSE LoopOf(f, Cardinality(queues))]
    BY <1>8 DEF Count, Goes, LoopOf
  <2>2. Fits(f, LoopOf(f, Cardinality(queues)))
    BY <1>2, <1>6, <1>8, NumbersFinite DEF Numbers
  <2>3. Fits(f, Succeeds(f, -1))
    BY <1>2, NothingFits
  <2>4. QED
    BY <2>1, <2>2, <2>3
<1>9. CASE Valid(f) /\ f.kind = "subs"
  <2>1. query' = [query EXCEPT ![q] = IF subs = 0 THEN Ends(f, FALSE) ELSE LoopOf(f, subs)]
    BY <1>9 DEF Count, Goes, LoopOf
  <2> DEFINE g == LoopOf(f, subs)
  <2>2. subs \in Nat
    BY DEF RegInv, TypeOK
  <2>3. Begun(f, g, subs)
    <3>1. f \in Query /\ subs \in Int
      BY <1>2, <2>2
    <3>2. QED
      BY <3>1, LoopOfFields
  <2> HIDE DEF g
  <2>4. Fits(f, g)
    <3>1. Ready(f) /\ f.kind = "subs"
      BY <1>1, <1>2, <1>9 DEF Ready
    <3>2. QED
      BY <2>2, <2>3, <3>1, StartFits
  <2>5. QED
    BY <1>2, <2>1, <2>4, EndsFits DEF g
<1>10. QED
  BY <1>2, <1>4, <1>5, <1>7, <1>8, <1>9 DEF Kinds

LEMMA InfoKeeps ==
    ASSUME RegInv, NEW q \in Queries, Info(q)
    PROVE  RegInv'
<1> DEFINE f == query[q]
<1>1. f.pc = "count" /\ UNCHANGED <<registry, fds, devnode, stolen>>
  BY DEF Info
<1>2. \E result \in BOOLEAN : query' = [query EXCEPT ![q] = Ends(f, result)]
  <2>1. PICK there : query' = [query EXCEPT ![q] = Ends(f, Valid(f) /\ there)]
    BY DEF Info, Goes
  <2>2. (Valid(f) /\ there) \in BOOLEAN
    OBVIOUS
  <2>3. QED
    BY <2>1, <2>2
<1>3. PICK result \in BOOLEAN : query' = [query EXCEPT ![q] = Ends(f, result)]
  BY <1>2
<1>4. f \in Query
  BY <1>1, BeforeMove
<1>5. Fits(f, Ends(f, result))
  BY <1>4, EndsFits
<1>6. QED
  BY <1>1, <1>3, <1>5, MoveKeeps DEF Moves

\* The client of the query is passed at most once.
LEMMA OneMoreCall ==
    ASSUME NEW calls \in Int, NEW n \in Nat, NEW last \in Int, NEW my_id \in Int, NEW i \in Int,
           i > last, calls <= n + Passed(last, my_id)
    PROVE  /\ calls + 1 <= n + 1 + Passed(i, my_id)
           /\ i = my_id => calls + 1 <= n + Passed(i, my_id)
BY DEF Passed

\* A turn of one of the three loops that look for numbers.
LEMMA TurnFits ==
    ASSUME NEW f \in Query, CallsSound(f), f.pc = "loop", MoreEntries(f), devnode,
           f.kind \in {"clients", "ports", "queues"},
           NEW i \in Int, i > f.last, NEW counts \in BOOLEAN,
           f.kind = "clients" => (counts <=> i # f.my_id),
           f.kind = "ports" => counts,
           f.kind = "queues" => i = f.last + 1 /\ i <= MaxQueue,
           ~stolen => LoopSound(Turn(f, i, counts), Numbers(f.kind))
    PROVE  Fits(f, Turn(f, i, counts))
<1> DEFINE g == Turn(f, i, counts)
<1>1. /\ g \in Query /\ g.pc = f.pc /\ g.kind = f.kind /\ g.fd = f.fd /\ g.my_id = f.my_id
      /\ g.count = f.count /\ g.calls = f.calls + 1 /\ g.last = i
      /\ g.list = IF counts THEN Append(f.list, i) ELSE f.list
  BY TurnFields
<1> HIDE DEF g
<1>2. f.list \in Seq(Int) /\ f.last \in Int /\ f.calls \in Int /\ f.my_id \in Int /\ f.count \in Int
  BY DEF Query
<1>3. Len(g.list) = (IF counts THEN Len(f.list) + 1 ELSE Len(f.list)) /\ Len(f.list) \in Nat
  BY <1>1, <1>2
<1>4. Len(f.list) < f.count
  BY DEF MoreEntries
<1>5. Len(g.list) <= g.count
  BY <1>1, <1>2, <1>3, <1>4
<1>6. ASSUME f.kind = "clients"
      PROVE  g.calls <= Len(g.list) + Passed(g.last, g.my_id)
  <2>1. f.calls <= Len(f.list) + Passed(f.last, f.my_id)
    BY <1>6 DEF CallsSound
  <2>2. /\ f.calls + 1 <= Len(f.list) + 1 + Passed(i, f.my_id)
        /\ i = f.my_id => f.calls + 1 <= Len(f.list) + Passed(i, f.my_id)
    BY <1>2, <1>3, <2>1, OneMoreCall
  <2>3. ~counts => i = f.my_id
    BY <1>6
  <2>4. g.calls = f.calls + 1 /\ g.last = i /\ g.my_id = f.my_id
    BY <1>1
  <2>5. CASE counts
    <3>1. Len(g.list) = Len(f.list) + 1
      BY <1>3, <2>5
    <3>2. QED
      BY <2>2, <2>4, <3>1
  <2>6. CASE ~counts
    <3>1. Len(g.list) = Len(f.list)
      BY <1>3, <2>6
    <3>2. QED
      BY <2>2, <2>3, <2>4, <2>6, <3>1
  <2>7. QED
    BY <2>5, <2>6
<1>7. ASSUME f.kind = "queues" PROVE g.last \in -1..MaxQueue /\ g.calls = g.last + 1
  <2>1. f.last \in -1..MaxQueue /\ f.calls = f.last + 1
    BY <1>7 DEF CallsSound
  <2>2. QED
    BY <1>1, <1>7, <2>1, RegistryAssumption
<1>8. ASSUME f.kind = "ports" PROVE g.calls = Len(g.list)
  <2>1. f.calls = Len(f.list)
    BY <1>8 DEF CallsSound
  <2>2. QED
    BY <1>1, <1>3, <1>8, <2>1
<1>9. CallsSound(g)
  BY <1>1, <1>5, <1>6, <1>7, <1>8 DEF CallsSound
<1>10. ~stolen => ListSound(g, Numbers(g.kind))
  BY <1>1 DEF ListSound, Listed, g
<1>11. Fits(f, g)
  BY <1>1, <1>9, <1>10 DEF Fits
<1>12. QED
  BY <1>11 DEF g

LEMMA NextClientKeeps ==
    ASSUME RegInv, NEW q \in Queries, NextClient(q)
    PROVE  RegInv'
<1> DEFINE f == query[q]
           A == After(Used, f.last)
           i == Min(A)
<1>1. f.pc = "loop" /\ f.kind = "clients" /\ MoreEntries(f) /\ UNCHANGED <<registry, fds, devnode, stolen>>
  BY DEF NextClient
<1>2. f \in Query /\ CallsSound(f) /\ devnode /\ (~stolen => LoopSound(f, Used)) /\ Numbers(f.kind) = Used
  BY <1>1, BeforeMove DEF Listing, Numbers
<1>3. f.last \in Int /\ f.count \in Int /\ f.my_id \in Int
  BY <1>2 DEF Query
<1>4. SUFFICES \E g : query' = [query EXCEPT ![q] = g] /\ Fits(f, g)
  BY <1>1, MoveKeeps DEF Moves
<1>5. CASE ~Valid(f)
  <2>1. query' = [query EXCEPT ![q] = Ends(f, FALSE)]
    BY <1>5 DEF NextClient, Goes
  <2>2. QED
    BY <1>2, <2>1, EndsFits
<1>6. CASE Valid(f) /\ A = {}
  <2>1. query' = [query EXCEPT ![q] = Succeeds(f, f.count)]
    BY <1>6 DEF NextClient, Goes
  <2>2. \A x \in Used : x <= f.last
    BY <1>3, <1>6, NumbersFinite DEF After
  <2>3. Finished(f, Succeeds(f, f.count), f.count) /\ Succeeds(f, f.count).pc = "close"
    BY <1>2, <1>3, SucceedsFields
  <2>4. Fits(f, Succeeds(f, f.count))
    BY <1>1, <1>2, <2>2, <2>3, FinishedFits
  <2>5. QED
    BY <2>1, <2>4
<1>7. CASE Valid(f) /\ A # {}
  <2> DEFINE counts == NotMyself(f, i)
  <2>1. query' = [query EXCEPT ![q] = Turn(f, i, counts)]
    BY <1>7 DEF NextClient, Entry, Goes, Turn
  <2>2. A \in SUBSET Nat /\ Used \in SUBSET Int
    BY NumbersFinite DEF After
  <2>3. i \in A /\ \A y \in A : i <= y
    BY <1>7, <2>2, MinIsLeast
  <2>4. i \in Used /\ i \in Int /\ i > f.last
    BY <2>2, <2>3 DEF After
  <2>5. ASSUME NEW x \in Used, x > f.last PROVE x >= i
    <3>1. x \in A
      BY <2>5 DEF After
    <3>2. QED
      BY <2>2, <2>3, <2>4, <3>1
  <2>6. counts \in BOOLEAN /\ (counts <=> i # f.my_id)
    BY DEF NotMyself
  <2>7. Mine(f) = {f.my_id}
    BY <1>1 DEF Mine
  <2> HIDE DEF counts, i, A
  <2>8. counts <=> (i \in Used /\ i \notin Mine(f))
    BY <2>4, <2>6, <2>7
  <2>9. ~stolen => LoopSound(Turn(f, i, counts), Used)
    BY <1>2, <2>2, <2>4, <2>5, <2>6, <2>8, TurnIsSound
  <2>10. Fits(f, Turn(f, i, counts))
    BY <1>1, <1>2, <2>4, <2>6, <2>9, TurnFits
  <2>11. QED
    BY <2>1, <2>10
<1>8. QED
  BY <1>5, <1>6, <1>7

LEMMA NextPortKeeps ==
    ASSUME RegInv, NEW q \in Queries, NextPort(q)
    PROVE  RegInv'
<1> DEFINE f == query[q]
           A == After(ports, f.last)
           i == Min(A)
<1>1. f.pc = "loop" /\ f.kind = "ports" /\ MoreEntries(f) /\ UNCHANGED <<registry, fds, devnode, stolen>>
  BY DEF NextPort
<1>2. f \in Query /\ CallsSound(f) /\ devnode /\ (~stolen => LoopSound(f, ports)) /\ Numbers(f.kind) = ports
  BY <1>1, BeforeMove DEF Listing, Numbers
<1>3. f.last \in Int /\ f.count \in Int
  BY <1>2 DEF Query
<1>4. SUFFICES \E g : query' = [query EXCEPT ![q] = g] /\ Fits(f, g)
  BY <1>1, MoveKeeps DEF Moves
<1>5. CASE ~Valid(f) \/ ~HasUser
  <2>1. query' = [query EXCEPT ![q] = [Ends(f, FALSE) EXCEPT !.pc = "reclose"]]
    BY <1>5 DEF NextPort, Goes
  <2>2. QED
    BY <1>1, <1>2, <2>1, EndsFits
<1>6. CASE Valid(f) /\ HasUser /\ A = {}
  <2> DEFINE g == [Succeeds(f, f.count) EXCEPT !.pc = "reclose"]
  <2>1. query' = [query EXCEPT ![q] = g]
    BY <1>6 DEF NextPort, Goes
  <2>2. \A x \in ports : x <= f.last
    BY <1>3, <1>6, NumbersFinite DEF After
  <2>3. Finished(f, g, f.count) /\ g.pc = "reclose"
    BY <1>2, <1>3, SucceedsFields
  <2> HIDE DEF g
  <2>4. Fits(f, g)
    BY <1>1, <1>2, <2>2, <2>3, FinishedFits
  <2>5. QED
    BY <2>1, <2>4
<1>7. CASE Valid(f) /\ HasUser /\ A # {}
  <2>1. query' = [query EXCEPT ![q] = Turn(f, i, TRUE)]
    BY <1>7 DEF NextPort, Entry, Goes, Turn
  <2>2. A \in SUBSET Nat /\ ports \in SUBSET Int
    BY NumbersFinite DEF After
  <2>3. i \in A /\ \A y \in A : i <= y
    BY <1>7, <2>2, MinIsLeast
  <2>4. i \in ports /\ i \in Int /\ i > f.last
    BY <2>2, <2>3 DEF After
  <2>5. ASSUME NEW x \in ports, x > f.last PROVE x >= i
    <3>1. x \in A
      BY <2>5 DEF After
    <3>2. QED
      BY <2>2, <2>3, <2>4, <3>1
  <2>6. Mine(f) = {}
    BY <1>1 DEF Mine
  <2> HIDE DEF i, A
  <2>7. TRUE <=> (i \in ports /\ i \notin Mine(f))
    BY <2>4, <2>6
  <2>8. ~stolen => LoopSound(Turn(f, i, TRUE), ports)
    BY <1>2, <2>2, <2>4, <2>5, <2>7, TurnIsSound
  <2>9. Fits(f, Turn(f, i, TRUE))
    BY <1>1, <1>2, <2>4, <2>8, TurnFits
  <2>10. QED
    BY <2>1, <2>9
<1>8. QED
  BY <1>5, <1>6, <1>7

LEMMA Ordered ==
    ASSUME NEW a \in Int, NEW b \in Int
    PROVE  (~(a > b) => a <= b) /\ (a > b => a >= b + 1)
OBVIOUS

LEMMA NextQueueKeeps ==
    ASSUME RegInv, NEW q \in Queries, NextQueue(q)
    PROVE  RegInv'
<1> DEFINE f == query[q]
           i == f.last + 1
           counts == Valid(f) /\ i \in queues
<1>1. f.pc = "loop" /\ f.kind = "queues" /\ MoreEntries(f) /\ UNCHANGED <<registry, fds, devnode, stolen>>
  BY DEF NextQueue
<1>2. /\ f \in Query /\ CallsSound(f) /\ devnode /\ (~stolen => LoopSound(f, queues) /\ Valid(f))
      /\ Numbers(f.kind) = queues
  BY <1>1, BeforeMove DEF Listing, Numbers
<1>3. f.last \in -1..MaxQueue /\ f.count \in Int /\ i \in Int /\ i > f.last
  <2>1. f.last \in -1..MaxQueue
    BY <1>1, <1>2 DEF CallsSound
  <2>2. f.count \in Int /\ f.last \in Int
    BY <1>2 DEF Query
  <2>3. i \in Int /\ i > f.last
    BY <2>2
  <2>4. QED
    BY <2>1, <2>2, <2>3
<1>4. SUFFICES \E g : query' = [query EXCEPT ![q] = g] /\ Fits(f, g)
  BY <1>1, MoveKeeps DEF Moves
<1>5. queues \in SUBSET (0..MaxQueue) /\ queues \in SUBSET Int
  BY DEF RegInv, TypeOK
<1>6. CASE i > MaxQueue
  <2>1. query' = [query EXCEPT ![q] = Succeeds(f, f.count)]
    BY <1>6 DEF NextQueue, Goes
  <2>2. \A x \in queues : x <= f.last
    BY <1>3, <1>5, <1>6, RegistryAssumption
  <2>3. Finished(f, Succeeds(f, f.count), f.count) /\ Succeeds(f, f.count).pc = "close"
    BY <1>2, <1>3, SucceedsFields
  <2>4. Fits(f, Succeeds(f, f.count))
    BY <1>1, <1>2, <2>2, <2>3, FinishedFits
  <2>5. QED
    BY <2>1, <2>4
<1>7. CASE ~(i > MaxQueue)
  <2>1. query' = [query EXCEPT ![q] = Turn(f, i, counts)]
    BY <1>7 DEF NextQueue, Goes, Turn
  <2>2. counts \in BOOLEAN /\ i <= MaxQueue /\ i = f.last + 1
    <3>1. counts \in BOOLEAN
      BY Zenon
    <3>2. i \in Int /\ MaxQueue \in Int
      BY <1>3, RegistryAssumption
    <3>3. i <= MaxQueue
      BY <1>7, <3>2, Ordered
    <3>4. QED
      BY <3>1, <3>3
  <2>3. ASSUME NEW x \in queues, x > f.last PROVE x >= i
    <3>1. x \in Int
      BY <1>5
    <3>2. f.last \in Int
      BY <1>3
    <3>3. x >= f.last + 1
      BY <2>3, <3>1, <3>2, Ordered
    <3>4. QED
      BY <3>3
  <2>4. Mine(f) = {} /\ (counts <=> Valid(f) /\ i \in queues)
    BY <1>1 DEF Mine
  <2> HIDE DEF counts, i
  <2>5. ASSUME ~stolen PROVE LoopSound(Turn(f, i, counts), queues)
    <3>1. counts <=> (i \in queues /\ i \notin Mine(f))
      BY <1>2, <2>4, <2>5
    <3>2. QED
      BY <1>2, <1>3, <1>5, <2>2, <2>3, <2>5, <3>1, TurnIsSound
  <2>6. Fits(f, Turn(f, i, counts))
    BY <1>1, <1>2, <1>3, <2>2, <2>5, TurnFits
  <2>7. QED
    BY <2>1, <2>6
<1>8. QED
  BY <1>6, <1>7

LEMMA NextSubKeeps ==
    ASSUME RegInv, NEW q \in Queries, NextSub(q)
    PROVE  RegInv'
<1> DEFINE f == query[q]
           n == f.calls + 1
           s == Append(f.list, Len(f.list))
           g == [f EXCEPT !.calls = n, !.list = s]
<1>1. f.pc = "loop" /\ f.kind = "subs" /\ MoreEntries(f) /\ UNCHANGED <<registry, fds, devnode, stolen>>
  BY DEF NextSub
<1>2. f \in Query /\ CallsSound(f) /\ devnode
  BY <1>1, BeforeMove
<1>3. /\ f.list \in Seq(Int) /\ f.calls \in Int /\ f.count \in Int /\ f.calls = Len(f.list)
      /\ Len(f.list) < f.count
  BY <1>1, <1>2 DEF Query, CallsSound, MoreEntries
<1>4. query' = [query EXCEPT ![q] = g] \/ query' = [query EXCEPT ![q] = Ends(f, FALSE)]
  <2>1. Len(f.list) + 1 - 1 = Len(f.list)
    BY <1>3
  <2> DEFINE h == [f EXCEPT !.calls = @ + 1, !.list = Append(@, Len(f.list) + 1 - 1)]
  <2>2. query' = [query EXCEPT ![q] = IF Valid(f) /\ Len(f.list) + 1 < subs THEN h ELSE Ends(f, FALSE)]
    BY DEF NextSub, Goes
  <2>3. g = h
    BY <1>2, <2>1 DEF Query
  <2> HIDE DEF g, h
  <2>4. QED
    BY <2>2, <2>3
<1>5. n \in Int /\ s \in Seq(Int) /\ n = Len(s) /\ Len(s) <= f.count
  BY <1>3
<1> HIDE DEF n, s
<1>6. /\ g \in Query /\ g.pc = "loop" /\ g.kind = "subs" /\ g.fd = f.fd /\ g.count = f.count
      /\ g.calls = n /\ g.list = s
  BY <1>1, <1>2, <1>5 DEF Query
<1> HIDE DEF g
<1>7. Fits(f, g)
  BY <1>1, <1>2, <1>5, <1>6 DEF Fits, CallsSound, ListSound, Listing, Listed
<1>8. Fits(f, Ends(f, FALSE))
  BY <1>2, EndsFits
<1>9. QED
  BY <1>1, <1>4, <1>7, <1>8, MoveKeeps DEF Moves

LEMMA LoopDoneKeeps ==
    ASSUME RegInv, NEW q \in Queries, LoopDone(q)
    PROVE  RegInv'
<1> DEFINE f == query[q]
<1>1. f.pc = "loop" /\ ~MoreEntries(f) /\ UNCHANGED <<registry, fds, devnode, stolen>>
  BY DEF LoopDone
<1>2. f \in Query /\ CallsSound(f) /\ (~stolen /\ Listing(f) => LoopSound(f, Numbers(f.kind)))
  BY <1>1, BeforeMove
<1>3. f.list \in Seq(Int) /\ f.count \in Int /\ Len(f.list) = f.count
  <2>1. f.list \in Seq(Int) /\ f.count \in Int
    BY <1>2 DEF Query
  <2>2. Len(f.list) <= f.count
    BY <1>1, <1>2 DEF CallsSound
  <2>3. ~(Len(f.list) < f.count) /\ Len(f.list) \in Nat
    BY <1>1, <2>1 DEF MoreEntries
  <2>4. QED
    BY <2>1, <2>2, <2>3
<1>4. SUFFICES \E g : query' = [query EXCEPT ![q] = g] /\ Fits(f, g)
  BY <1>1, MoveKeeps DEF Moves
<1>5. CASE f.kind = "subs"
  <2>1. PICK result \in BOOLEAN : query' = [query EXCEPT ![q] = Ends(f, result)]
    BY <1>5 DEF LoopDone, Goes
  <2>2. QED
    BY <1>2, <2>1, EndsFits
<1>6. CASE f.kind # "subs"
  <2> DEFINE S == Succeeds(f, f.count)
             g == [S EXCEPT !.pc = IF f.kind = "ports" THEN "reclose" ELSE "close"]
  <2>1. query' = [query EXCEPT ![q] = g]
    BY <1>6 DEF LoopDone, Goes
  <2>2. /\ Finished(f, [S EXCEPT !.pc = "reclose"], f.count) /\ [S EXCEPT !.pc = "reclose"].pc = "reclose"
        /\ Finished(f, [S EXCEPT !.pc = "close"], f.count) /\ [S EXCEPT !.pc = "close"].pc = "close"
    BY <1>2, <1>3, SucceedsFields
  <2> HIDE DEF S
  <2>3. Finished(f, g, f.count) /\ (g.pc = "close" \/ (g.pc = "reclose" /\ f.kind = "ports"))
    <3>1. CASE f.kind = "ports"
      <4>1. g = [S EXCEPT !.pc = "reclose"]
        BY <3>1
      <4>2. QED
        BY <2>2, <3>1, <4>1
    <3>2. CASE f.kind # "ports"
      <4>1. g = [S EXCEPT !.pc = "close"]
        BY <3>2
      <4>2. QED
        BY <2>2, <4>1
    <3>3. QED
      BY <3>1, <3>2
  <2> HIDE DEF g
  <2>4. ~stolen => LoopSound(f, Numbers(f.kind))
    BY <1>1, <1>2, <1>6 DEF Listing, CallsSound
  <2>5. Fits(f, g)
    BY <1>1, <1>2, <1>3, <2>3, <2>4, FinishedFits
  <2>6. QED
    BY <2>1, <2>5
<1>7. QED
  BY <1>5, <1>6
----------------------------------------------------------------------------
LEMMA RegInvInit == Init => RegInv
<1> SUFFICES ASSUME Init PROVE RegInv
  OBVIOUS
<1>1. Idle \in Query /\ Idle.pc = "idle" /\ Idle.calls = 0 /\ Idle.count = 0
  BY IdleIsBare DEF Bare, Idle
<1>2. /\ query = [q \in Queries |-> Idle] /\ fds = [n \in Fds |-> -1]
      /\ clients = [i \in ClientIds |-> IF i = 0 THEN "system" ELSE None]
      /\ ports = {} /\ queues = {} /\ subs = 0 /\ devnode \in BOOLEAN /\ stolen = FALSE
  BY DEF Init
<1>3. clients \in [ClientIds -> Queries \cup {None, User, "system"}]
  BY <1>2
<1>4. fds \in [Fds -> ClientIds \cup {-1}] /\ \A n \in Fds : fds[n] = -1
  BY <1>2
<1>5. query \in [Queries -> Query] /\ \A q \in Queries : query[q] = Idle
  BY <1>1, <1>2
<1>6. TypeOK
  BY <1>2, <1>3, <1>4, <1>5 DEF TypeOK
<1>7. Own
  BY <1>1, <1>4, <1>5 DEF Own
<1>8. CallsSound(Idle) /\ \A N : ListSound(Idle, N)
  BY <1>1 DEF CallsSound, ListSound, Listing, Listed
<1>9. QED
  BY <1>5, <1>6, <1>7, <1>8 DEF RegInv

LEMMA RegInvNext == RegInv /\ [Next]_vars => RegInv'
<1> SUFFICES ASSUME RegInv, [Next]_vars PROVE RegInv'
  OBVIOUS
<1>1. CASE UserStep
  BY <1>1, UserStepKeeps
<1>2. ASSUME NEW q \in Queries, NEW kind \in Asks[q], open_fd(q, kind) PROVE RegInv'
  BY <1>2, OpenKeeps
<1>3. ASSUME NEW q \in Queries, Progress(q) PROVE RegInv'
  BY <1>3, CountKeeps, InfoKeeps, NextClientKeeps, NextPortKeeps, NextQueueKeeps, NextSubKeeps,
     LoopDoneKeeps, ClosePortListKeeps, CloseKeeps DEF Progress
<1>4. CASE UNCHANGED vars
  BY <1>4 DEF vars, registry, RegInv, TypeOK, Own, Numbers, Used
<1>5. Next => UserStep \/ \E q \in Queries : (\E kind \in Asks[q] : open_fd(q, kind)) \/ Progress(q)
  BY DEF Next, UserStep
<1>6. QED
  BY <1>1, <1>2, <1>3, <1>4, <1>5

\* What the code of query.c keeps true at every step.
LEMMA RegInvAlways == Spec => []RegInv
BY RegInvInit, RegInvNext, PTL DEF Spec

(***************************************************************************)
(* From open(2) to its last step a function of query.c has its descriptor  *)
(* to itself and leaves none behind, whatever other threads and the user   *)
(* client do, unless get_port_id_list() closed one that it no longer owns. *)
(***************************************************************************)
THEOREM DescriptorIsOwn == Spec => []OwnDescriptor
<1>1. RegInv => OwnDescriptor
  BY DEF RegInv, Own, OwnDescriptor
<1>2. QED
  BY <1>1, RegInvAlways, PTL

(***************************************************************************)
(* However fast clients, ports, queues and subscriptions come and go, the  *)
(* loops of query.c make no more ioctls than were counted before (one more *)
(* for the client of the query), or than there are numbers of queues.      *)
(***************************************************************************)
THEOREM CallsAreBounded == Spec => []CallsBounded
<1>1. ASSUME RegInv, NEW q \in Queries
      PROVE  LET f == query[q] IN
             f.calls <= CASE f.kind = "queues" -> MaxQueue + 1
                          [] f.kind = "clients" -> f.count + 1
                          [] OTHER -> f.count
  <2> DEFINE f == query[q]
  <2>1. f \in Query /\ CallsSound(f)
    BY <1>1 DEF RegInv, TypeOK
  <2>2. f.calls \in Int /\ f.count \in Int /\ f.last \in Int /\ f.my_id \in Int /\ Len(f.list) \in Nat
    BY <2>1 DEF Query
  <2>3. CASE f.pc # "loop"
    <3>1. f.calls = 0 /\ f.count = 0
      BY <2>1, <2>3 DEF CallsSound
    <3>2. QED
      BY <3>1, RegistryAssumption
  <2>4. CASE f.pc = "loop" /\ f.kind = "queues"
    <3>1. f.calls = f.last + 1 /\ f.last <= MaxQueue
      BY <2>1, <2>4, RegistryAssumption DEF CallsSound
    <3>2. QED
      BY <2>2, <2>4, <3>1, RegistryAssumption
  <2>5. CASE f.pc = "loop" /\ f.kind = "clients"
    <3>1. f.calls <= Len(f.list) + Passed(f.last, f.my_id) /\ Len(f.list) <= f.count
      BY <2>1, <2>5 DEF CallsSound
    <3>2. Passed(f.last, f.my_id) \in {0, 1}
      BY DEF Passed
    <3>3. f.calls <= f.count + 1
      BY <2>2, <3>1, <3>2
    <3>4. QED
      BY <2>5, <3>3
  <2>6. CASE f.pc = "loop" /\ f.kind \notin {"queues", "clients"}
    <3>1. f.calls <= f.count
      BY <2>1, <2>2, <2>6 DEF CallsSound
    <3>2. QED
      BY <2>6, <3>1
  <2>7. QED
    BY <2>3, <2>4, <2>5, <2>6
<1>2. RegInv => CallsBounded
  BY <1>1 DEF CallsBounded
<1>3. QED
  BY <1>2, RegInvAlways, PTL

(***************************************************************************)
(* A list that a function of query.c returns has no number twice and none  *)
(* too many; it is full if no number went away meanwhile, and has exactly  *)
(* the numbers in use, but for the client of the query, if none came       *)
(* either.                                                                 *)
(***************************************************************************)
THEOREM ListsAreExact == Spec => []ListsExact
<1>1. ASSUME RegInv, NEW q \in Queries, Answered(query[q]), ~stolen
      PROVE  LET f == query[q] IN
             /\ Len(f.list) <= f.told
             /\ \A i, j \in 1..Len(f.list) : i < j => f.list[i] < f.list[j]
             /\ ~f.went => Len(f.list) = f.told
             /\ ~f.went /\ ~f.came => Numbers(f.kind) \ {f.list[i] : i \in 1..f.told} =
                                          IF f.kind = "clients" THEN {f.my_id} ELSE {}
  <2> DEFINE f == query[q]
  <2>1. Listed(f)
    BY <1>1 DEF Answered, Listed
  <2>2. ListDone(f, Numbers(f.kind))
    BY <1>1, <2>1 DEF RegInv, ListSound
  <2>3. Len(f.list) <= f.told /\ (\A i, j \in 1..Len(f.list) : i < j => f.list[i] < f.list[j])
        /\ (~f.went => Len(f.list) = f.told)
    BY <2>2 DEF ListDone, Increasing
  <2>4. ASSUME ~f.went, ~f.came
        PROVE  Numbers(f.kind) \ {f.list[i] : i \in 1..f.told} =
                   IF f.kind = "clients" THEN {f.my_id} ELSE {}
    <3>1. Rng(f.list) = {f.list[i] : i \in 1..f.told}
      BY <2>3, <2>4 DEF Rng
    <3>2. Numbers(f.kind) \ Rng(f.list) = Mine(f)
      BY <2>2, <2>4 DEF ListDone
    <3>3. QED
      BY <3>1, <3>2 DEF Mine
  <2>5. QED
    BY <2>3, <2>4
<1>2. RegInv => ListsExact
  BY <1>1 DEF ListsExact
<1>3. QED
  BY <1>2, RegInvAlways, PTL
============================================================================
