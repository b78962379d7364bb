---------------------------- MODULE PollerProofs ----------------------------
(***************************************************************************)
(* Proofs about Poller, for any set of descriptors and of event bits: the  *)
(* vector holds a descriptor at most once, and therefore behaves as the    *)
(* map of PollSet in spite of the swaps of erase and of a cursor that may  *)
(* lie beyond the end of the vector.                                       *)
(***************************************************************************)
EXTENDS Poller, SequenceTheorems, WellFoundedInduction, TLAPS

IInv == TypeOK /\ NoDuplicates

-----------------------------------------------------------------------------
(* The cursor: the scan that starts at __i and wraps round meets every index *)

LEMMA DivMod ==
    ASSUME NEW n \in Nat \ {0}, NEW x \in Nat
    PROVE  x % n \in 0..(n - 1) /\ x \div n \in Nat /\ x = n * (x \div n) + (x % n)
  BY Z3

LEMMA NextMultiple ==
    ASSUME NEW n \in Nat \ {0}, NEW d \in Int, NEW e \in Int, d < e
    PROVE  n * e >= n * d + n
<1>1. e - d - 1 \in Nat
  OBVIOUS
<1>2. n * (e - d - 1) >= 0
  BY <1>1, Z3
<1>3. n * (e - d - 1) = n * e - n * d - n
  BY Z3
<1> QED BY <1>2, <1>3

LEMMA ModIs ==
    ASSUME NEW n \in Nat \ {0}, NEW x \in Nat, NEW d \in Int, NEW r \in 0..(n - 1),
           x = n * d + r
    PROVE  x % n = r
<1> DEFINE e == x \div n
           s == x % n
<1>1. s \in 0..(n - 1) /\ e \in Nat /\ x = n * e + s
  BY DivMod
<1> HIDE DEF e, s
<1>2. n * d \in Int /\ n * e \in Int
  BY <1>1, Z3
<1>3. ~(d < e)
  <2> SUFFICES ASSUME d < e PROVE FALSE
    OBVIOUS
  <2>1. n * e >= n * d + n
    BY <1>1, NextMultiple
  <2> QED BY <1>1, <1>2, <2>1
<1>4. ~(e < d)
  <2> SUFFICES ASSUME e < d PROVE FALSE
    OBVIOUS
  <2>1. n * d >= n * e + n
    BY <1>1, NextMultiple
  <2> QED BY <1>1, <1>2, <2>1
<1>5. d = e
  BY <1>1, <1>3, <1>4
<1>6. s = r
  BY <1>1, <1>2, <1>5
<1> QED BY <1>6 DEF s

LEMMA ScanMeets ==
    ASSUME NEW n \in Nat \ {0}, NEW c \in Nat, NEW j \in 0..(n - 1)
    PROVE  \E k \in 0..(n - 1) : (k + c) % n = j
<1> DEFINE q == c % n
           d == c \div n
<1>1. q \in 0..(n - 1) /\ c = n * d + q /\ d \in Nat
  BY DivMod
<1> HIDE DEF q, d
<1>2. n * d \in Int /\ n * (d + 1) = n * d + n
  BY <1>1, Z3
<1>3. CASE q <= j
  <2> DEFINE k == j - q
  <2>1. k \in 0..(n - 1) /\ k + c \in Nat /\ k + c = n * d + j
    BY <1>1, <1>2, <1>3
  <2> HIDE DEF k
  <2>2. (k + c) % n = j
    BY <1>1, <2>1, ModIs
  <2> QED BY <2>1, <2>2
<1>4. CASE q > j
  <2> DEFINE k == j - q + n
  <2>1. /\ k \in 0..(n - 1) /\ k + c \in Nat /\ k + c = n * (d + 1) + j
        /\ d + 1 \in Int
    BY <1>1, <1>2, <1>4
  <2> HIDE DEF k
  <2>2. (k + c) % n = j
    BY <2>1, ModIs
  <2> QED BY <2>1, <2>2
<1> QED BY <1>1, <1>3, <1>4

LEMMA Smallest ==
    ASSUME NEW T, T \subseteq Nat, NEW x \in T
    PROVE  \E k \in T : \A l \in T : ~(l < k)
<1>1. PICK k \in T : \A l \in T : ~(<<l, k>> \in OpToRel(<, Nat))
  BY NatLessThanWellFounded, WFMin
<1> QED BY <1>1 DEF OpToRel

LEMMA VectorFacts ==
    ASSUME TypeOK
    PROVE  /\ Len(pfds) \in Nat /\ DOMAIN pfds = 1..Len(pfds)
           /\ \A k \in DOMAIN pfds : /\ pfds[k] \in Entry /\ pfds[k].fd \in Fd
                                     /\ pfds[k].events \in SUBSET Bit
<1>1. pfds \in Seq(Entry)
  BY DEF TypeOK
<1>2. /\ Len(pfds) \in Nat /\ DOMAIN pfds = 1..Len(pfds)
      /\ \A k \in DOMAIN pfds : pfds[k] \in Entry
  BY <1>1
<1> QED BY <1>2 DEF Entry

\* FindEventFd returns an index with events when there is one.
LEMMA ScanFinds ==
    ASSUME TypeOK, \E k \in DOMAIN pfds : Revents(k) # {}
    PROVE  /\ FindEventFd(Len(pfds)) \in Nat
           /\ FindEventFd(Len(pfds)) + 1 \in DOMAIN pfds
           /\ Revents(FindEventFd(Len(pfds)) + 1) # {}
<1> DEFINE n == Len(pfds)
           T == {k \in 0..(n - 1) : Revents(((k + i) % n) + 1) # {}}
<1>1. PICK j \in 1..n : Revents(j) # {}
  BY VectorFacts
<1>2. n \in Nat \ {0} /\ j - 1 \in 0..(n - 1) /\ i \in Nat /\ j - 1 + 1 = j
  BY VectorFacts DEF TypeOK
<1> HIDE DEF n
<1>3. PICK k \in 0..(n - 1) : (k + i) % n = j - 1
  BY <1>2, ScanMeets
<1>4. k \in T /\ T \subseteq Nat
  BY <1>1, <1>2, <1>3
<1> HIDE DEF T
<1>5. PICK m \in T : \A l \in T : ~(l < m)
  BY <1>4, Smallest
<1>6. \E c \in 0..(n - 1) :
          /\ Revents(((c + i) % n) + 1) # {}
          /\ \A l \in 0..(n - 1) : l < c => Revents(((l + i) % n) + 1) = {}
  BY <1>5 DEF T
<1> DEFINE Chosen(c) == /\ Revents(((c + i) % n) + 1) # {}
                        /\ \A l \in 0..(n - 1) : l < c => Revents(((l + i) % n) + 1) = {}
           p == CHOOSE c \in 0..(n - 1) : Chosen(c)
<1>7. p \in 0..(n - 1) /\ Chosen(p)
  BY <1>6
<1>8. FindEventFd(n) = (p + i) % n
  BY DEF FindEventFd
<1>9. Revents(FindEventFd(n) + 1) # {}
  BY <1>7, <1>8
<1> HIDE DEF p
<1>10. FindEventFd(n) \in 0..(n - 1)
  <2>1. p + i \in Nat
    BY <1>2, <1>7
  <2> QED BY <1>2, <1>8, <2>1, DivMod
<1> QED BY <1>2, <1>9, <1>10, VectorFacts DEF n

-----------------------------------------------------------------------------
(* The vector: no operation makes a second entry of a descriptor *)

\* In a vector without duplicates the first entry of a descriptor is its only one.
LEMMA FirstIsOnly ==
    ASSUME NEW p, NEW k \in DOMAIN p,
           \A l, m \in DOMAIN p : p[l].fd = p[m].fd => l = m,
           \A l \in DOMAIN p : ~(l < l)
    PROVE  (CHOOSE l \in DOMAIN p : /\ p[l].fd = p[k].fd
                                    /\ \A m \in DOMAIN p : m < l => p[m].fd # p[k].fd) = k
  OBVIOUS

LEMMA FoundIsOnly ==
    ASSUME IInv, NEW k \in DOMAIN pfds
    PROVE  FindPollFd(pfds[k].fd) = k
<1>1. \A l \in DOMAIN pfds : ~(l < l)
  BY VectorFacts DEF IInv
<1> QED BY <1>1, FirstIsOnly DEF IInv, NoDuplicates, FindPollFd

LEMMA EraseFacts ==
    ASSUME IInv, NEW k \in DOMAIN pfds, NEW q, q = Erase(pfds, k)
    PROVE  /\ q \in Seq(Entry) /\ DOMAIN q = 1..(Len(pfds) - 1)
           /\ \A l \in DOMAIN q : /\ l \in DOMAIN pfds
                                  /\ q[l] = IF l = k THEN pfds[Len(pfds)] ELSE pfds[l]
<1>1. /\ Len(pfds) \in Nat /\ DOMAIN pfds = 1..Len(pfds) /\ Len(pfds) \in DOMAIN pfds
      /\ \A l \in DOMAIN pfds : pfds[l] \in Entry
  BY VectorFacts DEF IInv
<1> DEFINE n == Len(pfds) - 1
<1>2. n \in Nat /\ \A l \in 1..n : l \in DOMAIN pfds
  BY <1>1
<1>3. q = [l \in 1..n |-> IF l = k THEN pfds[Len(pfds)] ELSE pfds[l]]
  BY DEF Erase
<1> HIDE DEF n
<1>4. q \in [1..n -> Entry]
  BY <1>1, <1>2, <1>3
<1>5. q \in Seq(Entry)
  BY <1>2, <1>4, SeqDef
<1> QED BY <1>1, <1>2, <1>3, <1>5 DEF n

\* What happens to the vector: entries are added, erased and rewritten.
LEMMA Changes ==
    ASSUME IInv, [Next]_vars
    PROVE  \/ \E f \in Fd, m \in SUBSET Bit : AddFd(f, m)
           \/ \E f \in Fd : Member(f) /\ RmFd(f)
           \/ \E f \in Fd, m \in SUBSET Bit : SetMask(f, m)
           \/ \E f \in Fd, m \in SUBSET Bit : Arrive(f, m)
           \/ Poll
           \/ UNCHANGED vars
<1>1. ASSUME NEW f \in Fd, NEW m \in SUBSET Bit, AddEvMask(f, m) \/ RmEvMask(f, m)
      PROVE  \E b \in SUBSET Bit : SetMask(f, b)
  <2>1. PICK k \in DOMAIN pfds : pfds[k].fd = f
    BY <1>1 DEF AddEvMask, RmEvMask, Member
  <2>2. pfds[FindPollFd(f)].events \in SUBSET Bit
    BY <2>1, FoundIsOnly, VectorFacts DEF IInv
  <2>3. /\ pfds[FindPollFd(f)].events \union m \in SUBSET Bit
        /\ pfds[FindPollFd(f)].events \ m \in SUBSET Bit
    BY <2>2
  <2> QED BY <1>1, <2>3 DEF AddEvMask, RmEvMask
<1>2. ASSUME NEW f \in Fd, RmFd(f), ~Member(f)
      PROVE  UNCHANGED vars
  BY <1>2 DEF RmFd, vars
<1>3. CASE \E f \in Fd, m \in (SUBSET Bit) \ {{}} :
              AddFd(f, m) \/ AddEvMask(f, m) \/ RmEvMask(f, m)
  BY <1>1, <1>3
<1>4. CASE \E f \in Fd : RmFd(f)
  BY <1>2, <1>4
<1> QED BY <1>3, <1>4 DEF Next

LEMMA InvInit == Init => IInv
<1>1. <<>> \in Seq(Entry) /\ DOMAIN <<>> = {}
  BY EmptySeq
<1> QED BY <1>1 DEF Init, IInv, TypeOK, NoDuplicates, NoFd

LEMMA InvNext == IInv /\ [Next]_vars => IInv'
<1> SUFFICES ASSUME IInv, [Next]_vars PROVE IInv'
  OBVIOUS
<1>0. /\ pfds \in Seq(Entry) /\ i \in Nat /\ has \in [Fd -> SUBSET Bit]
      /\ got \in [fd : Fd \union {Unregistered}, ev : SUBSET Bit]
      /\ Len(pfds) \in Nat /\ DOMAIN pfds = 1..Len(pfds)
      /\ \A k \in DOMAIN pfds : pfds[k] \in Entry
  BY VectorFacts DEF IInv, TypeOK
<1>1. ASSUME NEW f \in Fd, NEW m \in SUBSET Bit, AddFd(f, m) PROVE IInv'
  <2> DEFINE e == [fd |-> f, events |-> m]
  <2>1. e \in Entry /\ e.fd = f
    BY DEF Entry
  <2>2. pfds' = Append(pfds, e) /\ UNCHANGED <<i, has, got>> /\ ~Member(f)
    BY <1>1 DEF AddFd
  <2> HIDE DEF e
  <2>3. /\ pfds' \in Seq(Entry) /\ DOMAIN pfds' = 1..(Len(pfds) + 1)
        /\ \A k \in 1..Len(pfds) : pfds'[k] = pfds[k]
        /\ pfds'[Len(pfds) + 1] = e
    BY <1>0, <2>1, <2>2, AppendProperties
  <2>4. \A k \in DOMAIN pfds' : k \in DOMAIN pfds \/ k = Len(pfds) + 1
    BY <1>0, <2>3
  <2>5. \A k \in DOMAIN pfds : pfds[k].fd # e.fd
    BY <2>1, <2>2 DEF Member
  <2>6. NoDuplicates'
    BY <1>0, <2>3, <2>4, <2>5 DEF IInv, NoDuplicates
  <2> QED BY <1>0, <2>2, <2>3, <2>6 DEF IInv, TypeOK
<1>2. ASSUME NEW f \in Fd, Member(f), RmFd(f) PROVE IInv'
  <2>1. PICK k \in DOMAIN pfds : pfds[k].fd = f
    BY <1>2 DEF Member
  <2>2. pfds' = Erase(pfds, k) /\ UNCHANGED <<i, has, got>>
    BY <1>2, <2>1, FoundIsOnly DEF RmFd
  <2>3. /\ pfds' \in Seq(Entry) /\ DOMAIN pfds' = 1..(Len(pfds) - 1)
        /\ \A l \in DOMAIN pfds' :
              /\ l \in DOMAIN pfds
              /\ pfds'[l] = IF l = k THEN pfds[Len(pfds)] ELSE pfds[l]
    BY <2>2, EraseFacts
  <2>4. \A l \in DOMAIN pfds' : l # Len(pfds) /\ Len(pfds) \in DOMAIN pfds
    BY <1>0, <2>1, <2>3
  <2>5. NoDuplicates'
    BY <2>3, <2>4 DEF IInv, NoDuplicates
  <2> QED BY <1>0, <2>2, <2>3, <2>5 DEF IInv, TypeOK
<1>3. ASSUME NEW f \in Fd, NEW m \in SUBSET Bit, SetMask(f, m) PROVE IInv'
  <2>1. PICK k \in DOMAIN pfds : pfds[k].fd = f
    BY <1>3 DEF SetMask, Member
  <2> DEFINE e == [pfds[k] EXCEPT !.events = m]
  <2>2. pfds' = [pfds EXCEPT ![k] = e] /\ UNCHANGED <<i, has, got>>
    BY <1>3, <2>1, FoundIsOnly DEF SetMask
  <2>3. e \in Entry /\ e.fd = pfds[k].fd
    BY <1>0 DEF Entry
  <2> HIDE DEF e
  <2>4. pfds' \in Seq(Entry) /\ DOMAIN pfds' = DOMAIN pfds
    BY <1>0, <2>2, <2>3
  <2>5. \A l \in DOMAIN pfds : pfds'[l].fd = pfds[l].fd
    BY <1>0, <2>2, <2>3
  <2>6. NoDuplicates'
    BY <2>4, <2>5 DEF IInv, NoDuplicates
  <2> QED BY <1>0, <2>2, <2>4, <2>6 DEF IInv, TypeOK
<1>4. ASSUME NEW f \in Fd, NEW m \in SUBSET Bit, Arrive(f, m) PROVE IInv'
  <2>1. has' \in [Fd -> SUBSET Bit] /\ UNCHANGED <<pfds, i, got>>
    BY <1>0, <1>4 DEF Arrive
  <2> QED BY <2>1 DEF IInv, TypeOK, NoDuplicates
<1>5. CASE Poll
  <2>1. CASE \A k \in DOMAIN pfds : Revents(k) = {}
    <3>1. UNCHANGED <<pfds, i, has>> /\ got' = NoFd
      BY <1>5, <2>1 DEF Poll
    <3> QED BY <1>0, <3>1 DEF IInv, TypeOK, NoDuplicates, NoFd
  <2>2. CASE \E k \in DOMAIN pfds : Revents(k) # {}
    <3>1. /\ i' = FindEventFd(Len(pfds)) /\ pfds' = pfds
          /\ got' = [fd |-> pfds[i' + 1].fd, ev |-> Revents(i' + 1)]
          /\ has' \in {has, [has EXCEPT ![got'.fd] = {}]}
      BY <1>5, <2>2 DEF Poll
    <3>2. i' \in Nat /\ i' + 1 \in DOMAIN pfds
      BY <2>2, <3>1, ScanFinds DEF IInv
    <3>3. got' \in [fd : Fd \union {Unregistered}, ev : SUBSET Bit]
      BY <1>0, <3>1, <3>2 DEF Entry, Revents
    <3>4. has' \in [Fd -> SUBSET Bit]
      BY <1>0, <3>1
    <3> QED BY <1>0, <3>1, <3>2, <3>3, <3>4 DEF IInv, TypeOK, NoDuplicates
  <2> QED BY <2>1, <2>2
<1>6. CASE UNCHANGED vars
  BY <1>6 DEF IInv, TypeOK, NoDuplicates, vars
<1> QED BY <1>1, <1>2, <1>3, <1>4, <1>5, <1>6, Changes

\* A descriptor is at most once in the vector and the variables keep their types.
THEOREM PollerInvariant == Spec => []IInv
  BY InvInit, InvNext, PTL DEF Spec

\* Every variable keeps its type; the vector, that of pollfd with masks of Bit.
THEOREM PollerTypeCorrect == Spec => []TypeOK
<1>1. IInv => TypeOK
  BY DEF IInv
<1> QED BY <1>1, PollerInvariant, PTL

\* The vector holds a descriptor at most once, however AddFd and RmFd (whose
\* erase swaps with the last element) alternate.
THEOREM OneEntryEach == Spec => []NoDuplicates
<1>1. IInv => NoDuplicates
  BY DEF IInv
<1> QED BY <1>1, PollerInvariant, PTL

-----------------------------------------------------------------------------
(* The vector implements the map of PollSet *)

\* Watched, as a function of the vector.
Holds(p, f) == \E k \in DOMAIN p : p[k].fd = f
First(p, f) == CHOOSE k \in DOMAIN p : /\ p[k].fd = f
                                       /\ \A l \in DOMAIN p : l < k => p[l].fd # f
MapOf(p)    == [f \in Fd |-> IF Holds(p, f) THEN p[First(p, f)].events ELSE Unregistered]

LEMMA WatchedIs == Watched = MapOf(pfds) /\ Watched' = MapOf(pfds')
  BY DEF Watched, MapOf, Holds, First, Member, FindPollFd

LEMMA MapFacts ==
    ASSUME NEW p \in Seq(Entry), \A l, m \in DOMAIN p : p[l].fd = p[m].fd => l = m
    PROVE  /\ \A k \in DOMAIN p : MapOf(p)[p[k].fd] = p[k].events
           /\ \A f \in Fd : Holds(p, f) <=> MapOf(p)[f] # Unregistered
<1>1. /\ DOMAIN p = 1..Len(p) /\ Len(p) \in Nat
      /\ \A k \in DOMAIN p : p[k] \in Entry
  OBVIOUS
<1>2. \A k \in DOMAIN p : /\ p[k].fd \in Fd /\ p[k].events # Unregistered
                          /\ ~(k < k)
  BY <1>1, PollerAssumption DEF Entry
<1>3. ASSUME NEW k \in DOMAIN p PROVE MapOf(p)[p[k].fd] = p[k].events
  <2>1. First(p, p[k].fd) = k
    BY <1>2, FirstIsOnly DEF First
  <2> QED BY <1>2, <2>1 DEF MapOf, Holds
<1>4. \A f \in Fd : Holds(p, f) => MapOf(p)[f] # Unregistered
  BY <1>2, <1>3 DEF Holds
<1>5. \A f \in Fd : ~Holds(p, f) => MapOf(p)[f] = Unregistered
  BY DEF MapOf
<1> QED BY <1>3, <1>4, <1>5

\* A vector that gives every descriptor but f its old events is a new map.
LEMMA ChangedAt ==
    ASSUME NEW p \in Seq(Entry), \A l, m \in DOMAIN p : p[l].fd = p[m].fd => l = m,
           NEW q \in Seq(Entry), \A l, m \in DOMAIN q : q[l].fd = q[m].fd => l = m,
           NEW f \in Fd,
           \A k \in DOMAIN p : p[k].fd # f => \E l \in DOMAIN q : q[l] = p[k],
           \A l \in DOMAIN q : q[l].fd # f => \E k \in DOMAIN p : q[l] = p[k]
    PROVE  MapOf(q) = [MapOf(p) EXCEPT ![f] = MapOf(q)[f]]
<1> DEFINE r == [MapOf(p) EXCEPT ![f] = MapOf(q)[f]]
<1>1. \A g \in Fd : r[g] = IF g = f THEN MapOf(q)[f] ELSE MapOf(p)[g]
  BY DEF MapOf
<1>2. ASSUME NEW g \in Fd, g # f PROVE MapOf(q)[g] = MapOf(p)[g]
  <2>1. CASE Holds(p, g)
    <3>1. PICK k \in DOMAIN p : p[k].fd = g
      BY <2>1 DEF Holds
    <3>2. PICK l \in DOMAIN q : q[l] = p[k]
      BY <1>2, <3>1
    <3> QED BY <3>1, <3>2, MapFacts
  <2>2. CASE ~Holds(p, g)
    <3>1. ~Holds(q, g)
      BY <1>2, <2>2 DEF Holds
    <3> QED BY <2>2, <3>1 DEF MapOf
  <2> QED BY <2>1, <2>2
<1>3. DOMAIN MapOf(q) = Fd /\ DOMAIN r = Fd
  BY DEF MapOf
<1>4. MapOf(q) = [g \in Fd |-> MapOf(q)[g]] /\ r = [g \in Fd |-> r[g]]
  BY DEF MapOf
<1> HIDE DEF r
<1>5. MapOf(q) = r
  BY <1>1, <1>2, <1>4
<1> QED BY <1>5 DEF r

LEMMA MapType ==
    ASSUME NEW p \in Seq(Entry), \A l, m \in DOMAIN p : p[l].fd = p[m].fd => l = m,
           NEW f \in Fd
    PROVE  MapOf(p)[f] \in (SUBSET Bit) \union {Unregistered}
<1>1. CASE Holds(p, f)
  <2>1. PICK k \in DOMAIN p : p[k].fd = f
    BY <1>1 DEF Holds
  <2>2. p[k] \in Entry
    OBVIOUS
  <2> QED BY <2>1, <2>2, MapFacts DEF Entry
<1>2. CASE ~Holds(p, f)
  BY <1>2 DEF MapOf
<1> QED BY <1>1, <1>2

LEMMA RefineInit == Init => PS!Init
<1> SUFFICES ASSUME Init PROVE PS!Init
  OBVIOUS
<1>1. \A f \in Fd : ~Holds(pfds, f)
  <2>1. DOMAIN pfds = {}
    BY DEF Init
  <2> QED BY <2>1 DEF Holds
<1>2. Watched = [f \in Fd |-> Unregistered]
  BY <1>1, WatchedIs DEF MapOf
<1> QED BY <1>2 DEF Init, NoFd, PS!Init, PS!NoFd

\* A change of the vector that concerns one descriptor changes its events in
\* the map and nothing else.
LEMMA OneChange ==
    ASSUME IInv, IInv', NEW f \in Fd,
           \A k \in DOMAIN pfds : pfds[k].fd # f => \E l \in DOMAIN pfds' : pfds'[l] = pfds[k],
           \A l \in DOMAIN pfds' : pfds'[l].fd # f => \E k \in DOMAIN pfds : pfds'[l] = pfds[k]
    PROVE  /\ Becomes(f, MapOf(pfds')[f])
           /\ \A k \in DOMAIN pfds : MapOf(pfds)[pfds[k].fd] = pfds[k].events
           /\ \A l \in DOMAIN pfds' : MapOf(pfds')[pfds'[l].fd] = pfds'[l].events
<1>1. /\ pfds \in Seq(Entry) /\ \A l, m \in DOMAIN pfds : pfds[l].fd = pfds[m].fd => l = m
      /\ pfds' \in Seq(Entry)
      /\ \A l, m \in DOMAIN pfds' : pfds'[l].fd = pfds'[m].fd => l = m
  BY DEF IInv, TypeOK, NoDuplicates
<1> DEFINE m == MapOf(pfds')[f]
<1>2. MapOf(pfds') = [MapOf(pfds) EXCEPT ![f] = m]
  BY <1>1, ChangedAt
<1> HIDE DEF m
<1>3. Becomes(f, m)
  BY <1>2, WatchedIs DEF Becomes
<1>4. /\ \A k \in DOMAIN pfds : MapOf(pfds)[pfds[k].fd] = pfds[k].events
      /\ \A l \in DOMAIN pfds' : MapOf(pfds')[pfds'[l].fd] = pfds'[l].events
  BY <1>1, MapFacts
<1> QED BY <1>3, <1>4 DEF m

LEMMA AddIs ==
    ASSUME IInv, IInv', NEW f \in Fd, NEW m \in SUBSET Bit, AddFd(f, m)
    PROVE  Becomes(f, m)
<1>0. /\ Len(pfds) \in Nat /\ DOMAIN pfds = 1..Len(pfds) /\ pfds \in Seq(Entry)
  BY VectorFacts DEF IInv, TypeOK
<1> DEFINE e == [fd |-> f, events |-> m]
<1>1. pfds' = Append(pfds, e) /\ e.fd = f /\ e.events = m /\ e \in Entry
  BY DEF AddFd, Entry
<1> HIDE DEF e
<1>2. /\ DOMAIN pfds' = 1..(Len(pfds) + 1) /\ pfds'[Len(pfds) + 1] = e
      /\ \A k \in DOMAIN pfds : k \in DOMAIN pfds' /\ pfds'[k] = pfds[k]
      /\ \A l \in DOMAIN pfds' : l \in DOMAIN pfds \/ l = Len(pfds) + 1
  <2>1. /\ pfds' \in Seq(Entry) /\ Len(pfds') = Len(pfds) + 1
        /\ \A k \in 1..Len(pfds) : pfds'[k] = pfds[k]
        /\ pfds'[Len(pfds) + 1] = e
    BY <1>0, <1>1, AppendProperties
  <2>2. DOMAIN pfds' = 1..(Len(pfds) + 1)
    BY <2>1
  <2> QED BY <1>0, <2>1, <2>2
<1>3. Len(pfds) + 1 \in DOMAIN pfds'
  BY <1>0, <1>2
<1>4. Becomes(f, MapOf(pfds')[f]) /\ MapOf(pfds')[e.fd] = e.events
  BY <1>1, <1>2, <1>3, OneChange
<1> QED BY <1>1, <1>4

LEMMA RmIs ==
    ASSUME IInv, IInv', NEW f \in Fd, RmFd(f)
    PROVE  Becomes(f, Unregistered)
<1>0. /\ Len(pfds) \in Nat /\ DOMAIN pfds = 1..Len(pfds) /\ pfds \in Seq(Entry)
  BY VectorFacts DEF IInv, TypeOK
<1>1. CASE ~Member(f)
  <2>1. pfds' = pfds
    BY <1>1 DEF RmFd
  <2>2. Watched' = Watched /\ Watched[f] = Unregistered /\ Watched = [g \in Fd |-> Watched[g]]
    BY <1>1, <2>1, WatchedIs DEF Watched
  <2> QED BY <2>2 DEF Becomes
<1>2. CASE Member(f)
  <2>1. PICK k \in DOMAIN pfds : pfds[k].fd = f
    BY <1>2 DEF Member
  <2>2. pfds' = Erase(pfds, k)
    BY <1>2, <2>1, FoundIsOnly DEF RmFd
  <2>3. /\ DOMAIN pfds' = 1..(Len(pfds) - 1) /\ Len(pfds) \in DOMAIN pfds
        /\ \A l \in DOMAIN pfds' :
              /\ l \in DOMAIN pfds
              /\ pfds'[l] = IF l = k THEN pfds[Len(pfds)] ELSE pfds[l]
    BY <1>0, <2>1, <2>2, EraseFacts
  <2>4. \A l \in DOMAIN pfds' : \E j \in DOMAIN pfds : pfds'[l] = pfds[j] /\ j # k
    BY <1>0, <2>3
  <2>5. \A j \in DOMAIN pfds : pfds[j].fd # f => \E l \in DOMAIN pfds' : pfds'[l] = pfds[j]
    <3> SUFFICES ASSUME NEW j \in DOMAIN pfds, pfds[j].fd # f
                 PROVE  \E l \in DOMAIN pfds' : pfds'[l] = pfds[j]
      OBVIOUS
    <3>1. j # k
      BY <2>1
    <3>2. CASE j # Len(pfds)
      <4>1. j \in DOMAIN pfds'
        BY <1>0, <2>3, <3>2
      <4> QED BY <2>3, <3>1, <4>1
    <3>3. CASE j = Len(pfds)
      <4>1. k \in DOMAIN pfds'
        BY <1>0, <2>3, <3>1, <3>3
      <4> QED BY <2>3, <3>3, <4>1
    <3> QED BY <3>2, <3>3
  <2>6. Becomes(f, MapOf(pfds')[f])
    BY <2>4, <2>5, OneChange
  <2>7. \A j \in DOMAIN pfds : j # k => pfds[j].fd # f
    BY <2>1 DEF IInv, NoDuplicates
  <2>8. ~Holds(pfds', f)
    BY <2>4, <2>7 DEF Holds
  <2>9. MapOf(pfds')[f] = Unregistered
    BY <2>8 DEF MapOf
  <2> QED BY <2>6, <2>9
<1> QED BY <1>1, <1>2

LEMMA SetIs ==
    ASSUME IInv, IInv', NEW f \in Fd, NEW m \in SUBSET Bit, SetMask(f, m)
    PROVE  Becomes(f, m)
<1>0. /\ Len(pfds) \in Nat /\ DOMAIN pfds = 1..Len(pfds) /\ pfds \in Seq(Entry)
  BY VectorFacts DEF IInv, TypeOK
<1>1. PICK k \in DOMAIN pfds : pfds[k].fd = f
  BY DEF SetMask, Member
<1> DEFINE e == [pfds[k] EXCEPT !.events = m]
<1>2. pfds' = [pfds EXCEPT ![k] = e]
  BY <1>1, FoundIsOnly DEF SetMask
<1>3. pfds[k] \in Entry
  BY <1>0
<1>4. e.fd = f /\ e.events = m
  BY <1>1, <1>3 DEF Entry
<1> HIDE DEF e
<1>5. /\ DOMAIN pfds' = DOMAIN pfds /\ pfds'[k] = e
      /\ \A l \in DOMAIN pfds : l # k => pfds'[l] = pfds[l]
  BY <1>0, <1>2
<1>6. Becomes(f, MapOf(pfds')[f]) /\ MapOf(pfds')[e.fd] = e.events
  BY <1>1, <1>4, <1>5, OneChange
<1> QED BY <1>4, <1>6

\* A change of one descriptor's events is a step of the map.
LEMMA RefineChange ==
    ASSUME NEW f \in Fd, NEW m \in (SUBSET Bit) \union {Unregistered},
           Becomes(f, m), UNCHANGED <<has, got>>
    PROVE  PS!Change
  BY DEF Becomes, PS!Change, PS!Watch

LEMMA RefinePoll == IInv /\ Poll => PS!Poll
<1> SUFFICES ASSUME IInv, Poll PROVE PS!Poll
  OBVIOUS
<1>0. /\ pfds \in Seq(Entry) /\ \A l, m \in DOMAIN pfds : pfds[l].fd = pfds[m].fd => l = m
      /\ \A k \in DOMAIN pfds : pfds[k].fd \in Fd
  BY VectorFacts DEF IInv, TypeOK, NoDuplicates
<1>1. pfds' = pfds
  BY DEF Poll
<1>2. Watched' = Watched
  BY <1>1, WatchedIs
<1>3. \A k \in DOMAIN pfds : /\ pfds[k].fd \in PS!Registered
                             /\ PS!Due(pfds[k].fd) = Revents(k)
  <2>1. \A k \in DOMAIN pfds : /\ Watched[pfds[k].fd] = pfds[k].events
                               /\ Watched[pfds[k].fd] # Unregistered
    BY <1>0, WatchedIs, MapFacts DEF Holds
  <2> QED BY <1>0, <2>1 DEF PS!Registered, PS!Due, Revents
<1>4. \A f \in PS!Registered : \E k \in DOMAIN pfds : pfds[k].fd = f
  BY <1>0, WatchedIs, MapFacts DEF PS!Registered, Holds
<1>5. CASE \A k \in DOMAIN pfds : Revents(k) = {}
  <2>1. got' = NoFd /\ has' = has
    BY <1>5 DEF Poll
  <2>2. \A f \in PS!Registered : PS!Due(f) = {}
    BY <1>3, <1>4, <1>5
  <2> QED BY <1>2, <2>1, <2>2 DEF PS!Poll, PS!NoFd, NoFd
<1>6. CASE \E k \in DOMAIN pfds : Revents(k) # {}
  <2>1. /\ i' = FindEventFd(Len(pfds))
        /\ got' = [fd |-> pfds[i' + 1].fd, ev |-> Revents(i' + 1)]
        /\ has' \in {has, [has EXCEPT ![got'.fd] = {}]}
    BY <1>6 DEF Poll
  <2> DEFINE k == i' + 1
             f == pfds[k].fd
  <2>2. k \in DOMAIN pfds /\ Revents(k) # {}
    BY <1>6, <2>1, ScanFinds DEF IInv
  <2>3. got' = [fd |-> f, ev |-> Revents(k)] /\ has' \in {has, [has EXCEPT ![f] = {}]}
    BY <2>1
  <2> HIDE DEF k
  <2>4. f \in PS!Registered /\ PS!Due(f) = Revents(k)
    BY <1>3, <2>2
  <2> HIDE DEF f
  <2>5. PS!Serve(f)
    BY <2>2, <2>3, <2>4 DEF PS!Serve
  <2> QED BY <1>2, <2>4, <2>5 DEF PS!Poll
<1> QED BY <1>5, <1>6

LEMMA RefineNext == IInv /\ IInv' /\ [Next]_vars => [PS!Next]_(PS!vars)
<1> SUFFICES ASSUME IInv, IInv', [Next]_vars PROVE [PS!Next]_(PS!vars)
  OBVIOUS
<1>0. /\ Len(pfds) \in Nat /\ DOMAIN pfds = 1..Len(pfds) /\ pfds \in Seq(Entry)
  BY VectorFacts DEF IInv, TypeOK
<1>1. ASSUME NEW f \in Fd, NEW m \in SUBSET Bit, AddFd(f, m) PROVE PS!Change
  BY <1>1, AddIs, RefineChange DEF AddFd
<1>2. ASSUME NEW f \in Fd, Member(f), RmFd(f) PROVE PS!Change
  BY <1>2, RmIs, RefineChange DEF RmFd
<1>3. ASSUME NEW f \in Fd, NEW m \in SUBSET Bit, SetMask(f, m) PROVE PS!Change
  BY <1>3, SetIs, RefineChange DEF SetMask
<1>4. ASSUME NEW f \in Fd, NEW m \in SUBSET Bit, Arrive(f, m) PROVE PS!Arrive
  <2>1. has' \in [Fd -> SUBSET Bit] /\ pfds' = pfds /\ got' = got
    BY <1>4 DEF IInv, TypeOK, Arrive
  <2>2. Watched' = Watched
    BY <2>1, WatchedIs
  <2> QED BY <2>1, <2>2 DEF PS!Arrive
<1>5. CASE UNCHANGED vars
  <2>1. Watched' = Watched /\ has' = has /\ got' = got
    BY <1>5, WatchedIs DEF vars
  <2> QED BY <2>1 DEF PS!vars
<1> QED BY <1>1, <1>2, <1>3, <1>4, <1>5, Changes, RefinePoll DEF PS!Next

\* The vector with its swapping erase and its cursor behaves as the map the
\* server relies on: each operation changes the events of its own descriptor
\* only, and Poll misses no descriptor that has events.
THEOREM PollerImplementsPollSet == Spec => RefinesPollSet
  BY PollerInvariant, RefineInit, RefineNext, PTL DEF Spec, RefinesPollSet, PS!Spec

\* Each operation changes the events of the descriptor it was called for.
THEOREM RightEntry == Spec => OperationsExact
<1> DEFINE Exact == \A f \in Fd, m \in SUBSET Bit :
                      /\ AddFd(f, m)     => Becomes(f, m)
                      /\ RmFd(f)         => Becomes(f, Unregistered)
                      /\ AddEvMask(f, m) => Becomes(f, Watched[f] \union m)
                      /\ RmEvMask(f, m)  => Becomes(f, Watched[f] \ m)
<1>1. IInv /\ IInv' => Exact
  <2> SUFFICES ASSUME IInv, IInv', NEW f \in Fd, NEW m \in SUBSET Bit
               PROVE  /\ AddFd(f, m)     => Becomes(f, m)
                      /\ RmFd(f)         => Becomes(f, Unregistered)
                      /\ AddEvMask(f, m) => Becomes(f, Watched[f] \union m)
                      /\ RmEvMask(f, m)  => Becomes(f, Watched[f] \ m)
    OBVIOUS
  <2>1. ASSUME Member(f)
        PROVE  Watched[f] = pfds[FindPollFd(f)].events /\ Watched[f] \in SUBSET Bit
    <3>1. Watched[f] = pfds[FindPollFd(f)].events
      BY <2>1 DEF Watched
    <3>2. PICK k \in DOMAIN pfds : pfds[k].fd = f
      BY <2>1 DEF Member
    <3>3. FindPollFd(f) = k /\ pfds[k].events \in SUBSET Bit
      BY <3>2, FoundIsOnly, VectorFacts DEF IInv
    <3> QED BY <3>1, <3>3
  <2>2. AddEvMask(f, m) => Becomes(f, Watched[f] \union m)
    <3> SUFFICES ASSUME AddEvMask(f, m) PROVE Becomes(f, Watched[f] \union m)
      OBVIOUS
    <3>1. Watched[f] \union m \in SUBSET Bit /\ SetMask(f, Watched[f] \union m)
      BY <2>1 DEF AddEvMask
    <3> QED BY <3>1, SetIs
  <2>3. RmEvMask(f, m) => Becomes(f, Watched[f] \ m)
    <3> SUFFICES ASSUME RmEvMask(f, m) PROVE Becomes(f, Watched[f] \ m)
      OBVIOUS
    <3>1. Watched[f] \ m \in SUBSET Bit /\ SetMask(f, Watched[f] \ m)
      BY <2>1 DEF RmEvMask
    <3> QED BY <3>1, SetIs
  <2> QED BY <2>2, <2>3, AddIs, RmIs
<1>2. IInv /\ IInv' => [Exact]_vars
  BY <1>1
<1> QED BY PollerInvariant, <1>2, PTL DEF OperationsExact

-----------------------------------------------------------------------------
(* The cursor *)

LEMMA ScanStaysPut ==
    ASSUME TypeOK, i + 1 \in DOMAIN pfds, Revents(i + 1) # {}
    PROVE  FindEventFd(Len(pfds)) = i
<1> DEFINE n == Len(pfds)
           Found(k) == /\ Revents(((k + i) % n) + 1) # {}
                       /\ \A l \in 0..(n - 1) : l < k => Revents(((l + i) % n) + 1) = {}
           k0 == CHOOSE k \in 0..(n - 1) : Found(k)
<1>1. n \in Nat \ {0} /\ i \in 0..(n - 1) /\ 0 \in 0..(n - 1)
  BY VectorFacts DEF TypeOK
<1> HIDE DEF n
<1>2. (0 + i) % n = i
  <2>1. 0 + i \in Nat /\ 0 + i = n * 0 + i
    BY <1>1, Z3
  <2> QED BY <1>1, <2>1, ModIs
<1>3. Found(0)
  BY <1>1, <1>2
<1>4. \A k \in 0..(n - 1) : Found(k) => k = 0
  BY <1>1, <1>2
<1>5. k0 \in 0..(n - 1) /\ Found(k0)
  <2> HIDE DEF Found
  <2> QED BY <1>1, <1>3
<1> HIDE DEF Found
<1>6. k0 = 0
  BY <1>4, <1>5
<1>7. FindEventFd(n) = (k0 + i) % n
  BY DEF FindEventFd, Found
<1> QED BY <1>2, <1>6, <1>7 DEF n

\* Poll returns the descriptor served last again for as long as it has events.
THEOREM CursorStays == Spec => StickyCursor
<1> DEFINE Stays == Poll /\ i + 1 \in DOMAIN pfds /\ Revents(i + 1) # {} => i' = i
<1>1. IInv => Stays
  <2> SUFFICES ASSUME IInv, Poll, i + 1 \in DOMAIN pfds, Revents(i + 1) # {}
               PROVE  i' = i
    OBVIOUS
  <2>1. i' = FindEventFd(Len(pfds))
    BY DEF Poll
  <2> QED BY <2>1, ScanStaysPut DEF IInv
<1>2. Spec => [][Stays]_vars
  <2> HIDE DEF Stays
  <2> QED BY <1>1, PollerInvariant, PTL
<1> QED BY <1>2 DEF StickyCursor, Stays
=============================================================================
