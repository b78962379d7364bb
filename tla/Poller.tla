------------------------------- MODULE Poller -------------------------------
(***************************************************************************)
(* IO::Poller (src/sources/netlib/io/poller.cc) over mut_std::vector       *)
(* (src/sources/common/fast_vector.h): a vector of pollfd, searched by     *)
(* descriptor, whose erase swaps with the last element, and a cursor __i   *)
(* from which Poll looks for a descriptor with events.                     *)
(*                                                                         *)
(* The callers register a descriptor at most once and change masks of      *)
(* registered descriptors only (HttpServer's PollerMatchesTables); an      *)
(* absent descriptor may be removed, which does nothing.                   *)
(***************************************************************************)
EXTENDS Naturals, Sequences

CONSTANTS
    Fd,           \* descriptors
    Bit,          \* event bits
    Unregistered  \* a value that is neither a descriptor nor a set of bits

ASSUME PollerAssumption ==
    Unregistered \notin Fd /\ \A m \in SUBSET Bit : m # Unregistered

VARIABLES
    pfds,  \* __pfds: sequence of [fd, events]
    i,     \* __i, from 0
    has,   \* the kernel: the events each descriptor has
    got    \* the last result of Poll

vars == <<pfds, i, has, got>>

Entry == [fd : Fd, events : SUBSET Bit]
NoFd  == [fd |-> Unregistered, ev |-> {}]

Init == /\ pfds = <<>> /\ i = 0
        /\ has = [f \in Fd |-> {}]
        /\ got = NoFd

Member(f)  == \E k \in DOMAIN pfds : pfds[k].fd = f
Revents(k) == pfds[k].events \intersect has[pfds[k].fd]

\* The first index that holds f.
FindPollFd(f) == CHOOSE k \in DOMAIN pfds :
                    /\ pfds[k].fd = f
                    /\ \A l \in DOMAIN pfds : l < k => pfds[l].fd # f

\* mut_std::vector::erase
PopLast(q, k) == [l \in 1..(Len(q) - 1) |-> q[l]]                 \* mutant
Tombstone(q, k) == [q EXCEPT ![k].fd = Unregistered]              \* mutant
Duplicate(q, k) == [l \in 1..Len(q) |-> IF l = k THEN q[Len(q)] ELSE q[l]]  \* mutant
Erase(q, k) == [l \in 1..(Len(q) - 1) |-> IF l = k THEN q[Len(q)] ELSE q[l]]

AddFd(f, m) == /\ ~Member(f)
               /\ pfds' = Append(pfds, [fd |-> f, events |-> m])
               /\ UNCHANGED <<i, has, got>>

RmFd(f) == /\ IF Member(f) THEN pfds' = Erase(pfds, FindPollFd(f)) ELSE pfds' = pfds
           /\ UNCHANGED <<i, has, got>>

SetMask(f, m) == /\ Member(f)
                 /\ pfds' = [pfds EXCEPT ![FindPollFd(f)].events = m]
                 /\ UNCHANGED <<i, has, got>>
AddEvMask(f, m) == Member(f) /\ SetMask(f, pfds[FindPollFd(f)].events \union m)
RmEvMask(f, m)  == Member(f) /\ SetMask(f, pfds[FindPollFd(f)].events \ m)

\* The first descriptor with events in the vector, whatever the cursor.
FirstFd(n) == CHOOSE k \in 0..(n - 1) :                           \* mutant
    /\ Revents(k + 1) # {}
    /\ \A l \in 0..(n - 1) : l < k => Revents(l + 1) = {}

\* The descriptor at the cursor, whatever it has.
AtCursor(n) == i % n                                              \* mutant

\* The scan starts at the cursor itself and goes round once.
FindEventFd(n) ==
    LET k == CHOOSE k \in 0..(n - 1) :
                 /\ Revents(((k + i) % n) + 1) # {}
                 /\ \A l \in 0..(n - 1) : l < k => Revents(((l + i) % n) + 1) = {}
    IN  (k + i) % n

\* Serving the descriptor may use up its events, or not (a static file).
Poll ==
    LET n == Len(pfds) IN
    \/ /\ \E k \in DOMAIN pfds : Revents(k) # {}
       /\ i' = FindEventFd(n)
       /\ got' = [fd |-> pfds[i' + 1].fd, ev |-> Revents(i' + 1)]
       /\ has' \in {has, [has EXCEPT ![got'.fd] = {}]}
       /\ pfds' = pfds
    \/ /\ \A k \in DOMAIN pfds : Revents(k) = {}
       /\ got' = NoFd
       /\ UNCHANGED <<pfds, i, has>>

\* The kernel: a descriptor gets or loses events.
Arrive(f, m) == /\ has' = [has EXCEPT ![f] = m]
                /\ UNCHANGED <<pfds, i, got>>

Next == \/ \E f \in Fd, m \in (SUBSET Bit) \ {{}} :
              AddFd(f, m) \/ AddEvMask(f, m) \/ RmEvMask(f, m)
        \/ \E f \in Fd : RmFd(f)
        \/ \E f \in Fd, m \in SUBSET Bit : Arrive(f, m)
        \/ Poll

Spec == Init /\ [][Next]_vars

\* The event loop calls Poll again and again.
FairSpec == Spec /\ WF_vars(Poll)

-----------------------------------------------------------------------------
TypeOK == /\ pfds \in Seq(Entry)
          /\ i \in Nat
          /\ has \in [Fd -> SUBSET Bit]
          /\ got \in [fd : Fd \union {Unregistered}, ev : SUBSET Bit]

\* The vector holds a descriptor at most once, whatever the order of
\* registrations and of erasures, which swap with the last element; with two
\* entries RmFd would leave one behind, polled for ever.
NoDuplicates == \A k, l \in DOMAIN pfds : pfds[k].fd = pfds[l].fd => k = l

\* The vector with its swaps and its cursor behaves as a map from descriptors
\* to masks: an operation changes the mask of one descriptor at most, Poll
\* returns events of a registered descriptor, and nothing only when there is
\* nothing.
Watched == [f \in Fd |-> IF Member(f) THEN pfds[FindPollFd(f)].events ELSE Unregistered]
PS == INSTANCE PollSet WITH watch <- Watched
RefinesPollSet == PS!Spec

\* ... and the descriptor an operation changes is the one it was called for:
\* after the swap of erase RmFd has dropped the right entry and kept the last.
Becomes(f, m) == Watched' = [Watched EXCEPT ![f] = m]
OperationsExact ==
    [][ \A f \in Fd, m \in SUBSET Bit :
          /\ AddFd(f, m)     => Becomes(f, m)
          /\ RmFd(f)         => Becomes(f, Unregistered)
          /\ AddEvMask(f, m) => Becomes(f, Watched[f] \union m)
          /\ RmEvMask(f, m)  => Becomes(f, Watched[f] \ m) ]_vars

\* The scan begins at the last descriptor served: as long as that one has
\* events (a static file always has), Poll returns it again and serves no other.
StickyCursor ==
    [][ (Poll /\ i + 1 \in DOMAIN pfds /\ Revents(i + 1) # {}) => i' = i ]_vars

Due(f) == \E k \in DOMAIN pfds : pfds[k].fd = f /\ Revents(k) # {}

\* Who starves by the sticky cursor: once no descriptor is removed any more
\* (erase moves the last entry behind the cursor), a descriptor with events is
\* served, or one other descriptor is served by every Poll for ever (a static
\* file, a client that never stops sending). Nobody starves by a cycle of others.
NoRemoval == \A k \in DOMAIN pfds : k \in DOMAIN pfds' /\ pfds'[k].fd = pfds[k].fd
Served(f) == got.fd = f
Monopolises(g) == <>[]Served(g)
NoStarvation ==
    <>[][NoRemoval]_vars =>
        \A f \in Fd : \/ Due(f) ~> (Served(f) \/ ~Due(f))
                      \/ \E g \in Fd \ {f} : Monopolises(g)
=============================================================================
