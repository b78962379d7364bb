------------------------------- MODULE PollSet -------------------------------
(* What HttpServer relies on in IO::Poller: a map from descriptors to the  *)
(* events they are watched for, and a Poll that returns one descriptor     *)
(* with the watched events it has, or none when no descriptor has any.     *)
CONSTANTS Fd, Bit, Unregistered

VARIABLES
    watch,  \* the events a descriptor is watched for, or Unregistered
    has,    \* the events it has now
    got     \* the last result of Poll

vars == <<watch, has, got>>

NoFd == [fd |-> Unregistered, ev |-> {}]
Registered == {f \in Fd : watch[f] # Unregistered}
Due(f) == IF f \in Registered THEN watch[f] \intersect has[f] ELSE {}

Init == /\ watch = [f \in Fd |-> Unregistered]
        /\ has = [f \in Fd |-> {}]
        /\ got = NoFd

Watch(f, m) == watch' = [watch EXCEPT ![f] = m] /\ UNCHANGED <<has, got>>

Change == \E f \in Fd, m \in (SUBSET Bit) \union {Unregistered} : Watch(f, m)

Arrive == has' \in [Fd -> SUBSET Bit] /\ UNCHANGED <<watch, got>>

\* Serving a descriptor may use up its events.
Serve(f) == /\ Due(f) # {} /\ got' = [fd |-> f, ev |-> Due(f)]
            /\ has' \in {has, [has EXCEPT ![f] = {}]}

Poll == /\ \/ \E f \in Registered : Serve(f)
           \/ (\A f \in Registered : Due(f) = {}) /\ got' = NoFd /\ has' = has
        /\ watch' = watch

Next == Change \/ Arrive \/ Poll

Spec == Init /\ [][Next]_vars
=============================================================================
