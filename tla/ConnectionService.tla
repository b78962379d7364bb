-------------------------- MODULE ConnectionService --------------------------
(* What the server promises a client that waits for each response before it *)
(* sends the next request: requests are answered one at a time, in order,   *)
(* none twice and none out of nothing.  HttpServer implements it, with the  *)
(* buffers, static files and counts of a SessionCtx behind it.              *)
CONSTANT Session

\* idle: nothing received; asked: something of a request is there;
\* busy: a request is taken and not answered;
\* answering: its response waits to be sent, or is being sent.
VARIABLE state

Init == state = [s \in Session |-> "none"]

To(s, from, to) == state[s] = from /\ state' = [state EXCEPT ![s] = to]

Open(s)   == To(s, "none", "idle")
Ask(s)    == To(s, "idle", "asked")
Take(s)   == To(s, "asked", "busy")
Reply(s)  == To(s, "asked", "answering") \/ To(s, "busy", "answering")
Sent(s)   == To(s, "answering", "idle")

\* Connections are closed by either side, or after a timeout, at any time.
Close(S) == state' = [s \in Session |-> IF s \in S THEN "none" ELSE state[s]]

Next == \/ \E s \in Session : Open(s) \/ Ask(s) \/ Take(s) \/ Reply(s) \/ Sent(s)
        \/ \E S \in SUBSET Session : Close(S)

Spec == Init /\ [][Next]_state
=============================================================================
