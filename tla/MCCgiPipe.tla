------------------------------ MODULE MCCgiPipe ------------------------------
(* Workers for TLC: bodies and outputs below and above what the pipes hold, *)
(* outputs that keep, miss or exceed what they announce, headers that do    *)
(* not parse; workers that read first, or as they like, or end at any time. *)
EXTENDS CgiPipe

SmallJobs ==
    {j \in [body : {0, 2, 3, 5}, head : {1}, size : {0, 2, 5}, total : {0, 1, 2, 3, 6},
            bad : BOOLEAN, readsFirst : BOOLEAN, crashes : BOOLEAN] :
       j.bad => j.size = 5 /\ j.total = 6}
=============================================================================
