---------------------------- MODULE MCRedisTracker ----------------------------
(* Instances of RedisTracker for TLC. *)
EXTENDS RedisTracker, TLC

Cand(s, rpm, rpd, tpd) ==
    [slot |-> s, rpm |-> rpm, rpd |-> rpd, tpm |-> NoLimit, tpd |-> tpd]

\* One limit over the day, the window that pruning and expiry bear on
MCCandidates == { Cand("s1", NoLimit, 1, 1) }

\* One request to each process at a time: the request is named like the process.
MCHome == [r \in Reqs |-> r]

\* No action and no property tells one process from another.
ProcSymmetry == Permutations(Procs)
=============================================================================
