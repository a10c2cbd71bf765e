---------------------------- MODULE MCRoundRobin ----------------------------
(* Instances of RoundRobin for TLC. *)
EXTENDS RoundRobin

MCSlots == {"s1", "s2", "s3"}

Cand(s, rpm) ==
    [slot |-> s, rpm |-> rpm, rpd |-> NoLimit, tpm |-> NoLimit, tpd |-> NoLimit]

\* Only s2 has a limit.
A == Cand("s1", NoLimit)
B == Cand("s2", 1)
C == Cand("s3", NoLimit)

MCCandidates == {A, B, C}
MCBackoff == <<1, 2>>

\* One logical model with three candidates.
OneList == { <<A, B, C>> }

\* Two logical models, as in config.example.yaml (auto and coding-fast): the
\* second names one of the candidates of the first.
TwoLists == { <<A, B, C>>, <<C>> }
=============================================================================
