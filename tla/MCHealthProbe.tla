---------------------------- MODULE MCHealthProbe ----------------------------
(* Instances of HealthProbe for TLC. *)
EXTENDS HealthProbe

MCKeys == {"k1", "k2"}

\* One model for each key; that of the second has a request limit.
MCSlots == {"s1", "s2"}
MCKeyOf == [s \in MCSlots |-> IF s = "s1" THEN "k1" ELSE "k2"]

Cand(s, rpm) ==
    [slot |-> s, rpm |-> rpm, rpd |-> NoLimit, tpm |-> NoLimit, tpd |-> NoLimit]

MCCandidates == { Cand("s1", NoLimit), Cand("s2", 1) }

MCKeyLists == { <<"k1", "k2">>, <<"k2">> }
=============================================================================
