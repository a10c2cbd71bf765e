------------------------------ MODULE MCGateway ------------------------------
(* Instances of Gateway for TLC. *)
EXTENDS Gateway, TLC

MCSlots == {"s1", "s2"}
MCBackoff == <<1, 2>>

Cand(s, rpm, tpm) ==
    [slot |-> s, rpm |-> rpm, rpd |-> NoLimit, tpm |-> tpm, tpd |-> NoLimit]

A == Cand("s1", 1, NoLimit)
B == Cand("s2", NoLimit, 1)

MCCandidates == {A, B}

\* "auto", and the model of the first key by its own name.  One configuration has
\* both keys; the other has lost the first, and with it that model.
Both == [m \in {"auto", "a"} |-> IF m = "auto" THEN <<A, B>> ELSE <<A>>]
Rest == [m \in {"auto", "a"} |-> IF m = "auto" THEN <<B>> ELSE <<>>]

AllTables == { Both, Rest }
OneTable  == { Both }

\* No action and no property tells one request from another.
RequestSymmetry == Permutations(Reqs)
=============================================================================
