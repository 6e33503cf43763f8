------------------------ MODULE MCProcessSupervisor ------------------------
(* Small instances of ProcessSupervisor for TLC.                            *)
EXTENDS ProcessSupervisor, TLC

CONSTANTS c1, c2, c3, i1, i2, i3

\* Two calls that may share an identity, three that do not.
SharedId == [c \in Calls |-> IF c = c1 THEN {i1} ELSE {i1, i2}]
OwnId == [c \in Calls |-> IF c = c1 THEN {i1} ELSE IF c = c2 THEN {i2} ELSE {i3}]

\* Calls are interchangeable together with their identities.
Symmetry ==
    {[x \in Calls \cup Ids |->
        IF x \in Calls THEN p[x]
        ELSE CHOOSE i \in Ids : \E c \in Calls : OwnId[c] = {x} /\ OwnId[p[c]] = {i}] :
            p \in Permutations(Calls)}
=============================================================================
