----------------------------- MODULE MCAdmission -----------------------------
(* Admission on four requests of one portable key. *)
EXTENDS Admission, TLC

CONSTANTS r1, r2, r3, r4, k1

MCKeyOf == [r \in Request |-> k1]
MCRpm == [k \in Key |-> 0]
MCDaily == [k \in Key |-> 1]
MCConc == [k \in Key |-> 2]

Symmetric == Permutations(Request)

=============================================================================
