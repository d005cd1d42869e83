------------------------------- MODULE MCSpend -------------------------------
(* The gateway on a key whose budget affords any one of its requests but   *)
(* no two of them at a time.                                               *)
EXTENDS SpendBudget, TLC

CONSTANTS k1,
          MCConcLimit,  \* the key's concurrency limit
          MCRate        \* its requests per minute

MCKeyOf == [r \in Request |-> k1]
MCRpm == [k \in Key |-> MCRate]
MCDaily == [k \in Key |-> 0]
MCConc == [k \in Key |-> MCConcLimit]
MCBudget == [k \in Key |-> 2]
MCWorst == [r \in Request |-> 1]

Symmetric == Permutations(Request)

=============================================================================
