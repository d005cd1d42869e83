----------------------------- MODULE MCAccounts -----------------------------
(***************************************************************************)
(* Three accounts of a provider.  The operator disables, drains, resumes   *)
(* and creates the spare one, in requests that overlap; the provider       *)
(* reports the use of the default one, and the command line counts the log *)
(* under it; two callers select.  The months are shorter than a calendar's *)
(* and differ as they do.                                                  *)
(***************************************************************************)
EXTENDS Accounts, TLC

CONSTANTS default, spare, third, e1, e2, r1, r2

MCRank == [a \in Ids |-> IF a = default THEN 1 ELSE IF a = spare THEN 2 ELSE 3]

MCPatches == {[enabled |-> FALSE, draining |-> Keep, rotates |-> Keep]}

Rotates == [Fresh EXCEPT !.rotates = TRUE]

\* All accounts rotate, the default one without a row or with one, or it alone.
MCTables ==
    {[a \in Ids |-> IF a = default THEN r ELSE Rotates] : r \in {Rotates, NoRow}}
        \cup {[a \in Ids |-> IF a = default THEN Rotates ELSE Fresh]}

Alike == Permutations(Editors) \cup Permutations(Routers)

\* Requests, readings and selections are this many together.
MaxWork == 4
Bounded ==
    LET reported == Cardinality(UNION {readings[a] : a \in Ids})
        selected == picks + Cardinality(Pending)
    IN  edited + reported + selected <= MaxWork

MCMonths == (0 :> 3) @@ (1 :> 1) @@ (2 :> 4)

=============================================================================
