--------------------------- MODULE OrderedFailover ---------------------------
(***************************************************************************)
(* What a caller of the coordinator may rely on, without its retries,      *)
(* budgets, circuits and stores: a request asks the targets of its plan in *)
(* the plan's order, each at most twice, is answered by the last target it *)
(* asked and then asks no other, is told that no target was available only *)
(* if it asked none, and always comes to a verdict.                        *)
(***************************************************************************)
EXTENDS Naturals, Sequences

CONSTANTS Client,
          Position  \* positions in a plan

VARIABLES verdict,  \* verdict[c]: what c's request has come to
          path      \* path[c]: the positions it asked, in order

vars == <<verdict, path>>

Init ==
    /\ verdict = [c \in Client |-> "none"]
    /\ path = [c \in Client |-> <<>>]

Begin(c) ==
    /\ verdict[c] # "open"
    /\ verdict' = [verdict EXCEPT ![c] = "open"]
    /\ path' = [path EXCEPT ![c] = <<>>]

(* The first time a later position, the second time the same one. *)
InOrder(asked, t) ==
    LET last == Len(asked) IN
    \/ last = 0
    \/ t > asked[last]
    \/ t = asked[last] /\ (last > 1 => asked[last - 1] < t)

Ask(c) ==
    /\ verdict[c] = "open"
    /\ \E t \in Position : InOrder(path[c], t) /\ path' = [path EXCEPT ![c] = Append(@, t)]
    /\ UNCHANGED verdict

End(c) ==
    /\ verdict[c] = "open"
    /\ \E v \in {"served", "empty", "failed", "unavailable"} :
          /\ v \in {"served", "empty"} => path[c] # <<>>
          /\ v = "unavailable" => path[c] = <<>>
          /\ verdict' = [verdict EXCEPT ![c] = v]
    /\ UNCHANGED path

Next == \E c \in Client : Begin(c) \/ Ask(c) \/ End(c)

Concludes == \A c \in Client : verdict[c] = "open" ~> verdict[c] # "open"

Walks == Init /\ [][Next]_vars

Spec == Walks /\ Concludes

=============================================================================
