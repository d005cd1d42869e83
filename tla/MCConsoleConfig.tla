--------------------------- MODULE MCConsoleConfig ---------------------------
(* A provider whose secret is in the vault, a route and an alias that come  *)
(* to name it, changed by two console requests and a command.               *)
EXTENDS ConsoleConfig

CONSTANTS p1, r1, a1, s1, s2, t1

MCInitial ==
    [providers |-> [p \in Provider |-> "vault"],
     routes |-> [r \in Route |-> {}],
     aliases |-> [a \in Alias |-> None]]

MCFresh ==
    [providers |-> [p \in Provider |-> None],
     routes |-> [r \in Route |-> {}],
     aliases |-> [a \in Alias |-> None]]

MCChanges ==
    {[do |-> "add", key |-> p1, to |-> "vault"],
     [do |-> "set", key |-> p1, to |-> "vault"],
     [do |-> "set", key |-> p1, to |-> "keep"],
     [do |-> "drop", key |-> p1, to |-> None],
     [do |-> "add", key |-> r1, to |-> {p1}],
     [do |-> "drop", key |-> r1, to |-> None],
     [do |-> "add", key |-> a1, to |-> r1],
     [do |-> "add", key |-> a1, to |-> p1],
     [do |-> "set", key |-> a1, to |-> p1],
     [do |-> "drop", key |-> a1, to |-> None],
     [do |-> "rollback", key |-> 1, to |-> None]}
=============================================================================
