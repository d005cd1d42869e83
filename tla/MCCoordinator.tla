---------------------------- MODULE MCCoordinator ----------------------------
(* One caller, so that every path through the plans is walked; p1 may fail *)
(* or refuse, p2 may hang or do anything.  The circuit opens at the first  *)
(* failure, and MaxAttempts = 2 lets the plan of three targets overrun its *)
(* budget.  For an outage: two callers of a primary that is down and a     *)
(* secondary that goes down and comes back.                                *)
EXTENDS Coordinator

CONSTANTS p1, p2

MCMoods == [p \in Provider |-> IF p = p1 THEN {"failing", "mixed"} ELSE {"healthy", "hanging", "mixed"}]

MCRequests ==
    {[plan |-> <<p1, p2>>, fallback |-> TRUE, stream |-> TRUE],
     [plan |-> <<p1, p2, p1>>, fallback |-> TRUE, stream |-> FALSE],
     [plan |-> <<p1, p2>>, fallback |-> FALSE, stream |-> FALSE]}

OutageMoods == [p \in Provider |-> IF p = p1 THEN {"failing"} ELSE {"healthy", "failing"}]

OutageRequests ==
    {[plan |-> <<p1, p2>>, fallback |-> TRUE, stream |-> s] : s \in BOOLEAN}

=============================================================================
