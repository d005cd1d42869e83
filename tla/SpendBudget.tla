----------------------------- MODULE SpendBudget -----------------------------
(***************************************************************************)
(* The coordinator's spend admission (internal/execution/coordinator.go,   *)
(* admit and the reservation helpers), run inside the handler of a request *)
(* that Admission let in: the two together are the gateway's way in for a  *)
(* key with a daily cost budget.                                           *)
(*                                                                         *)
(* admit reads the store, then the reservations under the mutex, compares, *)
(* and reserves in a second critical section; Execute and ExecuteStream    *)
(* release on return.  A reload makes a new coordinator too, so a request  *)
(* reserves in its own generation's map.                                   *)
(*                                                                         *)
(* Abstractions.  Costs are small integers; Worst[r] is the sum over the   *)
(* plan that admit computes.                                               *)
(***************************************************************************)
EXTENDS Admission

CONSTANTS Budget,  \* Budget[k]: daily_estimated_cost_usd, 0 if not set
          Worst    \* Worst[r]: worst-case cost of r's plan

ASSUME SpendAssumption ==
    /\ Budget \in [Key -> Nat]
    /\ Worst \in [Request -> Nat \ {0}]

VARIABLES spend,      \* spend[r]: where r is in admit
          used,       \* used[r]: the completed spend r read
          usd,        \* usd[g][k]: the coordinator's reserved spend
          spendRaced  \* spendRaced[k]: two spend admissions overlapped (history only)

spendVars == <<spend, used, usd, spendRaced>>
gatewayVars == <<admissionVars, spendVars>>

SpendPlace == {"out",       \* Execute not called
               "usage",     \* admit: the usage read
               "compare",   \* admit: the reservations and the verdict
               "commit",    \* reserveSpend
               "reserved",  \* executing with a reservation
               "free",      \* executing without one
               "refused",   \* admit has refused it: no provider was called
               "returned"}  \* the calls are over

SpendTypeOK ==
    /\ spend \in [Request -> SpendPlace]
    /\ used \in [Request -> Nat]
    /\ usd \in [Gen -> [Key -> Nat]]
    /\ spendRaced \in [Key -> BOOLEAN]

SpendInit ==
    /\ spend = [r \in Request |-> "out"]
    /\ used = [r \in Request |-> 0]
    /\ usd = [g \in Gen |-> [k \in Key |-> 0]]
    /\ spendRaced = [k \in Key |-> FALSE]

SpendGoto(r, place) == spend' = [spend EXCEPT ![r] = place]

Enforced(k) == Budget[k] > 0 /\ k \in Portable

(* The pricing gate: a route with an unpriced target is refused (402). *)
Execute(r, priced) ==
    /\ pc[r] = "handling" /\ spend[r] = "out"
    /\ SpendGoto(r, IF ~Enforced(KeyOf[r]) THEN "free"
                    ELSE IF priced THEN "usage" ELSE "refused")
    /\ UNCHANGED <<used, usd, spendRaced>>

(* What UsageForKeySince finds a request_log row to have cost.  It prices  *)
(* rows by their upstream_model and tokens, which neither gateway's        *)
(* logRequest fills in: a NULL model contributes nothing.                  *)
RecordedCost == [q \in Request |-> 0]

(* The sum of a cost over a set of requests: the units of it they make up.  *)
Units(cost, S) == UNION {{r} \X (1..cost[r]) : r \in S}
Total(cost, S) == Cardinality(Units(cost, S))

RecordedSpend(k, d) == Total(RecordedCost, Logged(k, d))

(* The usage read: an unreadable store refuses (503). *)
ReadSpend(r, readable) ==
    /\ spend[r] = "usage"
    /\ SpendGoto(r, IF readable THEN "compare" ELSE "refused")
    /\ used' = [used EXCEPT ![r] = IF readable THEN RecordedSpend(KeyOf[r], today) ELSE 0]
    /\ UNCHANGED <<usd, spendRaced>>

(* Another request has compared and not reserved yet, or reserved in the   *)
(* coordinator of another generation.                                      *)
SpendOverlaps(r) ==
    \E q \in Request \ {r} :
        /\ KeyOf[q] = KeyOf[r]
        /\ spend[q] = "commit" \/ (spend[q] = "reserved" /\ gen[q] # gen[r])

AffordableAlone(r) == used[r] + Worst[r] < Budget[KeyOf[r]]
Affordable(r) == used[r] + usd[gen[r]][KeyOf[r]] + Worst[r] < Budget[KeyOf[r]]

CompareSpend(r) ==
    /\ spend[r] = "compare"
    /\ SpendGoto(r, IF Affordable(r) THEN "commit" ELSE "refused")
    /\ spendRaced' = [spendRaced EXCEPT ![KeyOf[r]] = @ \/ SpendOverlaps(r)]
    /\ used' = [used EXCEPT ![r] = 0]
    /\ UNCHANGED usd

ReserveSpend(r) ==
    /\ spend[r] = "commit"
    /\ usd' = [usd EXCEPT ![gen[r]][KeyOf[r]] = @ + Worst[r]]
    /\ SpendGoto(r, "reserved")
    /\ UNCHANGED <<used, spendRaced>>

(* The calls are over; the deferred releaseSpend runs.  (Again the first of *)
(* two definitions is a defective variant of the second.)                  *)
ReleaseAllOfKey(r) == [usd EXCEPT ![gen[r]][KeyOf[r]] = 0]
ReleaseSpend(r) == [usd EXCEPT ![gen[r]][KeyOf[r]] = @ - Worst[r]]

Return(r) ==
    /\ spend[r] \in {"reserved", "free"}
    /\ usd' = IF spend[r] = "reserved" THEN ReleaseSpend(r) ELSE usd
    /\ SpendGoto(r, "returned")
    /\ UNCHANGED <<used, spendRaced>>

SpendStep(r) ==
    \/ \E priced \in BOOLEAN : Execute(r, priced)
    \/ \E readable \in BOOLEAN : ReadSpend(r, readable)
    \/ CompareSpend(r)
    \/ ReserveSpend(r)
    \/ Return(r)

(* The handler ends after Execute returned, or before it called Execute,   *)
(* when it refuses the request itself and logs nothing.                    *)
EndHandlerUnwound(r, inserted) ==
    /\ spend[r] \in {"refused", "returned"}
    /\ logDay' = IF inserted THEN [logDay EXCEPT ![r] = today] ELSE logDay
    /\ Goto(r, "unwind")
    /\ UNCHANGED <<gen, lim, day, stamp, seen, slots, active, reserved, limit, cur, today, raced>>

EndHandler(r, inserted) ==
    /\ \/ spend[r] \in {"refused", "returned"}
       \/ spend[r] = "out" /\ ~inserted
    /\ Handle(r, inserted)

GatewayInit == AdmissionInit /\ SpendInit

GatewayNext ==
    \/ (\E r \in Request : WayIn(r) \/ WayOut(r)) /\ UNCHANGED spendVars
    \/ (\E r \in Request, inserted \in BOOLEAN : EndHandler(r, inserted)) /\ UNCHANGED spendVars
    \/ (\E r \in Request : SpendStep(r)) /\ UNCHANGED admissionVars
    \/ AdmissionEnv /\ UNCHANGED spendVars

GatewaySpec == GatewayInit /\ [][GatewayNext]_gatewayVars

-----------------------------------------------------------------------------
(* What spend admission promises. *)

Reserving(g, k) == {r \in Request : spend[r] = "reserved" /\ gen[r] = g /\ KeyOf[r] = k}

(* SpendReservedExact: the reserved spend of a key is the worst case of    *)
(* its requests that are executing, each of which is still inside its      *)
(* handler and so counted by the limiter; nothing outlives its request, and *)
(* no reserved spend ever goes below zero.                                 *)
SpendReservedExact ==
    /\ SpendTypeOK
    /\ \A g \in Gen, k \in Key : usd[g][k] = Total(Worst, Reserving(g, k))
    /\ \A r \in Request :
          spend[r] \in {"usage", "compare", "commit", "reserved", "free"} => pc[r] = "handling"

(* SpendExactUnlessRaced: as long as no request compares between another   *)
(* one's comparison and its reservation, nor beside one that a reload left *)
(* in an older coordinator, what is reserved stays below the budget.       *)
SpendExactUnlessRaced ==
    \A k \in Key : Enforced(k) /\ ~spendRaced[k] =>
        Total(Worst, {r \in Request : spend[r] = "reserved" /\ KeyOf[r] = k}) < Budget[k]

(* The cost of the key's requests that were executed and logged today, if  *)
(* each used the tokens it was admitted with.                              *)
Completed(k) == Total(Worst, {r \in Logged(k, today) : spend[r] = "returned"})

(* NeverOverBudget: what coordinator.go:339-340 says of admit: completed   *)
(* usage, active reservations and a new request's worst case stay within   *)
(* the budget.                                                             *)
NeverOverBudget ==
    \A k \in Key : Enforced(k) => Completed(k) <= Budget[k]

=============================================================================
