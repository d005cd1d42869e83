----------------------------- MODULE Coordinator -----------------------------
(***************************************************************************)
(* The execution coordinator (internal/execution/coordinator.go): Execute  *)
(* and ExecuteStream walk the targets of a resolved plan, skip those whose *)
(* circuit is cooling, retry, fall back and commit a stream.  Every step   *)
(* that touches the breaker is one of CircuitBreaker's, so requests that   *)
(* run at once influence each other through the provider_health rows.      *)
(*                                                                         *)
(* A caller's slot is used for one request after the other.  Spend         *)
(* admission comes before (SpendBudget); the optimizer changes the request *)
(* and no decision here.  A target is a provider and a model; a plan may   *)
(* name a provider twice.                                                  *)
(***************************************************************************)
EXTENDS CircuitBreaker, Sequences

CONSTANTS Requests,    \* requests: [plan : Seq(Provider), fallback, stream : BOOLEAN]
          MaxAttempts  \* defaultMaxAttempts

ASSUME CoordinatorAssumption ==
    /\ Requests \subseteq [plan : Seq(Provider), fallback : BOOLEAN, stream : BOOLEAN]
    /\ \A q \in Requests : q.plan # <<>>
    /\ MaxAttempts \in Nat \ {0}

VARIABLES req,      \* req[c]: the request in c's slot
          i,        \* i[c]: the target it is at
          path,     \* path[c]: the targets called, in order; attemptNum is its length
          verdict   \* verdict[c]: what the client got

coordVars == <<req, i, path, verdict>>
vars == <<breakerVars, coordVars>>

Verdict == {"none",         \* slot not used yet
            "open",         \* executing
            "served",       \* a response, or a stream that is committed
            "empty",        \* a stream that ended before any content
            "failed",       \* the last target's error
            "unavailable"}  \* 503: no healthy eligible target

Last(c) == Len(req[c].plan)
Target(c) == req[c].plan[i[c]]

CoordTypeOK ==
    /\ req \in [Caller -> Requests]
    /\ i \in [Caller -> Nat] /\ \A c \in Caller : i[c] \in 1..(Last(c) + 1)
    /\ path \in [Caller -> Seq(Nat)]
    /\ verdict \in [Caller -> Verdict]

CoordInit ==
    /\ req \in [Caller -> Requests]
    /\ i = [c \in Caller |-> 1]
    /\ path = [c \in Caller |-> <<>>]
    /\ verdict = [c \in Caller |-> "none"]

Init == BreakerInit /\ CoordInit

-----------------------------------------------------------------------------
(* The walk over the targets. *)

(* The calls Execute allows itself; ExecuteStream has no such budget. *)
Budget(c) == 2 * (IF Last(c) < MaxAttempts THEN Last(c) ELSE MaxAttempts)
InBudgetAlways(c) == TRUE
InBudget(c) == req[c].stream \/ Len(path[c]) < Budget(c)

AtTarget(c) == verdict[c] = "open" /\ phase[c] = "idle" /\ i[c] <= Last(c) /\ InBudget(c)

End(c, v) == verdict' = [verdict EXCEPT ![c] = v]

Begin(c, q) ==
    /\ verdict[c] # "open"
    /\ End(c, "open")
    /\ req' = [req EXCEPT ![c] = q]
    /\ i' = [i EXCEPT ![c] = 1]
    /\ path' = [path EXCEPT ![c] = <<>>]
    /\ UNCHANGED breakerVars

(* eligible said no: on to the next target, whatever the strategy. *)
SkipCooling(c) ==
    /\ AtTarget(c)
    /\ Refuses(Target(c))
    /\ i' = [i EXCEPT ![c] = @ + 1]
    /\ UNCHANGED <<breakerVars, req, path, verdict>>

Counted(c) == path' = [path EXCEPT ![c] = Append(@, i[c])]

Call(c) ==
    /\ AtTarget(c)
    /\ Admit(c, Target(c))
    /\ Counted(c)
    /\ UNCHANGED <<req, i, verdict>>

HalfOpenUnwritten(c) ==
    /\ phase[c] = "probing"
    /\ phase' = [phase EXCEPT ![c] = "calling"]
    /\ UNCHANGED <<health, at, retry, seen, mood, storeOK, coordVars>>

HalfOpen(c) == Probe(c) /\ UNCHANGED coordVars

(* After the last target, or out of budget.  lastErr is set iff a call was *)
(* made.                                                                   *)
WhenExhaustedForgets(c) == "unavailable"
WhenExhausted(c) == IF path[c] = <<>> THEN "unavailable" ELSE "failed"

Exhausted(c) ==
    /\ verdict[c] = "open" /\ phase[c] = "idle"
    /\ i[c] > Last(c) \/ ~InBudget(c)
    /\ End(c, WhenExhausted(c))
    /\ UNCHANGED <<breakerVars, req, i, path>>

(* Done with this target.  Execute stops here only at the first target of  *)
(* a plan that is not a fallback; ExecuteStream at any target of one.      *)
WalksOnAlways(c) == TRUE
WalksOn(c) == req[c].fallback \/ (~req[c].stream /\ i[c] # 1)

LeaveSkipsOne(c) ==
    IF WalksOn(c) THEN i' = [i EXCEPT ![c] = @ + 2] /\ UNCHANGED verdict
                  ELSE End(c, "failed") /\ UNCHANGED i

Leave(c) ==
    IF WalksOn(c) THEN /\ i' = [i EXCEPT ![c] = @ + 1]
                       /\ UNCHANGED verdict
                  ELSE /\ End(c, "failed")
                       /\ UNCHANGED i

-----------------------------------------------------------------------------
(* What comes of a call. *)

Answered(c) ==
    /\ CallSucceeds(c)
    /\ End(c, "served")
    /\ UNCHANGED <<req, i, path>>

(* A stream that ended before any content: the next target of a fallback   *)
(* plan, else it counts as a success and the client gets the ended stream. *)
MoreTargets(c) == req[c].fallback /\ i[c] < Last(c)

EndsEmpty(c) ==
    /\ req[c].stream
    /\ mood[at[c]] = "mixed"
    /\ IF MoreTargets(c)
       THEN /\ CallUncounted(c)
            /\ i' = [i EXCEPT ![c] = @ + 1]
            /\ UNCHANGED verdict
       ELSE /\ CallSucceeds(c)
            /\ End(c, "empty")
            /\ UNCHANGED i
    /\ UNCHANGED <<req, path>>

FailsRetryably(c) == CallFails(c) /\ UNCHANGED coordVars

(* Execute calls a target a second time after a retryable failure. *)
Retries(c) == ~req[c].stream /\ retry[c] = 0

RetryOrLeave(c) ==
    \/ /\ Retries(c)
       /\ CountFailure(c, TRUE)
       /\ Counted(c)
       /\ UNCHANGED <<req, i, verdict>>
    \/ /\ ~Retries(c)
       /\ CountFailure(c, FALSE)
       /\ Leave(c)
       /\ UNCHANGED <<req, path>>

(* Refused credentials, and for a stream an error in the middle of the     *)
(* peek that the adapter has not classified: done with this target.        *)
Refused(c) ==
    /\ mood[at[c]] = "mixed"
    /\ CallUncounted(c)
    /\ Leave(c)
    /\ UNCHANGED <<req, path>>

(* Any other error that is not retryable: the request is over. *)
FailsForGood(c) ==
    /\ mood[at[c]] = "mixed"
    /\ CallUncounted(c)
    /\ End(c, "failed")
    /\ UNCHANGED <<req, i, path>>

(* The request's deadline passes or its client goes: the pending write is  *)
(* lost, the backoff returns, and every further call fails at once.        *)
TimesOut(c) ==
    /\ ContextEnds(c)
    /\ End(c, "failed")
    /\ UNCHANGED <<req, i, path>>

CoordStep(c) ==
    \/ SkipCooling(c) \/ Call(c) \/ HalfOpen(c) \/ Exhausted(c)
    \/ Answered(c) \/ EndsEmpty(c) \/ FailsRetryably(c) \/ RetryOrLeave(c)
    \/ Refused(c) \/ FailsForGood(c) \/ TimesOut(c)

Next ==
    \/ \E c \in Caller, q \in Requests : Begin(c, q)
    \/ \E c \in Caller : CoordStep(c)
    \/ BreakerEnv /\ UNCHANGED coordVars

Spec == Init /\ [][Next]_vars

(* Request goroutines run (a call ends at the latest with its request's    *)
(* deadline), and time passes; no request needs to arrive.                 *)
FairSpec ==
    /\ Spec
    /\ \A c \in Caller : WF_vars(CoordStep(c))
    /\ WF_vars(Tick /\ UNCHANGED coordVars)

-----------------------------------------------------------------------------
(* What the coordinator promises. *)

(* The coordinator implements OrderedFailover, liveness included. *)
Failover == INSTANCE OrderedFailover WITH
    Client <- Caller,
    Position <- UNION {DOMAIN q.plan : q \in Requests}

FailoverSpec == Failover!Spec

(* AttemptsCapped: Execute makes at most one call more than its budget:    *)
(* the budget is checked before a target, not before its second call.      *)
(* ExecuteStream calls each target at most once.                           *)
AttemptsCapped ==
    \A c \in Caller :
        Len(path[c]) <= IF req[c].stream THEN Last(c) ELSE Budget(c) + 1

(* DirectStaysPut: without the fallback strategy a stream calls at most    *)
(* one target, and a request whose first target was called calls no other. *)
DirectStaysPut ==
    \A c \in Caller :
        ~req[c].fallback /\ path[c] # <<>> /\ (req[c].stream \/ path[c][1] = 1) =>
            \A k \in DOMAIN path[c] : path[c][k] = path[c][1]

(* FailoverMasksOutage: once one provider answers for good and the others  *)
(* fail at worst retryably, fallback requests that have it among their     *)
(* first MaxAttempts targets fail no more, whatever circuits the outage    *)
(* left open and whatever stale rows other requests still write.           *)
Reaches(q, p) == q.fallback /\ \E k \in 1..MaxAttempts : k \in DOMAIN q.plan /\ q.plan[k] = p

OnlyOutage(p) ==
    /\ storeOK /\ mood[p] = "healthy"
    /\ \A o \in Provider : mood[o] \in {"healthy", "failing"}

NoNewFailure(p) ==
    \A c \in Caller :
        verdict[c] = "open" /\ Reaches(req[c], p) => verdict'[c] \notin {"failed", "unavailable"}

FailoverMasksOutage ==
    \A p \in Provider : <>[]OnlyOutage(p) => <>[][NoNewFailure(p)]_vars

(* OnlyFallbackWalksOn: what coordinator.go:175 says: further targets are  *)
(* used only if the strategy is fallback.                                  *)
OnlyFallbackWalksOn ==
    \A c \in Caller : ~req[c].fallback => \A k \in DOMAIN path[c] : path[c][k] = 1

=============================================================================
