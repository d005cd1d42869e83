---------------------------- MODULE CircuitBreaker ----------------------------
(***************************************************************************)
(* The per-provider circuit breaker of internal/execution/coordinator.go:  *)
(* eligible, recordSuccess and recordFailure over the provider_health rows *)
(* of internal/storage/store.go.                                           *)
(*                                                                         *)
(* Every request goroutine is a caller.  The code takes no lock: eligible  *)
(* and recordFailure read a row, compute, and write the whole row back in  *)
(* a second statement, so a caller keeps in seen[c] the row it read and    *)
(* other callers' statements fall between the two.                         *)
(*                                                                         *)
(* Abstractions.  A row keeps the fields a decision reads; latency, error  *)
(* text and the other time stamps are dropped.  cooldown_until is the      *)
(* number of ticks left until it (0: passed; None: NULL), aged by Tick in  *)
(* the rows and in the callers' copies alike.  Failure counts saturate at  *)
(* MaxCount >= Threshold: the code only compares them with the threshold.  *)
(* A copy that is not used again is reset to the closed row, retry to 0.   *)
(***************************************************************************)
EXTENDS Integers

CONSTANTS Provider,    \* provider ids
          Caller,      \* request goroutines that use the breaker
          Threshold,   \* circuitFailureThreshold
          Cooldown,    \* initialCooldown, in ticks
          MaxCount,    \* where the recorded failure count saturates
          Moods,       \* Moods[p]: how the upstream provider p may behave
          None         \* SQL NULL

(* A healthy provider answers, a failing one fails retryably (429, 5xx,    *)
(* connection error), a hanging one answers after the request's deadline,  *)
(* a mixed one does any of these or refuses the call (401, 404, 400).  A   *)
(* client that disconnects ends the request's context as a deadline does,  *)
(* so its calls count among those that hang.                               *)
Mood == {"healthy", "failing", "hanging", "mixed"}

ASSUME BreakerAssumption ==
    /\ Threshold \in Nat \ {0}
    /\ Cooldown \in Nat
    /\ MaxCount \in Nat /\ MaxCount >= Threshold
    /\ None \notin Nat
    /\ Moods \in [Provider -> SUBSET Mood]

(* The Moods under which every provider may behave in any way.             *)
AnyMood == [p \in Provider |-> Mood]

VARIABLES health,   \* health[p]: the provider_health row of p
          phase,    \* phase[c]: where caller c is
          at,       \* at[c]: the provider c is calling
          retry,    \* retry[c]: 0 in the first call to at[c], 1 in the second
          seen,     \* seen[c]: the row c read and has not written back yet
          mood,     \* mood[p]: how the upstream provider p behaves
          storeOK   \* whether the database answers

breakerVars == <<health, phase, at, retry, seen, mood, storeOK>>

CircuitState == {"closed", "open", "half_open"}
Row == [state : CircuitState, failures : 0..MaxCount, cooldown : 0..Cooldown \cup {None}]

(* GetProviderHealth returns this for a provider that has no row. *)
ClosedRow == [state |-> "closed", failures |-> 0, cooldown |-> None]

Phase == {"idle",      \* not using the breaker
          "probing",   \* eligible found an elapsed cooldown; its write is pending
          "calling",   \* waiting for the provider
          "counting"}  \* recordFailure has read the row; its write is pending

BreakerTypeOK ==
    /\ health \in [Provider -> Row]
    /\ phase \in [Caller -> Phase]
    /\ at \in [Caller -> Provider]
    /\ retry \in [Caller -> 0..1]
    /\ seen \in [Caller -> Row]
    /\ mood \in [Provider -> Mood]
    /\ storeOK \in BOOLEAN

BreakerInit ==
    /\ health = [p \in Provider |-> ClosedRow]
    /\ phase = [c \in Caller |-> "idle"]
    /\ at \in [Caller -> Provider]
    /\ retry = [c \in Caller |-> 0]
    /\ seen = [c \in Caller |-> ClosedRow]
    /\ mood \in [Provider -> Mood]
    /\ \A p \in Provider : mood[p] \in Moods[p]
    /\ storeOK = TRUE

-----------------------------------------------------------------------------
(* eligible: the row read, and what the caller may do next.  A definition  *)
(* that precedes another one and differs from it by a defect (ElapsedNever *)
(* before Elapsed) is there to be put in its place: the properties at the  *)
(* end must notice the exchange.                                           *)

ElapsedNever(row) == row.state = "open" /\ row.cooldown = None
Elapsed(row) == row.state = "open" /\ row.cooldown = 0

Cooling(row) == row.state = "open" /\ ~Elapsed(row)

(* A read that fails counts as eligible. *)
Refuses(p) == storeOK /\ Cooling(health[p])

Admit(c, p) ==
    /\ phase[c] = "idle"
    /\ ~Refuses(p)
    /\ at' = [at EXCEPT ![c] = p]
    /\ retry' = [retry EXCEPT ![c] = 0]
    /\ IF storeOK /\ Elapsed(health[p])
       THEN /\ phase' = [phase EXCEPT ![c] = "probing"]
            /\ seen' = [seen EXCEPT ![c] = health[p]]
       ELSE /\ phase' = [phase EXCEPT ![c] = "calling"]
            /\ UNCHANGED seen
    /\ UNCHANGED <<health, mood, storeOK>>

(* UpsertProviderHealth replaces the whole row; its error is ignored. *)
Upsert(p, row) == health' = IF storeOK THEN [health EXCEPT ![p] = row] ELSE health

(* eligible writes back the row it read, half open, and lets the call go. *)
HalfOpened(row) == [row EXCEPT !.state = "half_open"]

Probe(c) ==
    /\ phase[c] = "probing"
    /\ Upsert(at[c], HalfOpened(seen[c]))
    /\ seen' = [seen EXCEPT ![c] = ClosedRow]
    /\ phase' = [phase EXCEPT ![c] = "calling"]
    /\ UNCHANGED <<at, retry, mood, storeOK>>

-----------------------------------------------------------------------------
(* The call's outcome. *)

RecordSuccessKeepsState(p) == Upsert(p, [health[p] EXCEPT !.failures = 0])
RecordSuccess(p) == Upsert(p, ClosedRow)

CallSucceeds(c) ==
    /\ phase[c] = "calling"
    /\ mood[at[c]] \in {"healthy", "mixed"}
    /\ RecordSuccess(at[c])
    /\ phase' = [phase EXCEPT ![c] = "idle"]
    /\ retry' = [retry EXCEPT ![c] = 0]
    /\ UNCHANGED <<at, seen, mood, storeOK>>

(* A retryable failure: recordFailure reads the row, or starts from an     *)
(* empty one when the read fails.                                          *)
CallFails(c) ==
    /\ phase[c] = "calling"
    /\ mood[at[c]] \in {"failing", "mixed"}
    /\ seen' = [seen EXCEPT ![c] = IF storeOK THEN health[at[c]] ELSE ClosedRow]
    /\ phase' = [phase EXCEPT ![c] = "counting"]
    /\ UNCHANGED <<health, at, retry, mood, storeOK>>

Bump(n) == IF n < MaxCount THEN n + 1 ELSE n

AfterFailureNoCooldown(row) ==
    LET n == Bump(row.failures) IN
    IF n >= Threshold THEN [state |-> "open", failures |-> n, cooldown |-> row.cooldown]
                      ELSE [row EXCEPT !.failures = n]

AfterFailureForgets(row) ==
    IF Bump(row.failures) >= Threshold
    THEN [state |-> "open", failures |-> Bump(row.failures), cooldown |-> Cooldown]
    ELSE row

AfterFailure(row) ==
    LET n == Bump(row.failures) IN
    IF n >= Threshold THEN [state |-> "open", failures |-> n, cooldown |-> Cooldown]
                      ELSE [row EXCEPT !.failures = n]

(* recordFailure writes the row back.  Then the coordinator calls the same *)
(* target a second time without asking eligible (again), or leaves it.     *)
CountFailure(c, again) ==
    /\ phase[c] = "counting"
    /\ again => retry[c] = 0
    /\ Upsert(at[c], AfterFailure(seen[c]))
    /\ phase' = [phase EXCEPT ![c] = IF again THEN "calling" ELSE "idle"]
    /\ retry' = [retry EXCEPT ![c] = IF again THEN 1 ELSE 0]
    /\ seen' = [seen EXCEPT ![c] = ClosedRow]
    /\ UNCHANGED <<at, mood, storeOK>>

(* An outcome that leaves the row alone: a non-retryable error, an error   *)
(* that is not a normalization.Error, and, because the store is called     *)
(* with the request's context, any outcome after that context ended.       *)
CallUncounted(c) ==
    /\ phase[c] = "calling"
    /\ mood[at[c]] \in {"hanging", "mixed"}
    /\ phase' = [phase EXCEPT ![c] = "idle"]
    /\ retry' = [retry EXCEPT ![c] = 0]
    /\ UNCHANGED <<health, at, seen, mood, storeOK>>

(* The request's context ends: whatever it still had to write is lost. *)
ContextEnds(c) ==
    /\ phase[c] # "idle"
    /\ mood[at[c]] \in {"hanging", "mixed"}
    /\ phase' = [phase EXCEPT ![c] = "idle"]
    /\ retry' = [retry EXCEPT ![c] = 0]
    /\ seen' = [seen EXCEPT ![c] = ClosedRow]
    /\ UNCHANGED <<health, at, mood, storeOK>>

-----------------------------------------------------------------------------
(* The environment. *)

Age(row) == IF row.cooldown \in 1..Cooldown THEN [row EXCEPT !.cooldown = @ - 1] ELSE row

Tick ==
    /\ health' = [p \in Provider |-> Age(health[p])]
    /\ seen' = [c \in Caller |-> Age(seen[c])]
    /\ UNCHANGED <<phase, at, retry, mood, storeOK>>

MoodChanges(p) ==
    /\ \E m \in Moods[p] : mood' = [mood EXCEPT ![p] = m]
    /\ UNCHANGED <<health, phase, at, retry, seen, storeOK>>

StoreToggles ==
    /\ storeOK' = ~storeOK
    /\ UNCHANGED <<health, phase, at, retry, seen, mood>>

BreakerStep(c) ==
    \/ Probe(c)
    \/ CallSucceeds(c)
    \/ CallFails(c)
    \/ \E again \in BOOLEAN : CountFailure(c, again)
    \/ CallUncounted(c)

BreakerEnv ==
    \/ Tick
    \/ \E p \in Provider : MoodChanges(p)
    \/ StoreToggles

BreakerNext ==
    \/ \E c \in Caller, p \in Provider : Admit(c, p)
    \/ \E c \in Caller : BreakerStep(c)
    \/ \E c \in Caller : ContextEnds(c)
    \/ BreakerEnv

BreakerSpec == BreakerInit /\ [][BreakerNext]_breakerVars

(* Goroutines are scheduled, time passes, and traffic to every provider    *)
(* does not dry up; nothing is assumed of the providers or the store.      *)
BreakerFairness ==
    /\ \A c \in Caller : WF_breakerVars(BreakerStep(c))
    /\ WF_breakerVars(Tick)
    /\ \A p \in Provider : SF_breakerVars(\E c \in Caller : Admit(c, p))

FairBreakerSpec == BreakerSpec /\ BreakerFairness

-----------------------------------------------------------------------------
(* What the breaker promises. *)

(* A row is open or half open only with at least Threshold failures on it  *)
(* and with a cooldown: an open row whose cooldown is NULL would refuse    *)
(* its provider for ever (eligible tests CooldownUntil != nil).            *)
Earned(row) ==
    row.state # "closed" => row.failures >= Threshold /\ row.cooldown # None

(* OpenIsEarned: the stored rows are Earned whatever the interleaving of   *)
(* the callers' reads and writes, and so is every copy a caller may still  *)
(* write back.                                                             *)
OpenIsEarned ==
    /\ \A p \in Provider : Earned(health[p])
    /\ \A c \in Caller : Earned(seen[c])

(* LockoutEnds: no provider stays locked out: while traffic arrives and    *)
(* the database answers, every opening is followed by a probe, unless the  *)
(* calls to the provider run into their requests' deadlines (hanging,      *)
(* mixed), when the probe's own write may be lost with its request.        *)
LockoutEnds ==
    \A p \in Provider :
        health[p].state = "open" ~> \/ health[p].state # "open"
                                   \/ ~storeOK
                                   \/ mood[p] \in {"hanging", "mixed"}

(* HealedProviderCloses: once a provider answers for good, its circuit     *)
(* closes and stays closed, whatever stale rows callers still held then.   *)
HealedProviderCloses ==
    \A p \in Provider :
        <>[](storeOK /\ mood[p] = "healthy") => <>[](health[p].state = "closed")

(* FailingProviderTrips: a provider that keeps failing has its circuit     *)
(* opened again and again, although concurrent recordFailure calls         *)
(* overwrite each other's counts.                                          *)
FailingProviderTrips ==
    \A p \in Provider :
        <>[](storeOK /\ mood[p] = "failing") => []<>(health[p].state = "open")

=============================================================================
