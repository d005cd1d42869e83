-------------------------- MODULE CoordinatorProofs --------------------------
(***************************************************************************)
(* For plans of any length and content and any number of requests: the     *)
(* coordinator uses the circuit breaker as BreakerSpec allows, its calls   *)
(* are as many and as far down the plan as AttemptsCapped and              *)
(* DirectStaysPut say, and every step is one of OrderedFailover's or none. *)
(*                                                                         *)
(* AttemptsCapped and DirectStaysPut speak of the calls made; what makes   *)
(* them inductive is how the calls relate to the place in the walk         *)
(* (WalkOK) and to the budget that is left (CapOK), and that a request     *)
(* that must stay at its target is still in that call or over (StayOK).    *)
(*                                                                         *)
(* The circuit breaker comes first, on its own: BreakerTypeOK and          *)
(* OpenIsEarned for any number of providers and callers and any threshold  *)
(* and cooldown.  OpenIsEarned alone is not inductive: a caller about to   *)
(* write its copy back half open must still hold the open row it read      *)
(* (ProbingHoldsOpen).  With that, whatever HalfOpened, AfterFailure and   *)
(* Age make of an Earned row is Earned again, so it does not matter which  *)
(* interleaving writes it back.                                            *)
(***************************************************************************)
EXTENDS Coordinator, TLAPS

-----------------------------------------------------------------------------
(* The circuit breaker. *)

ProbingHoldsOpen == \A c \in Caller : phase[c] = "probing" => seen[c].state = "open"

BreakerInv == BreakerTypeOK /\ OpenIsEarned /\ ProbingHoldsOpen

(* A row a recorded failure leaves is a row, and Earned: recordFailure     *)
(* opens the circuit and sets the cooldown together.                       *)
LEMMA AfterFailureEarned ==
    ASSUME NEW row \in Row, Earned(row)
    PROVE  AfterFailure(row) \in Row /\ Earned(AfterFailure(row))
<1>1. Bump(row.failures) \in 0..MaxCount /\ Bump(row.failures) >= row.failures
  BY BreakerAssumption DEF Row, Bump
<1>2. CASE Bump(row.failures) >= Threshold
  BY <1>1, <1>2, BreakerAssumption DEF AfterFailure, Row, Earned, CircuitState
<1>3. CASE ~(Bump(row.failures) >= Threshold)
  <2>1. AfterFailure(row) = [row EXCEPT !.failures = Bump(row.failures)]
    BY <1>3 DEF AfterFailure
  <2>2. row.state = "closed"
    BY <1>1, <1>3, BreakerAssumption DEF Earned, Row
  <2> QED
    BY <1>1, <2>1, <2>2 DEF Row, Earned
<1> QED
  BY <1>2, <1>3

(* Half opening keeps the failures and the cooldown of an Earned row. *)
LEMMA HalfOpenedEarned ==
    ASSUME NEW row \in Row, Earned(row), row.state = "open"
    PROVE  HalfOpened(row) \in Row /\ Earned(HalfOpened(row))
BY DEF HalfOpened, Row, Earned, CircuitState

(* Time passing never removes a cooldown. *)
LEMMA AgeEarned ==
    ASSUME NEW row \in Row, Earned(row)
    PROVE  Age(row) \in Row /\ Earned(Age(row)) /\ Age(row).state = row.state
BY BreakerAssumption DEF Age, Row, Earned, CircuitState

(* The row of a provider that has none. *)
LEMMA ClosedRowEarned == ClosedRow \in Row /\ Earned(ClosedRow)
BY BreakerAssumption DEF ClosedRow, Row, Earned, CircuitState

(* Replacing one stored row by a good one, or losing the write, keeps the  *)
(* stored rows good.                                                       *)
LEMMA UpsertEarned ==
    ASSUME BreakerInv, NEW p \in Provider, NEW row \in Row, Earned(row), Upsert(p, row)
    PROVE  health' \in [Provider -> Row] /\ \A q \in Provider : Earned(health'[q])
BY DEF Upsert, BreakerInv, BreakerTypeOK, OpenIsEarned

LEMMA BreakerInitInv == BreakerInit => BreakerInv
BY ClosedRowEarned
   DEF BreakerInit, BreakerInv, BreakerTypeOK, OpenIsEarned, ProbingHoldsOpen, Phase

LEMMA BreakerStepInv == BreakerInv /\ [BreakerNext]_breakerVars => BreakerInv'
<1> SUFFICES ASSUME BreakerInv, [BreakerNext]_breakerVars PROVE BreakerInv'
  OBVIOUS
<1> USE DEF BreakerInv, BreakerTypeOK, OpenIsEarned, ProbingHoldsOpen
<1>1. ASSUME NEW c \in Caller, NEW p \in Provider, Admit(c, p) PROVE BreakerInv'
  BY <1>1 DEF Admit, Elapsed, Phase
<1>2. ASSUME NEW c \in Caller, Probe(c) PROVE BreakerInv'
  <2>1. HalfOpened(seen[c]) \in Row /\ Earned(HalfOpened(seen[c]))
    BY <1>2, HalfOpenedEarned DEF Probe
  <2>2. health' \in [Provider -> Row] /\ \A q \in Provider : Earned(health'[q])
    BY <1>2, <2>1, UpsertEarned DEF Probe
  <2> QED
    BY <1>2, <2>2, ClosedRowEarned DEF Probe, Phase
<1>3. ASSUME NEW c \in Caller, CallSucceeds(c) PROVE BreakerInv'
  <2>1. health' \in [Provider -> Row] /\ \A q \in Provider : Earned(health'[q])
    BY <1>3, ClosedRowEarned, UpsertEarned DEF CallSucceeds, RecordSuccess
  <2> QED
    BY <1>3, <2>1 DEF CallSucceeds, Phase
<1>4. ASSUME NEW c \in Caller, CallFails(c) PROVE BreakerInv'
  BY <1>4, ClosedRowEarned DEF CallFails, Phase
<1>5. ASSUME NEW c \in Caller, NEW again \in BOOLEAN, CountFailure(c, again)
      PROVE  BreakerInv'
  <2>1. AfterFailure(seen[c]) \in Row /\ Earned(AfterFailure(seen[c]))
    BY AfterFailureEarned
  <2>2. health' \in [Provider -> Row] /\ \A q \in Provider : Earned(health'[q])
    BY <1>5, <2>1, UpsertEarned DEF CountFailure
  <2> QED
    BY <1>5, <2>2, ClosedRowEarned DEF CountFailure, Phase
<1>6. ASSUME NEW c \in Caller, CallUncounted(c) \/ ContextEnds(c) PROVE BreakerInv'
  BY <1>6, ClosedRowEarned DEF CallUncounted, ContextEnds, Phase
<1>7. CASE Tick
  <2>1. \A p \in Provider : Age(health[p]) \in Row /\ Earned(Age(health[p]))
    BY AgeEarned
  <2>2. \A c \in Caller : /\ Age(seen[c]) \in Row /\ Earned(Age(seen[c]))
                          /\ Age(seen[c]).state = seen[c].state
    BY AgeEarned
  <2> QED
    BY <1>7, <2>1, <2>2 DEF Tick
<1>8. ASSUME NEW p \in Provider, MoodChanges(p) PROVE BreakerInv'
  <2>1. PICK m \in Moods[p] : mood' = [mood EXCEPT ![p] = m]
    BY <1>8 DEF MoodChanges
  <2>2. m \in Mood
    BY BreakerAssumption
  <2>3. mood' \in [Provider -> Mood]
    BY <2>1, <2>2
  <2> QED
    BY <1>8, <2>3 DEF MoodChanges
<1>9. CASE StoreToggles
  BY <1>9 DEF StoreToggles
<1>10. CASE UNCHANGED breakerVars
  BY <1>10 DEF breakerVars
<1> QED
  BY <1>1, <1>2, <1>3, <1>4, <1>5, <1>6, <1>7, <1>8, <1>9, <1>10
     DEF BreakerNext, BreakerStep, BreakerEnv

THEOREM BreakerInvariance == BreakerSpec => []BreakerInv
BY BreakerInitInv, BreakerStepInv, PTL DEF BreakerSpec

(* Type correctness of the circuit rows and the callers. *)
THEOREM BreakerTypeCorrect == BreakerSpec => []BreakerTypeOK
BY BreakerInvariance, PTL DEF BreakerInv

(* No interleaving of reads and write-backs of provider_health leaves a    *)
(* circuit open or half open without Threshold failures and a cooldown:    *)
(* eligible can never refuse a provider for ever.                          *)
THEOREM CircuitsOpenOnlyWhenEarned == BreakerSpec => []OpenIsEarned
BY BreakerInvariance, PTL DEF BreakerInv

-----------------------------------------------------------------------------
(* The walk down the plan. *)

Calling(c) == phase[c] # "idle"
Calls(c) == Len(path[c])

(* The last call made is the one at i; before the next, i is beyond it. *)
WalkOK(c) ==
    /\ Calling(c) =>
          /\ verdict[c] = "open" /\ i[c] <= Last(c)
          /\ Calls(c) > 0 /\ path[c][Calls(c)] = i[c]
          /\ retry[c] = 0 => Calls(c) = 1 \/ path[c][Calls(c) - 1] < i[c]
    /\ verdict[c] = "open" /\ ~Calling(c) => Calls(c) = 0 \/ path[c][Calls(c)] < i[c]

(* A stream made at most one call per target it has passed; any other      *)
(* request is one over its budget at most, in a second call or after it.   *)
CapOK(c) ==
    IF req[c].stream
    THEN /\ Calls(c) <= Last(c)
         /\ verdict[c] = "open" => Calls(c) <= (IF Calling(c) THEN i[c] ELSE i[c] - 1)
    ELSE /\ Calls(c) <= Budget(c) + 1
         /\ Calling(c) /\ retry[c] = 0 => Calls(c) <= Budget(c)

(* A request that may call no other target than the one it called. *)
Bound(c) == ~req[c].fallback /\ Calls(c) > 0 /\ (req[c].stream \/ path[c][1] = 1)

StayOK(c) ==
    Bound(c) => /\ \A k \in 1..Calls(c) : path[c][k] = path[c][1]
                /\ verdict[c] = "open" => Calling(c)

CoordInv ==
    /\ BreakerInv
    /\ CoordTypeOK
    /\ \A c \in Caller : WalkOK(c) /\ CapOK(c) /\ StayOK(c)

(* Plans are sequences of at least one provider. *)
LEMMA Plans ==
    ASSUME NEW q \in Requests
    PROVE  /\ q.plan \in Seq(Provider) /\ Len(q.plan) \in Nat /\ Len(q.plan) > 0
           /\ q.fallback \in BOOLEAN /\ q.stream \in BOOLEAN
<1>1. q.plan \in Seq(Provider) /\ q.plan # <<>> /\ q.fallback \in BOOLEAN /\ q.stream \in BOOLEAN
  BY CoordinatorAssumption
<1> QED
  BY <1>1

LEMMA CoordInitInv == Init => CoordInv
<1> SUFFICES ASSUME Init PROVE CoordInv
  OBVIOUS
<1>1. BreakerInv
  BY BreakerInitInv DEF Init
<1>2. CoordTypeOK
  BY Plans DEF Init, CoordInit, CoordTypeOK, Last, Verdict
<1>3. ASSUME NEW c \in Caller PROVE WalkOK(c) /\ CapOK(c) /\ StayOK(c)
  <2>1. path[c] = <<>> /\ verdict[c] = "none" /\ phase[c] = "idle" /\ req[c] \in Requests
    BY DEF Init, CoordInit, BreakerInit
  <2>2. Last(c) \in Nat
    BY <2>1, Plans DEF Last
  <2>3. Budget(c) \in Nat
    BY <2>2, CoordinatorAssumption DEF Budget
  <2> QED
    BY <2>1, <2>2, <2>3 DEF WalkOK, CapOK, StayOK, Calling, Calls, Bound
<1> QED
  BY <1>1, <1>2, <1>3 DEF CoordInv

(* What a step does to one caller; mine is what its slot comes to be.      *)
Slot(d) == <<req[d], i[d], path[d], verdict[d], phase[d], retry[d]>>

LocalOK(c) == WalkOK(c) /\ CapOK(c) /\ StayOK(c)

(* A caller whose slot does not change stays in order. *)
LEMMA Untouched ==
    ASSUME NEW d \in Caller, LocalOK(d), UNCHANGED Slot(d)
    PROVE  LocalOK(d)'
BY DEF LocalOK, Slot, WalkOK, CapOK, StayOK, Calling, Calls, Bound, Budget, Last

(* The slot of a caller, in an invariant state. *)
LEMMA SlotTypes ==
    ASSUME CoordInv, NEW c \in Caller
    PROVE  /\ req[c] \in Requests /\ req[c].fallback \in BOOLEAN /\ req[c].stream \in BOOLEAN
           /\ Last(c) \in Nat /\ Last(c) > 0 /\ Budget(c) \in Nat /\ Budget(c) > 0
           /\ i[c] \in 1..(Last(c) + 1)
           /\ i[c] <= Last(c) => Target(c) \in Provider
           /\ path[c] \in Seq(Nat) /\ Calls(c) \in Nat
           /\ verdict[c] \in Verdict /\ phase[c] \in Phase /\ retry[c] \in 0..1
           /\ LocalOK(c)
<1>1. req[c] \in Requests /\ i[c] \in 1..(Last(c) + 1) /\ path[c] \in Seq(Nat) /\ verdict[c] \in Verdict
  BY DEF CoordInv, CoordTypeOK
<1>2. Last(c) \in Nat /\ Last(c) > 0 /\ req[c].plan \in Seq(Provider)
  BY <1>1, Plans DEF Last
<1>3. i[c] <= Last(c) => Target(c) \in Provider
  BY <1>1, <1>2 DEF Target, Last
<1>4. Budget(c) \in Nat /\ Budget(c) > 0
  BY <1>2, CoordinatorAssumption DEF Budget
<1>5. phase[c] \in Phase /\ retry[c] \in 0..1
  BY DEF CoordInv, BreakerInv, BreakerTypeOK
<1> QED
  BY <1>1, <1>2, <1>3, <1>4, <1>5, Plans DEF CoordInv, LocalOK, Calls

(* Every step of the coordinator is a step of the breaker, or none. *)
LEMMA CoordinatorStep == CoordInv /\ [Next]_vars => [BreakerNext]_breakerVars
<1> SUFFICES ASSUME CoordInv, [Next]_vars PROVE [BreakerNext]_breakerVars
  OBVIOUS
<1> USE DEF BreakerNext, BreakerStep
<1>1. ASSUME NEW c \in Caller, NEW q \in Requests, Begin(c, q) PROVE UNCHANGED breakerVars
  BY <1>1 DEF Begin
<1>2. ASSUME NEW c \in Caller, CoordStep(c) PROVE [BreakerNext]_breakerVars
  <2>1. CASE SkipCooling(c) \/ Exhausted(c)
    BY <2>1 DEF SkipCooling, Exhausted
  <2>2. CASE Call(c)
    <3>1. Target(c) \in Provider
      BY <2>2, SlotTypes DEF Call, AtTarget
    <3> QED
      BY <2>2, <3>1 DEF Call
  <2>3. CASE HalfOpen(c) \/ Answered(c) \/ FailsRetryably(c)
    BY <2>3 DEF HalfOpen, Answered, FailsRetryably
  <2>4. CASE EndsEmpty(c) \/ Refused(c) \/ FailsForGood(c)
    BY <2>4 DEF EndsEmpty, Refused, FailsForGood
  <2>5. CASE RetryOrLeave(c)
    BY <2>5 DEF RetryOrLeave
  <2>6. CASE TimesOut(c)
    BY <2>6 DEF TimesOut
  <2> QED
    BY <1>2, <2>1, <2>2, <2>3, <2>4, <2>5, <2>6 DEF CoordStep
<1>3. CASE BreakerEnv /\ UNCHANGED coordVars
  BY <1>3
<1>4. CASE UNCHANGED vars
  BY <1>4 DEF vars
<1> QED
  BY <1>1, <1>2, <1>3, <1>4 DEF Next

-----------------------------------------------------------------------------
(* One lemma for each way a caller's slot can change. *)

(* The others' slots do not change. *)
OthersKeep(c) == \A d \in Caller \ {c} : UNCHANGED Slot(d)

(* Ending a request, in a call or not. *)
LEMMA Ends ==
    ASSUME CoordInv, NEW c \in Caller, verdict[c] = "open", NEW v \in Verdict \ {"open"},
           End(c, v), UNCHANGED <<req, i, path>>, phase'[c] = "idle"
    PROVE  CoordTypeOK' /\ LocalOK(c)'
<1>1. /\ req'[c] = req[c] /\ i'[c] = i[c] /\ path'[c] = path[c]
      /\ verdict'[c] = v /\ phase'[c] = "idle"
  BY DEF End, CoordInv, CoordTypeOK
<1>2. CoordTypeOK'
  BY DEF CoordInv, CoordTypeOK, End, Last
<1>3. Last(c)' = Last(c) /\ Budget(c)' = Budget(c) /\ Calls(c)' = Calls(c)
  BY <1>1 DEF Last, Budget, Calls
<1>4. WalkOK(c)' /\ StayOK(c)'
  BY <1>1, <1>3, SlotTypes DEF LocalOK, WalkOK, StayOK, Calling, Bound
<1>5. CapOK(c)'
  BY <1>1, <1>3, SlotTypes DEF LocalOK, CapOK, Calling
<1> QED
  BY <1>2, <1>4, <1>5 DEF LocalOK

(* Walking on to the next target, from a call that is over or from a       *)
(* target that was skipped; a request that must stay does neither.         *)
LEMMA WalksToNext ==
    ASSUME CoordInv, NEW c \in Caller, verdict[c] = "open", i[c] <= Last(c), ~Bound(c),
           i' = [i EXCEPT ![c] = @ + 1], UNCHANGED <<req, path, verdict>>, phase'[c] = "idle"
    PROVE  CoordTypeOK' /\ LocalOK(c)'
<1>1. /\ req'[c] = req[c] /\ i'[c] = i[c] + 1 /\ path'[c] = path[c]
      /\ verdict'[c] = "open" /\ phase'[c] = "idle"
  BY DEF CoordInv, CoordTypeOK
<1>2. CoordTypeOK'
  <2>1. i' \in [Caller -> Nat]
    BY SlotTypes DEF CoordInv, CoordTypeOK
  <2>2. \A d \in Caller : i'[d] \in 1..(Last(d)' + 1)
    BY SlotTypes DEF CoordInv, CoordTypeOK, Last
  <2> QED
    BY <2>1, <2>2 DEF CoordInv, CoordTypeOK
<1>3. Last(c)' = Last(c) /\ Budget(c)' = Budget(c) /\ Calls(c)' = Calls(c)
  BY <1>1 DEF Last, Budget, Calls
<1>4. path[c] \in Seq(Nat) /\ i[c] \in Nat /\ Calls(c) \in Nat
  BY SlotTypes
<1>5. WalkOK(c)'
  <2>1. Calls(c) = 0 \/ path[c][Calls(c)] <= i[c]
    BY <1>4, SlotTypes DEF LocalOK, WalkOK, Calls
  <2>2. Calls(c) > 0 => path[c][Calls(c)] \in Nat
    BY <1>4 DEF Calls
  <2> QED
    BY <1>1, <1>3, <1>4, <2>1, <2>2 DEF WalkOK, Calling
<1>6. CapOK(c)'
  BY <1>1, <1>3, <1>4, SlotTypes DEF LocalOK, CapOK, Calling
<1>7. StayOK(c)'
  BY <1>1, <1>3 DEF StayOK, Bound
<1> QED
  BY <1>2, <1>5, <1>6, <1>7 DEF LocalOK

(* A first call of a target, or its second. *)
LEMMA MakesCall ==
    ASSUME CoordInv, NEW c \in Caller, verdict[c] = "open", i[c] <= Last(c),
           \/ ~Calling(c) /\ InBudget(c) /\ retry'[c] = 0
           \/ Calling(c) /\ ~req[c].stream /\ retry[c] = 0 /\ retry'[c] = 1,
           Counted(c), UNCHANGED <<req, i, verdict>>, phase'[c] # "idle"
    PROVE  CoordTypeOK' /\ LocalOK(c)'
<1> DEFINE n == Calls(c)
<1>1. /\ req'[c] = req[c] /\ i'[c] = i[c] /\ path'[c] = Append(path[c], i[c])
      /\ verdict'[c] = "open"
  BY DEF Counted, CoordInv, CoordTypeOK
<1>2. path[c] \in Seq(Nat) /\ i[c] \in Nat /\ n \in Nat /\ n = Len(path[c])
  BY SlotTypes DEF Calls
<1>3. CoordTypeOK'
  BY <1>2 DEF CoordInv, CoordTypeOK, Counted, Last
<1>4. Last(c)' = Last(c) /\ Budget(c)' = Budget(c)
  BY <1>1 DEF Last, Budget
<1>5. Calls(c)' = n + 1
  BY <1>1, <1>2 DEF Calls
<1>6. /\ path'[c][n + 1] = i[c]
      /\ \A k \in 1..n : path'[c][k] = path[c][k]
  BY <1>1, <1>2
<1>7. WalkOK(c)'
  <2>1. CASE ~Calling(c)
    <3>1. n = 0 \/ path[c][n] < i[c]
      BY <2>1, SlotTypes DEF LocalOK, WalkOK
    <3> QED
      BY <1>1, <1>2, <1>4, <1>5, <1>6, <3>1 DEF WalkOK, Calling
  <2>2. CASE Calling(c)
    BY <1>1, <1>2, <1>4, <1>5, <1>6, <2>2 DEF WalkOK, Calling
  <2> QED
    BY <2>1, <2>2
<1>8. CapOK(c)'
  BY <1>1, <1>2, <1>4, <1>5, SlotTypes DEF LocalOK, CapOK, Calling, InBudget, Calls
<1>9. StayOK(c)'
  <2>1. CASE Calling(c)
    <3>1. n > 0 /\ path[c][n] = i[c]
      BY <2>1, SlotTypes DEF LocalOK, WalkOK
    <3>2. Bound(c)' => Bound(c)
      BY <1>1, <1>2, <1>6, <3>1 DEF Bound
    <3>3. Bound(c) => \A k \in 1..n : path[c][k] = path[c][1]
      BY SlotTypes DEF LocalOK, StayOK
    <3> QED
      BY <1>1, <1>2, <1>5, <1>6, <3>1, <3>2, <3>3 DEF StayOK, Calling
  <2>2. CASE ~Calling(c)
    <3>1. ~Bound(c)
      BY <2>2, SlotTypes DEF LocalOK, StayOK
    <3>2. Bound(c)' => n = 0
      BY <1>1, <1>2, <1>6, <3>1 DEF Bound
    <3> QED
      BY <1>1, <1>2, <1>5, <1>6, <3>2 DEF StayOK, Calling
  <2> QED
    BY <2>1, <2>2
<1> QED
  BY <1>3, <1>7, <1>8, <1>9 DEF LocalOK

(* From one phase of a call to the next. *)
LEMMA StaysInCall ==
    ASSUME CoordInv, NEW c \in Caller, Calling(c), phase'[c] # "idle", retry'[c] = retry[c],
           UNCHANGED coordVars
    PROVE  CoordTypeOK' /\ LocalOK(c)'
<1>1. CoordTypeOK'
  BY DEF CoordInv, CoordTypeOK, coordVars, Last
<1>2. /\ req'[c] = req[c] /\ i'[c] = i[c] /\ path'[c] = path[c] /\ verdict'[c] = verdict[c]
      /\ Last(c)' = Last(c) /\ Budget(c)' = Budget(c) /\ Calls(c)' = Calls(c)
  BY DEF coordVars, Last, Budget, Calls
<1>3. WalkOK(c)' /\ CapOK(c)' /\ StayOK(c)'
  BY <1>2, SlotTypes DEF LocalOK, WalkOK, CapOK, StayOK, Bound, Calling
<1> QED
  BY <1>1, <1>3 DEF LocalOK

(* A slot is taken by another request. *)
LEMMA Begins ==
    ASSUME CoordInv, NEW c \in Caller, NEW q \in Requests, Begin(c, q)
    PROVE  CoordTypeOK' /\ LocalOK(c)'
<1>1. /\ req'[c] = q /\ i'[c] = 1 /\ path'[c] = <<>> /\ verdict'[c] = "open"
      /\ phase'[c] = phase[c]
  BY DEF Begin, End, CoordInv, CoordTypeOK, breakerVars
<1>2. ~Calling(c)'
  BY <1>1, SlotTypes DEF Begin, LocalOK, WalkOK, Calling
<1>3. CoordTypeOK'
  <2>1. /\ req' \in [Caller -> Requests] /\ i' \in [Caller -> Nat]
        /\ path' \in [Caller -> Seq(Nat)] /\ verdict' \in [Caller -> Verdict]
    BY DEF Begin, End, CoordInv, CoordTypeOK, Verdict
  <2>2. \A d \in Caller : i'[d] \in 1..(Last(d)' + 1)
    BY Plans DEF Begin, CoordInv, CoordTypeOK, Last
  <2> QED
    BY <2>1, <2>2 DEF CoordTypeOK
<1>4. Calls(c)' = 0 /\ Last(c)' \in Nat
  BY <1>1, Plans DEF Calls, Last
<1>5. Budget(c)' \in Nat
  BY <1>4, CoordinatorAssumption DEF Budget
<1> QED
  BY <1>1, <1>2, <1>3, <1>4, <1>5 DEF LocalOK, WalkOK, CapOK, StayOK, Bound

(* A request that leaves a target it has called may do so. *)
LEMMA Leaves ==
    ASSUME CoordInv, NEW c \in Caller, Calling(c), phase'[c] = "idle", Leave(c),
           UNCHANGED <<req, path>>
    PROVE  CoordTypeOK' /\ LocalOK(c)'
<1>1. verdict[c] = "open" /\ i[c] <= Last(c) /\ Calls(c) > 0 /\ path[c][Calls(c)] = i[c]
  BY SlotTypes DEF LocalOK, WalkOK
<1>2. CASE WalksOn(c)
  <2>1. ~Bound(c)
    <3>1. Calls(c) \in Nat /\ (Bound(c) => path[c][Calls(c)] = path[c][1])
      BY <1>1, SlotTypes DEF LocalOK, StayOK
    <3> QED
      BY <1>1, <1>2, <3>1 DEF WalksOn, Bound
  <2> QED
    BY <1>1, <1>2, <2>1, WalksToNext DEF Leave
<1>3. CASE ~WalksOn(c)
  BY <1>1, <1>3, Ends DEF Leave, Verdict
<1> QED
  BY <1>2, <1>3

-----------------------------------------------------------------------------
(* All steps. *)

LEMMA CallerStep ==
    ASSUME CoordInv, NEW c \in Caller, CoordStep(c)
    PROVE  CoordTypeOK' /\ LocalOK(c)'
<1>0. /\ phase \in [Caller -> Phase] /\ retry \in [Caller -> 0..1]
      /\ i \in [Caller -> Nat] /\ path \in [Caller -> Seq(Nat)] /\ verdict \in [Caller -> Verdict]
  BY DEF CoordInv, BreakerInv, BreakerTypeOK, CoordTypeOK
<1>1. CASE SkipCooling(c)
  <2>1. ~Bound(c) /\ phase'[c] = "idle"
    BY <1>1, SlotTypes DEF SkipCooling, AtTarget, LocalOK, StayOK, Calling, breakerVars
  <2> QED
    BY <1>1, <2>1, WalksToNext DEF SkipCooling, AtTarget
<1>2. CASE Call(c)
  <2>1. retry'[c] = 0 /\ phase'[c] # "idle"
    BY <1>0, <1>2 DEF Call, Admit
  <2> QED
    BY <1>2, <2>1, MakesCall DEF Call, AtTarget, Calling
<1>3. CASE HalfOpen(c)
  <2>1. Calling(c) /\ phase'[c] # "idle" /\ retry'[c] = retry[c]
    BY <1>0, <1>3 DEF HalfOpen, Probe, Calling
  <2> QED
    BY <1>3, <2>1, StaysInCall DEF HalfOpen
<1>4. CASE Exhausted(c)
  BY <1>4, Ends DEF Exhausted, WhenExhausted, Verdict, breakerVars
<1>5. CASE Answered(c)
  <2>1. Calling(c) /\ phase'[c] = "idle"
    BY <1>0, <1>5 DEF Answered, CallSucceeds, Calling
  <2> QED
    BY <1>5, <2>1, SlotTypes, Ends DEF Answered, LocalOK, WalkOK, Verdict
<1>6. CASE EndsEmpty(c)
  <2>1. Calling(c) /\ phase'[c] = "idle"
    BY <1>0, <1>6 DEF EndsEmpty, CallSucceeds, CallUncounted, Calling
  <2>2. verdict[c] = "open" /\ i[c] <= Last(c)
    BY <2>1, SlotTypes DEF LocalOK, WalkOK
  <2>3. CASE MoreTargets(c)
    <3>1. ~Bound(c)
      BY <2>3 DEF MoreTargets, Bound
    <3> QED
      BY <1>6, <2>1, <2>2, <2>3, <3>1, WalksToNext DEF EndsEmpty
  <2>4. CASE ~MoreTargets(c)
    BY <1>6, <2>1, <2>2, <2>4, Ends DEF EndsEmpty, Verdict
  <2> QED
    BY <2>3, <2>4
<1>7. CASE FailsRetryably(c)
  <2>1. Calling(c) /\ phase'[c] # "idle" /\ retry'[c] = retry[c]
    BY <1>0, <1>7 DEF FailsRetryably, CallFails, Calling
  <2> QED
    BY <1>7, <2>1, StaysInCall DEF FailsRetryably
<1>8. CASE RetryOrLeave(c)
  <2>1. CASE Retries(c) /\ CountFailure(c, TRUE) /\ Counted(c) /\ UNCHANGED <<req, i, verdict>>
    <3>1. Calling(c) /\ phase'[c] # "idle" /\ retry'[c] = 1
      BY <1>0, <2>1 DEF CountFailure, Calling
    <3>2. verdict[c] = "open" /\ i[c] <= Last(c)
      BY <3>1, SlotTypes DEF LocalOK, WalkOK
    <3> QED
      BY <2>1, <3>1, <3>2, MakesCall DEF Retries
  <2>2. CASE CountFailure(c, FALSE) /\ Leave(c) /\ UNCHANGED <<req, path>>
    <3>1. Calling(c) /\ phase'[c] = "idle"
      BY <1>0, <2>2 DEF CountFailure, Calling
    <3> QED
      BY <2>2, <3>1, Leaves
  <2> QED
    BY <1>8, <2>1, <2>2 DEF RetryOrLeave
<1>9. CASE Refused(c)
  <2>1. Calling(c) /\ phase'[c] = "idle"
    BY <1>0, <1>9 DEF Refused, CallUncounted, Calling
  <2> QED
    BY <1>9, <2>1, Leaves DEF Refused
<1>10. CASE FailsForGood(c) \/ TimesOut(c)
  <2>1. Calling(c) /\ phase'[c] = "idle"
    BY <1>0, <1>10 DEF FailsForGood, TimesOut, CallUncounted, ContextEnds, Calling
  <2>2. verdict[c] = "open"
    BY <2>1, SlotTypes DEF LocalOK, WalkOK
  <2> QED
    BY <1>10, <2>1, <2>2, Ends DEF FailsForGood, TimesOut, Verdict
<1> QED
  BY <1>1, <1>2, <1>3, <1>4, <1>5, <1>6, <1>7, <1>8, <1>9, <1>10 DEF CoordStep

LEMMA OthersStep ==
    ASSUME CoordInv, NEW c \in Caller, CoordStep(c) \/ \E q \in Requests : Begin(c, q)
    PROVE  OthersKeep(c)
<1> SUFFICES ASSUME NEW d \in Caller, d # c PROVE UNCHANGED Slot(d)
  BY DEF OthersKeep
<1>0. /\ phase \in [Caller -> Phase] /\ retry \in [Caller -> 0..1] /\ req \in [Caller -> Requests]
      /\ i \in [Caller -> Nat] /\ path \in [Caller -> Seq(Nat)] /\ verdict \in [Caller -> Verdict]
  BY DEF CoordInv, BreakerInv, BreakerTypeOK, CoordTypeOK
<1> USE DEF Slot
<1>1. CASE SkipCooling(c) \/ Exhausted(c)
  BY <1>0, <1>1 DEF SkipCooling, Exhausted, End, breakerVars
<1>2. CASE Call(c)
  BY <1>0, <1>2 DEF Call, Admit, Counted
<1>3. CASE HalfOpen(c) \/ FailsRetryably(c)
  BY <1>0, <1>3 DEF HalfOpen, Probe, FailsRetryably, CallFails, coordVars
<1>4. CASE Answered(c)
  BY <1>0, <1>4 DEF Answered, CallSucceeds, End
<1>5. CASE EndsEmpty(c)
  <2>1. phase'[d] = phase[d] /\ retry'[d] = retry[d]
    BY <1>0, <1>5 DEF EndsEmpty, CallSucceeds, CallUncounted
  <2>2. req' = req /\ path' = path /\ i'[d] = i[d] /\ verdict'[d] = verdict[d]
    BY <1>0, <1>5 DEF EndsEmpty, End
  <2> QED
    BY <2>1, <2>2
<1>6. CASE RetryOrLeave(c)
  <2>1. phase'[d] = phase[d] /\ retry'[d] = retry[d]
    BY <1>0, <1>6 DEF RetryOrLeave, CountFailure
  <2>2. req' = req /\ path'[d] = path[d] /\ i'[d] = i[d] /\ verdict'[d] = verdict[d]
    BY <1>0, <1>6 DEF RetryOrLeave, Leave, Counted, End
  <2> QED
    BY <2>1, <2>2
<1>7. CASE Refused(c)
  <2>1. phase'[d] = phase[d] /\ retry'[d] = retry[d]
    BY <1>0, <1>7 DEF Refused, CallUncounted
  <2>2. req' = req /\ path' = path /\ i'[d] = i[d] /\ verdict'[d] = verdict[d]
    BY <1>0, <1>7 DEF Refused, Leave, End
  <2> QED
    BY <2>1, <2>2
<1>8. CASE FailsForGood(c) \/ TimesOut(c)
  BY <1>0, <1>8 DEF FailsForGood, TimesOut, CallUncounted, ContextEnds, End
<1>9. ASSUME NEW q \in Requests, Begin(c, q) PROVE UNCHANGED Slot(d)
  BY <1>0, <1>9 DEF Begin, End, breakerVars
<1> QED
  BY <1>1, <1>2, <1>3, <1>4, <1>5, <1>6, <1>7, <1>8, <1>9 DEF CoordStep

LEMMA CoordStepInv == CoordInv /\ [Next]_vars => CoordInv'
<1> SUFFICES ASSUME CoordInv, [Next]_vars PROVE CoordInv'
  OBVIOUS
<1>1. BreakerInv'
  BY CoordinatorStep, BreakerStepInv DEF CoordInv
<1>2. ASSUME NEW c \in Caller, CoordTypeOK', LocalOK(c)', OthersKeep(c) PROVE CoordInv'
  <2>1. \A d \in Caller : LocalOK(d)'
    BY <1>2, Untouched DEF CoordInv, LocalOK, OthersKeep
  <2> QED
    BY <1>1, <1>2, <2>1 DEF CoordInv, LocalOK
<1>3. ASSUME NEW c \in Caller, NEW q \in Requests, Begin(c, q) PROVE CoordInv'
  BY <1>2, <1>3, Begins, OthersStep
<1>4. ASSUME NEW c \in Caller, CoordStep(c) PROVE CoordInv'
  BY <1>2, <1>4, CallerStep, OthersStep
<1>5. CASE (BreakerEnv /\ UNCHANGED coordVars) \/ UNCHANGED vars
  <2>1. UNCHANGED <<phase, retry>> /\ UNCHANGED coordVars
    BY <1>5 DEF BreakerEnv, Tick, MoodChanges, StoreToggles, vars, breakerVars
  <2>2. CoordTypeOK'
    BY <2>1 DEF CoordInv, CoordTypeOK, coordVars, Last
  <2>3. \A d \in Caller : UNCHANGED Slot(d)
    BY <2>1 DEF Slot, coordVars
  <2>4. \A d \in Caller : LocalOK(d)'
    BY <2>3, Untouched DEF CoordInv, LocalOK
  <2> QED
    BY <1>1, <2>2, <2>4 DEF CoordInv, LocalOK
<1> QED
  BY <1>3, <1>4, <1>5 DEF Next

THEOREM CoordInvariance == Spec => []CoordInv
BY CoordInitInv, CoordStepInv, PTL DEF Spec

(* The coordinator touches the provider_health rows only as the breaker    *)
(* does: what is proved of the breaker holds of it.                        *)
THEOREM CoordinatorImplementsBreaker == Spec => BreakerSpec
<1>1. Init => BreakerInit
  BY DEF Init
<1> QED
  BY <1>1, CoordInvariance, CoordinatorStep, PTL DEF Spec, BreakerSpec

(* Type correctness of the walk. *)
THEOREM CoordTypeCorrect == Spec => []CoordTypeOK
BY CoordInvariance, PTL DEF CoordInv

(* However a request's targets fail, cool down and are retried, it makes   *)
(* at most one call more than its budget, and a stream one per target.     *)
THEOREM CallsAreCapped == Spec => []AttemptsCapped
<1>1. CoordInv => AttemptsCapped
  BY SlotTypes DEF AttemptsCapped, LocalOK, CapOK, Calls
<1> QED
  BY <1>1, CoordInvariance, PTL

(* A request that is not a fallback calls no other target than the first   *)
(* one it called, unless it is no stream and its plan's first target was   *)
(* skipped.                                                                *)
THEOREM DirectRequestsStay == Spec => []DirectStaysPut
<1>1. ASSUME CoordInv, NEW c \in Caller PROVE path[c] # <<>> => Calls(c) > 0
  BY <1>1, SlotTypes DEF Calls
<1>2. ASSUME CoordInv, NEW c \in Caller PROVE DOMAIN path[c] = 1..Calls(c)
  BY <1>2, SlotTypes DEF Calls
<1>3. CoordInv => DirectStaysPut
  BY <1>1, <1>2, SlotTypes DEF DirectStaysPut, LocalOK, StayOK, Bound
<1> QED
  BY <1>3, CoordInvariance, PTL

-----------------------------------------------------------------------------
(* Towards OrderedFailover. *)

(* A target that is asked comes after the ones asked before, or is asked   *)
(* for the second time.                                                    *)
LEMMA AsksInOrder ==
    ASSUME CoordInv, NEW c \in Caller, verdict[c] = "open", i[c] <= Last(c),
           ~Calling(c) \/ (Calling(c) /\ retry[c] = 0),
           Counted(c), UNCHANGED verdict
    PROVE  Failover!Ask(c)
<1>1. i[c] \in DOMAIN req[c].plan /\ req[c] \in Requests
  BY SlotTypes, Plans DEF Last
<1>2. i[c] \in UNION {DOMAIN q.plan : q \in Requests}
  BY <1>1
<1>3. path[c] \in Seq(Nat) /\ i[c] \in Nat /\ Calls(c) = Len(path[c]) /\ Calls(c) \in Nat
  BY SlotTypes DEF Calls
<1>4. Failover!InOrder(path[c], i[c])
  <2>1. CASE ~Calling(c)
    BY <1>3, <2>1, SlotTypes DEF LocalOK, WalkOK, Failover!InOrder
  <2>2. CASE Calling(c) /\ retry[c] = 0
    BY <1>3, <2>2, SlotTypes DEF LocalOK, WalkOK, Failover!InOrder
  <2> QED
    BY <2>1, <2>2
<1> QED
  BY <1>2, <1>4 DEF Failover!Ask, Counted

LEMMA FailoverStep == CoordInv /\ [Next]_vars => [Failover!Next]_(Failover!vars)
<1> SUFFICES ASSUME CoordInv, [Next]_vars PROVE [Failover!Next]_(Failover!vars)
  OBVIOUS
<1> USE DEF Failover!Next, Failover!vars
<1>1. ASSUME NEW c \in Caller, NEW q \in Requests, Begin(c, q) PROVE Failover!Begin(c)
  BY <1>1 DEF Begin, End, Failover!Begin
<1>2. ASSUME NEW c \in Caller, NEW v \in {"served", "empty", "failed"},
             verdict[c] = "open", Calls(c) > 0, End(c, v), UNCHANGED path
      PROVE  Failover!End(c)
  <2>1. path[c] # <<>>
    BY <1>2 DEF Calls
  <2>2. v \in {"served", "empty", "failed", "unavailable"} /\ v # "unavailable"
    OBVIOUS
  <2> QED
    BY <1>2, <2>1, <2>2 DEF End, Failover!End
<1>3. ASSUME NEW c \in Caller, CoordStep(c) PROVE [Failover!Next]_(Failover!vars)
  <2>1. CASE SkipCooling(c) \/ HalfOpen(c) \/ FailsRetryably(c)
    BY <2>1 DEF SkipCooling, HalfOpen, FailsRetryably, coordVars
  <2>2. CASE Call(c)
    BY <2>2, AsksInOrder DEF Call, AtTarget, Calling
  <2>3. CASE Exhausted(c)
    BY <2>3 DEF Exhausted, End, WhenExhausted, Failover!End
  <2>4. ASSUME Calling(c), Leave(c), UNCHANGED path PROVE [Failover!Next]_(Failover!vars)
    <3>1. verdict[c] = "open" /\ Calls(c) > 0
      BY <2>4, SlotTypes DEF LocalOK, WalkOK
    <3> QED
      BY <1>2, <2>4, <3>1 DEF Leave
  <2>5. ASSUME Calling(c), NEW v \in {"served", "empty", "failed"}, End(c, v), UNCHANGED path
        PROVE  Failover!End(c)
    <3>1. verdict[c] = "open" /\ Calls(c) > 0
      BY <2>5, SlotTypes DEF LocalOK, WalkOK
    <3> QED
      BY <1>2, <2>5, <3>1
  <2>6. CASE Answered(c) \/ FailsForGood(c) \/ TimesOut(c)
    BY <2>5, <2>6 DEF Answered, FailsForGood, TimesOut, CallSucceeds, CallUncounted, ContextEnds,
                      Calling
  <2>7. CASE EndsEmpty(c)
    BY <2>5, <2>7 DEF EndsEmpty, CallSucceeds, CallUncounted, Calling
  <2>8. CASE Refused(c)
    BY <2>4, <2>8 DEF Refused, CallUncounted, Calling
  <2>9. CASE RetryOrLeave(c)
    <3>1. Calling(c)
      BY <2>9 DEF RetryOrLeave, CountFailure, Calling
    <3>2. verdict[c] = "open" /\ i[c] <= Last(c)
      BY <3>1, SlotTypes DEF LocalOK, WalkOK
    <3> QED
      BY <2>4, <2>9, <3>1, <3>2, AsksInOrder DEF RetryOrLeave, Retries
  <2> QED
    BY <1>3, <2>1, <2>2, <2>3, <2>6, <2>7, <2>8, <2>9 DEF CoordStep
<1>4. CASE BreakerEnv /\ UNCHANGED coordVars
  BY <1>4 DEF coordVars
<1>5. CASE UNCHANGED vars
  BY <1>5 DEF vars, coordVars
<1> QED
  BY <1>1, <1>3, <1>4, <1>5 DEF Next

(* Retries, budgets, circuits and stores do not show: the coordinator asks *)
(* targets and ends requests as OrderedFailover allows.  (That every       *)
(* request ends is left to the model checker.)                             *)
THEOREM CoordinatorFailsOverInOrder == Spec => Failover!Walks
<1>1. Init => Failover!Init
  BY DEF Init, CoordInit, Failover!Init
<1> QED
  BY <1>1, CoordInvariance, FailoverStep, PTL DEF Spec, Failover!Walks

=============================================================================
