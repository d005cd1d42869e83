--------------------------- MODULE AdmissionProofs ---------------------------
(***************************************************************************)
(* Type correctness, the three counters of admission, the rate window      *)
(* across reloads and the daily quota, for any number of requests, keys    *)
(* and reloads and any limits; then the gateway whose handlers run the     *)
(* coordinator's spend admission.  Whatever the handler does with the      *)
(* budget, its step is one of Admission's or changes nothing there, so     *)
(* what is shown of the counters holds of the composition, and on that     *)
(* rests that the reserved spend is exact, and within the budget unless    *)
(* two spend admissions of a key overlap.                                  *)
(***************************************************************************)
EXTENDS SpendBudget, FiniteSetTheorems, WellFoundedInduction, TLAPS

(* Rows, and requests that are not past acquireConcurrency, carry one of   *)
(* the limits their key may have.                                          *)
LimitsKept ==
    /\ \A k \in Key : limit[k] \in Limits(k)
    /\ \A r \in Request :
          pc[r] \in {"enter", "rate", "acquire"} => lim[r] \in Limits(KeyOf[r])

AdmissionInv ==
    AdmissionTypeOK /\ ReservedExact /\ ConcurrencyHeld /\ GuardHeld /\ LimitsKept

(* Requests counted at some places are finitely many. *)
LEMMA AmongFinite ==
    ASSUME NEW g, NEW keys, NEW places
    PROVE  IsFiniteSet(Among(g, keys, places)) /\ Cardinality(Among(g, keys, places)) \in Nat
<1>1. Among(g, keys, places) \subseteq Request
  BY DEF Among
<1> QED
  BY <1>1, AdmissionAssumption, FS_Subset, FS_CardinalityType

(* One if a place counts, else zero. *)
Weight(place, places) == IF place \in places THEN 1 ELSE 0

(* What r's move adds to a count of requests of generation g. *)
Gain(r, place, g, keys, places) ==
    IF gen[r] = g /\ KeyOf[r] \in keys
    THEN Weight(place, places) - Weight(pc[r], places)
    ELSE 0

(* A request that moves from one place to another changes the number of    *)
(* requests at a set of places by its Gain.                                *)
LEMMA MoveOne ==
    ASSUME AdmissionTypeOK, NEW r \in Request, NEW place,
           Goto(r, place), gen' = gen,
           NEW CONSTANT g, NEW CONSTANT keys, NEW CONSTANT places
    PROVE  Cardinality(Among(g, keys, places)') =
              Cardinality(Among(g, keys, places)) + Gain(r, place, g, keys, places)
<1> DEFINE here == gen[r] = g /\ KeyOf[r] \in keys
           A == Among(g, keys, places)
           B == Among(g, keys, places)'
<1> USE DEF Goto
<1>1. IsFiniteSet(A) /\ Cardinality(A) \in Nat
  BY AmongFinite
<1>2. ASSUME here /\ pc[r] \in places <=> here /\ place \in places PROVE B = A
  BY <1>2 DEF Among, AdmissionTypeOK
<1>3. ASSUME ~(here /\ pc[r] \in places), here /\ place \in places
      PROVE  B = A \cup {r} /\ r \notin A
  BY <1>3 DEF Among, AdmissionTypeOK
<1>4. ASSUME here /\ pc[r] \in places, ~(here /\ place \in places)
      PROVE  B = A \ {r} /\ r \in A
  BY <1>4 DEF Among, AdmissionTypeOK
<1>5. \A x : x \notin A => Cardinality(A \cup {x}) = Cardinality(A) + 1
  BY <1>1, FS_AddElement
<1>6. \A x : x \in A => Cardinality(A \ {x}) = Cardinality(A) - 1
  BY <1>1, FS_RemoveElement
<1> HIDE DEF A, B
<1>7. (here /\ pc[r] \in places <=> here /\ place \in places) => Cardinality(B) = Cardinality(A)
  BY <1>2
<1>8. ~(here /\ pc[r] \in places) /\ here /\ place \in places
         => Cardinality(B) = Cardinality(A) + 1
  BY <1>3, <1>5
<1>9. here /\ pc[r] \in places /\ ~(here /\ place \in places)
         => Cardinality(B) = Cardinality(A) - 1
  BY <1>4, <1>6
<1>10. Cardinality(B) = Cardinality(A) + Gain(r, place, g, keys, places)
  BY <1>1, <1>7, <1>8, <1>9 DEF Gain, Weight
<1> QED
  BY <1>10 DEF A, B

(* How a request's move changes the numbers the three counters stand for. *)
LEMMA Recount ==
    ASSUME AdmissionTypeOK, NEW r \in Request, NEW place, Goto(r, place), gen' = gen,
           NEW CONSTANT g, NEW CONSTANT k
    PROVE  /\ Cardinality(Holders(g, k)') =
                 Cardinality(Holders(g, k)) + Gain(r, place, g, {k}, HolderPlaces)
           /\ Cardinality(Running(g, k)') =
                 Cardinality(Running(g, k)) + Gain(r, place, g, {k}, RunningPlaces)
           /\ Cardinality(Guarded(g)') =
                 Cardinality(Guarded(g)) + Gain(r, place, g, Key, GuardedPlaces)
<1>1. Cardinality(Among(g, {k}, HolderPlaces)') =
         Cardinality(Among(g, {k}, HolderPlaces)) + Gain(r, place, g, {k}, HolderPlaces)
  BY MoveOne
<1>2. Cardinality(Among(g, {k}, RunningPlaces)') =
         Cardinality(Among(g, {k}, RunningPlaces)) + Gain(r, place, g, {k}, RunningPlaces)
  BY MoveOne
<1>3. Cardinality(Among(g, Key, GuardedPlaces)') =
         Cardinality(Among(g, Key, GuardedPlaces)) + Gain(r, place, g, Key, GuardedPlaces)
  BY MoveOne
<1> QED
  BY <1>1, <1>2, <1>3 DEF Holders, Running, Guarded

(* The counts of an unchanged pc and gen. *)
LEMMA NoRecount ==
    ASSUME UNCHANGED <<pc, gen>>, NEW CONSTANT g, NEW CONSTANT k
    PROVE  Holders(g, k)' = Holders(g, k) /\ Running(g, k)' = Running(g, k) /\ Guarded(g)' = Guarded(g)
BY DEF Holders, Running, Guarded, Among

(* The counts are natural numbers. *)
LEMMA CountsNat ==
    ASSUME NEW g, NEW k
    PROVE  /\ Cardinality(Holders(g, k)) \in Nat
           /\ Cardinality(Running(g, k)) \in Nat
           /\ Cardinality(Guarded(g)) \in Nat
BY AmongFinite DEF Holders, Running, Guarded

(* A request that is in one of the counts makes it positive. *)
LEMMA CountedOnce ==
    ASSUME NEW r \in Request, NEW keys, KeyOf[r] \in keys, NEW places, pc[r] \in places
    PROVE  Cardinality(Among(gen[r], keys, places)) > 0
<1>1. r \in Among(gen[r], keys, places)
  BY DEF Among
<1> QED
  BY <1>1, AmongFinite, FS_EmptySet

-----------------------------------------------------------------------------
(* The steps that leave a counter alone. *)

(* A move between places that both count, or both do not, for the          *)
(* reservations.                                                           *)
LEMMA ReservedQuiet ==
    ASSUME AdmissionInv, NEW r \in Request, NEW place, Goto(r, place), gen' = gen,
           reserved' = reserved, place \in HolderPlaces <=> pc[r] \in HolderPlaces
    PROVE  ReservedExact'
<1> SUFFICES ASSUME NEW g \in Gen, NEW k \in Key
             PROVE  reserved'[g][k] = Cardinality(Holders(g, k)')
  BY DEF ReservedExact
<1>1. Cardinality(Holders(g, k)') = Cardinality(Holders(g, k)) + Gain(r, place, g, {k}, HolderPlaces)
  BY Recount DEF AdmissionInv
<1>2. Gain(r, place, g, {k}, HolderPlaces) = 0
  BY DEF Gain, Weight
<1>3. Cardinality(Holders(g, k)) \in Nat
  BY CountsNat
<1> QED
  BY <1>1, <1>2, <1>3 DEF AdmissionInv, ReservedExact

(* The same for the concurrency counts. *)
LEMMA ActiveQuiet ==
    ASSUME AdmissionInv, NEW r \in Request, NEW place, Goto(r, place), gen' = gen,
           active' = active, place \in RunningPlaces <=> pc[r] \in RunningPlaces
    PROVE  ConcurrencyHeld'
<1> SUFFICES ASSUME NEW g \in Gen, NEW k \in Key
             PROVE  Cardinality(Running(g, k)') = Cardinality(Running(g, k))
  BY DEF ConcurrencyHeld, AdmissionInv
<1>1. Cardinality(Running(g, k)') = Cardinality(Running(g, k)) + Gain(r, place, g, {k}, RunningPlaces)
  BY Recount DEF AdmissionInv
<1>2. Gain(r, place, g, {k}, RunningPlaces) = 0
  BY DEF Gain, Weight
<1>3. Cardinality(Running(g, k)) \in Nat
  BY CountsNat
<1> QED
  BY <1>1, <1>2, <1>3

(* The same for the guard's slots. *)
LEMMA GuardQuiet ==
    ASSUME AdmissionInv, NEW r \in Request, NEW place, Goto(r, place), gen' = gen,
           slots' = slots, place \in GuardedPlaces <=> pc[r] \in GuardedPlaces
    PROVE  GuardHeld'
<1> SUFFICES ASSUME NEW g \in Gen
             PROVE  Cardinality(Guarded(g)') = Cardinality(Guarded(g))
  BY DEF GuardHeld, AdmissionInv
<1>1. Cardinality(Guarded(g)') = Cardinality(Guarded(g)) + Gain(r, place, g, Key, GuardedPlaces)
  BY Recount DEF AdmissionInv
<1>2. Gain(r, place, g, Key, GuardedPlaces) = 0
  BY DEF Gain, Weight
<1>3. Cardinality(Guarded(g)) \in Nat
  BY CountsNat
<1> QED
  BY <1>1, <1>2, <1>3

(* Steps of the environment, and stuttering. *)
LEMMA EnvironmentQuiet ==
    ASSUME AdmissionInv, UNCHANGED <<pc, gen, slots, active, reserved>>
    PROVE  ReservedExact' /\ ConcurrencyHeld' /\ GuardHeld'
<1>1. \A g \in Gen, k \in Key : /\ Holders(g, k)' = Holders(g, k)
                                /\ Running(g, k)' = Running(g, k)
                                /\ Guarded(g)' = Guarded(g)
  BY NoRecount
<1>2. \A g \in Gen : Guarded(g)' = Guarded(g)
  BY NoRecount
<1> QED
  BY <1>1, <1>2 DEF AdmissionInv, ReservedExact, ConcurrencyHeld, GuardHeld

(* An arriving request changes its generation, but counts nowhere, before  *)
(* or after.                                                               *)
LEMMA ArriveQuiet ==
    ASSUME AdmissionInv, NEW r \in Request, Arrive(r)
    PROVE  ReservedExact' /\ ConcurrencyHeld' /\ GuardHeld'
<1>1. ASSUME NEW CONSTANT g, NEW CONSTANT keys, NEW CONSTANT places,
             "new" \notin places, "enter" \notin places
      PROVE  Among(g, keys, places)' = Among(g, keys, places)
  BY <1>1 DEF Arrive, Goto, Among, AdmissionInv, AdmissionTypeOK
<1>2. \A g \in Gen, k \in Key : Holders(g, k)' = Holders(g, k)
  BY <1>1 DEF Holders, HolderPlaces
<1>3. \A g \in Gen, k \in Key : Running(g, k)' = Running(g, k)
  BY <1>1 DEF Running, RunningPlaces
<1>4. \A g \in Gen : Guarded(g)' = Guarded(g)
  BY <1>1 DEF Guarded, GuardedPlaces, RunningPlaces
<1>5. UNCHANGED <<slots, active, reserved>>
  BY DEF Arrive
<1> QED
  BY <1>2, <1>3, <1>4, <1>5 DEF AdmissionInv, ReservedExact, ConcurrencyHeld, GuardHeld

-----------------------------------------------------------------------------
(* The steps that change a counter. *)

(* Reserve and the deferred release keep the reservations exact. *)
LEMMA ReservationSteps ==
    ASSUME AdmissionInv, NEW r \in Request, Reserve(r) \/ ReleaseReservation(r)
    PROVE  ReservedExact'
<1> SUFFICES ASSUME NEW g \in Gen, NEW k \in Key
             PROVE  reserved'[g][k] = Cardinality(Holders(g, k)')
  BY DEF ReservedExact
<1> DEFINE mine == gen[r] = g /\ KeyOf[r] = k
<1>1. Cardinality(Holders(g, k)) \in Nat /\ reserved[g][k] = Cardinality(Holders(g, k))
  BY CountsNat DEF AdmissionInv, ReservedExact
<1>2. gen[r] \in Gen /\ KeyOf[r] \in Key /\ reserved \in [Gen -> [Key -> Nat]]
  BY AdmissionAssumption DEF AdmissionInv, AdmissionTypeOK
<1>3. CASE Reserve(r)
  <2>1. Cardinality(Holders(g, k)') =
           Cardinality(Holders(g, k)) + Gain(r, "handling", g, {k}, HolderPlaces)
    BY <1>3, Recount DEF Reserve, AdmissionInv
  <2>2. Gain(r, "handling", g, {k}, HolderPlaces) = IF mine THEN 1 ELSE 0
    BY <1>3 DEF Reserve, Gain, Weight, HolderPlaces
  <2>3. reserved'[g][k] = IF mine THEN reserved[g][k] + 1 ELSE reserved[g][k]
    BY <1>2, <1>3 DEF Reserve
  <2> QED
    BY <1>1, <2>1, <2>2, <2>3
<1>4. CASE ReleaseReservation(r)
  <2>1. Cardinality(Holders(g, k)') =
           Cardinality(Holders(g, k)) + Gain(r, "unwind", g, {k}, HolderPlaces)
    BY <1>4, Recount DEF ReleaseReservation, AdmissionInv
  <2>2. Gain(r, "unwind", g, {k}, HolderPlaces) = IF mine THEN -1 ELSE 0
    BY <1>4 DEF ReleaseReservation, Gain, Weight, HolderPlaces
  <2>3. mine => reserved[g][k] > 0
    BY <1>1, <1>4, CountedOnce DEF ReleaseReservation, Holders, HolderPlaces
  <2>4. reserved'[g][k] = IF mine THEN reserved[g][k] - 1 ELSE reserved[g][k]
    BY <1>2, <1>4, <2>3 DEF ReleaseReservation, Lower
  <2> QED
    BY <1>1, <2>1, <2>2, <2>4
<1> QED
  BY <1>3, <1>4

(* acquireConcurrency counts a request within the limit it carries, or not *)
(* at all if it carries none; the deferred release subtracts in any case.  *)
LEMMA ConcurrencySteps ==
    ASSUME AdmissionInv, NEW r \in Request, AcquireConcurrency(r) \/ ReleaseConcurrency(r)
    PROVE  ConcurrencyHeld'
<1> SUFFICES ASSUME NEW g \in Gen, NEW k \in Key
             PROVE  /\ active'[g][k] <= Cardinality(Running(g, k)')
                    /\ 0 \notin Limits(k) =>
                          /\ active'[g][k] = Cardinality(Running(g, k)')
                          /\ \E n \in Limits(k) : active'[g][k] <= n
  BY DEF ConcurrencyHeld
<1> DEFINE mine == gen[r] = g /\ KeyOf[r] = k
<1>1. /\ Cardinality(Running(g, k)) \in Nat
      /\ active[g][k] <= Cardinality(Running(g, k))
      /\ 0 \notin Limits(k) => /\ active[g][k] = Cardinality(Running(g, k))
                               /\ \E n \in Limits(k) : active[g][k] <= n
  BY CountsNat DEF AdmissionInv, ConcurrencyHeld
<1>2. /\ gen[r] \in Gen /\ KeyOf[r] \in Key /\ active \in [Gen -> [Key -> Nat]]
      /\ active[g][k] \in Nat /\ Limits(k) \subseteq Nat /\ lim[r] \in Nat
  BY AdmissionAssumption DEF AdmissionInv, AdmissionTypeOK, Limits
<1>3. CASE AcquireConcurrency(r)
  <2>1. mine => lim[r] \in Limits(k)
    BY <1>3 DEF AcquireConcurrency, AdmissionInv, LimitsKept
  <2>2. CASE Goto(r, "daily")
    <3>1. Cardinality(Running(g, k)') =
             Cardinality(Running(g, k)) + Gain(r, "daily", g, {k}, RunningPlaces)
      BY <1>3, <2>2, Recount DEF AcquireConcurrency, AdmissionInv
    <3>2. Gain(r, "daily", g, {k}, RunningPlaces) = IF mine THEN 1 ELSE 0
      BY <1>3 DEF AcquireConcurrency, Gain, Weight, RunningPlaces
    <3>3. CASE lim[r] = 0
      BY <1>1, <1>2, <1>3, <2>1, <3>1, <3>2, <3>3 DEF AcquireConcurrency
    <3>4. CASE lim[r] > 0 /\ active[gen[r]][KeyOf[r]] < lim[r]
      <4>1. active'[g][k] = IF mine THEN active[g][k] + 1 ELSE active[g][k]
        BY <1>2, <1>3, <3>4 DEF AcquireConcurrency
      <4> QED
        BY <1>1, <1>2, <2>1, <3>1, <3>2, <3>4, <4>1
    <3> QED
      <4>1. ~(lim[r] > 0 /\ active[gen[r]][KeyOf[r]] >= lim[r])
        BY <1>2, <1>3, <2>2
           DEF AcquireConcurrency, Goto, AfterRefusedSlot, AdmissionInv, AdmissionTypeOK
      <4> QED
        BY <1>2, <1>3, <3>3, <3>4, <4>1 DEF AcquireConcurrency
  <2>3. CASE Goto(r, AfterRefusedSlot) /\ active' = active
    BY <1>3, <2>3, ActiveQuiet
       DEF AcquireConcurrency, AfterRefusedSlot, RunningPlaces, ConcurrencyHeld
  <2> QED
    BY <1>3, <2>2, <2>3 DEF AcquireConcurrency
<1>4. CASE ReleaseConcurrency(r)
  <2>1. Cardinality(Running(g, k)') =
           Cardinality(Running(g, k)) + Gain(r, "leave", g, {k}, RunningPlaces)
    BY <1>4, Recount DEF ReleaseConcurrency, AdmissionInv
  <2>2. Gain(r, "leave", g, {k}, RunningPlaces) = IF mine THEN -1 ELSE 0
    BY <1>4 DEF ReleaseConcurrency, Gain, Weight, RunningPlaces
  <2>3. mine => Cardinality(Running(g, k)) > 0
    BY <1>4, CountedOnce DEF ReleaseConcurrency, Running, RunningPlaces
  <2>4. active'[g][k] = IF mine /\ active[g][k] > 0 THEN active[g][k] - 1 ELSE active[g][k]
    BY <1>2, <1>4 DEF ReleaseConcurrency, Lower
  <2> QED
    BY <1>1, <1>2, <2>1, <2>2, <2>3, <2>4
<1> QED
  BY <1>3, <1>4

(* The guard takes a slot only while one is free, and every request that   *)
(* took one gives it back.                                                 *)
LEMMA GuardSteps ==
    ASSUME AdmissionInv, NEW r \in Request, TakeSlot(r) \/ ReleaseSlot(r)
    PROVE  GuardHeld' /\ slots' \in [Gen -> Nat]
<1>1. /\ gen[r] \in Gen /\ KeyOf[r] \in Key /\ slots \in [Gen -> Nat] /\ GlobalCap \in Nat
  BY AdmissionAssumption DEF AdmissionInv, AdmissionTypeOK
<1>2. \A g \in Gen : /\ Cardinality(Guarded(g)) \in Nat
                     /\ slots[g] = Cardinality(Guarded(g))
                     /\ GlobalCap > 0 => slots[g] <= GlobalCap
  BY CountsNat DEF AdmissionInv, GuardHeld
<1>3. CASE TakeSlot(r) /\ (GlobalCap = 0 \/ slots[gen[r]] < GlobalCap)
  <2>1. \A g \in Gen : Cardinality(Guarded(g)') =
           Cardinality(Guarded(g)) + Gain(r, "rate", g, Key, GuardedPlaces)
    BY <1>3, Recount DEF TakeSlot, AdmissionInv
  <2>2. \A g \in Gen : Gain(r, "rate", g, Key, GuardedPlaces) = IF gen[r] = g THEN 1 ELSE 0
    BY <1>1, <1>3 DEF TakeSlot, Gain, Weight, GuardedPlaces, RunningPlaces
  <2>3. slots' = [slots EXCEPT ![gen[r]] = @ + 1]
    BY <1>3 DEF TakeSlot
  <2> QED
    BY <1>1, <1>2, <1>3, <2>1, <2>2, <2>3 DEF GuardHeld
<1>4. CASE TakeSlot(r) /\ ~(GlobalCap = 0 \/ slots[gen[r]] < GlobalCap)
  BY <1>1, <1>4, GuardQuiet DEF TakeSlot, AfterRefusedGuard, GuardedPlaces, RunningPlaces
<1>5. CASE ReleaseSlot(r)
  <2>1. \A g \in Gen : Cardinality(Guarded(g)') =
           Cardinality(Guarded(g)) + Gain(r, "done", g, Key, GuardedPlaces)
    BY <1>5, Recount DEF ReleaseSlot, AdmissionInv
  <2>2. \A g \in Gen : Gain(r, "done", g, Key, GuardedPlaces) = IF gen[r] = g THEN -1 ELSE 0
    BY <1>1, <1>5 DEF ReleaseSlot, Gain, Weight, GuardedPlaces, RunningPlaces
  <2>3. slots' = [slots EXCEPT ![gen[r]] = @ - 1]
    BY <1>5 DEF ReleaseSlot
  <2>4. slots[gen[r]] > 0
    BY <1>1, <1>2, <1>5, CountedOnce DEF ReleaseSlot, Guarded, GuardedPlaces
  <2> QED
    BY <1>1, <1>2, <2>1, <2>2, <2>3, <2>4 DEF GuardHeld
<1> QED
  BY <1>3, <1>4, <1>5

-----------------------------------------------------------------------------
(* All steps. *)

LEMMA AdmissionInitInv == AdmissionInit => AdmissionInv
<1> SUFFICES ASSUME AdmissionInit PROVE AdmissionInv
  OBVIOUS
<1>1. AdmissionTypeOK /\ LimitsKept
  BY AdmissionAssumption
     DEF AdmissionInit, AdmissionTypeOK, LimitsKept, Limits, Place, Gen, Day, NoRow
<1>2. \A g, k : Holders(g, k) = {} /\ Running(g, k) = {} /\ Guarded(g) = {}
  BY DEF AdmissionInit, Holders, Running, Guarded, Among, HolderPlaces, RunningPlaces,
         GuardedPlaces
<1>3. Cardinality({}) = 0
  BY FS_EmptySet
<1>4. \A g \in Gen, k \in Key : /\ Cardinality(Holders(g, k)) = 0
                                /\ Cardinality(Running(g, k)) = 0
                                /\ reserved[g][k] = 0 /\ active[g][k] = 0
  BY <1>2, <1>3 DEF AdmissionInit
<1>5. \A g \in Gen : Cardinality(Guarded(g)) = 0 /\ slots[g] = 0
  BY <1>2, <1>3 DEF AdmissionInit
<1>6. \A k \in Key : \E n \in Limits(k) : 0 <= n
  BY AdmissionAssumption DEF Limits
<1>7. ReservedExact /\ ConcurrencyHeld
  BY <1>4, <1>6 DEF ReservedExact, ConcurrencyHeld
<1>8. GuardHeld
  BY <1>5, AdmissionAssumption DEF GuardHeld
<1> QED
  BY <1>1, <1>7, <1>8 DEF AdmissionInv

(* Arriving requests carry the limit of the row; the others keep theirs or *)
(* drop it; the operator gives a row one of the values in EditTo.          *)
LEMMA LimitsStep == AdmissionInv /\ [AdmissionNext]_admissionVars => LimitsKept'
<1> SUFFICES ASSUME AdmissionInv, [AdmissionNext]_admissionVars PROVE LimitsKept'
  OBVIOUS
<1> USE AdmissionAssumption DEF AdmissionInv, AdmissionTypeOK, LimitsKept, Goto
<1>1. ASSUME NEW r \in Request, WayIn(r) PROVE LimitsKept'
  <2>1. CASE Arrive(r)
    BY <2>1 DEF Arrive
  <2>2. CASE TakeSlot(r)
    BY <2>2 DEF TakeSlot, AfterRefusedGuard
  <2>3. CASE CheckRPM(r)
    BY <2>3 DEF CheckRPM
  <2>4. CASE AcquireConcurrency(r)
    BY <2>4 DEF AcquireConcurrency, AfterRefusedSlot
  <2>5. CASE ReadReserved(r)
    BY <2>5 DEF ReadReserved
  <2>6. ASSUME NEW readable \in BOOLEAN, DecideDaily(r, readable) PROVE LimitsKept'
    BY <2>6 DEF DecideDaily, AfterRefusedQuota
  <2>7. CASE Reserve(r)
    BY <2>7 DEF Reserve
  <2> QED
    BY <1>1, <2>1, <2>2, <2>3, <2>4, <2>5, <2>6, <2>7 DEF WayIn
<1>2. ASSUME NEW r \in Request, WayOut(r) PROVE LimitsKept'
  BY <1>2 DEF WayOut, ReleaseReservation, ReleaseConcurrency, ReleaseSlot
<1>3. ASSUME NEW r \in Request, NEW inserted \in BOOLEAN, Handle(r, inserted) PROVE LimitsKept'
  BY <1>3 DEF Handle
<1>4. CASE AdmissionEnv
  BY <1>4 DEF AdmissionEnv, Reload, EditPolicy, Limits, Tick, Midnight
<1>5. CASE UNCHANGED admissionVars
  BY <1>5 DEF admissionVars
<1> QED
  BY <1>1, <1>2, <1>3, <1>4, <1>5 DEF AdmissionNext

LEMMA TypeStep == AdmissionInv /\ [AdmissionNext]_admissionVars => AdmissionTypeOK'
<1> SUFFICES ASSUME AdmissionInv, [AdmissionNext]_admissionVars PROVE AdmissionTypeOK'
  OBVIOUS
<1> USE AdmissionAssumption DEF AdmissionInv, AdmissionTypeOK, Goto, Place
<1>1. ASSUME NEW r \in Request, WayIn(r) PROVE AdmissionTypeOK'
  <2>0. gen[r] \in Gen /\ KeyOf[r] \in Key
    OBVIOUS
  <2>1. CASE Arrive(r)
    BY <2>0, <2>1 DEF Arrive
  <2>2. CASE TakeSlot(r)
    BY <2>2, GuardSteps DEF TakeSlot, AfterRefusedGuard
  <2>3. CASE CheckRPM(r)
    <3>1. \/ Goto(r, "acquire") /\ stamp' = stamp
          \/ Goto(r, "acquire") /\ stamp' = [stamp EXCEPT ![r] = Window]
          \/ Goto(r, "leave") /\ stamp' = stamp
      BY <2>3 DEF CheckRPM
    <3>2. /\ day' = [day EXCEPT ![r] = today]
          /\ UNCHANGED <<gen, lim, seen, logDay, slots, active, reserved, limit, cur, today, raced>>
      BY <2>3 DEF CheckRPM
    <3>3. CASE Goto(r, "acquire") /\ stamp' = stamp
      BY <3>2, <3>3
    <3>4. CASE Goto(r, "acquire") /\ stamp' = [stamp EXCEPT ![r] = Window]
      BY <3>2, <3>4
    <3>5. CASE Goto(r, "leave") /\ stamp' = stamp
      BY <3>2, <3>5
    <3> QED
      BY <3>1, <3>3, <3>4, <3>5
  <2>4. CASE AcquireConcurrency(r)
    <3>1. \/ Goto(r, "daily") /\ active' = active
          \/ Goto(r, "daily") /\ active' = [active EXCEPT ![gen[r]][KeyOf[r]] = @ + 1]
          \/ Goto(r, "leave") /\ active' = active
      BY <2>4 DEF AcquireConcurrency, AfterRefusedSlot
    <3>2. /\ lim' = [lim EXCEPT ![r] = 0]
          /\ UNCHANGED <<gen, day, stamp, seen, logDay, slots, reserved, limit, cur, today, raced>>
      BY <2>4 DEF AcquireConcurrency
    <3>3. CASE Goto(r, "daily") /\ active' = active
      BY <3>2, <3>3
    <3>4. CASE Goto(r, "daily") /\ active' = [active EXCEPT ![gen[r]][KeyOf[r]] = @ + 1]
      BY <2>0, <3>2, <3>4
    <3>5. CASE Goto(r, "leave") /\ active' = active
      BY <3>2, <3>5
    <3> QED
      BY <3>1, <3>3, <3>4, <3>5
  <2>5. CASE ReadReserved(r)
    <3>1. UNCHANGED <<gen, lim, stamp, logDay, slots, active, reserved, limit, cur, today>>
      BY <2>5 DEF ReadReserved
    <3>2. CASE Daily[KeyOf[r]] = 0
      <4>1. /\ Goto(r, "reserve") /\ day' = [day EXCEPT ![r] = 0]
            /\ seen' = seen /\ raced' = raced
        BY <2>0, <2>5, <3>2 DEF ReadReserved
      <4> QED
        BY <3>1, <4>1 DEF Day
    <3>3. CASE Daily[KeyOf[r]] # 0
      <4>1. /\ Goto(r, "decide") /\ day' = day
            /\ seen' = [seen EXCEPT ![r] = reserved[gen[r]][KeyOf[r]]]
        BY <2>5, <3>3 DEF ReadReserved
      <4>2. reserved[gen[r]][KeyOf[r]] \in Nat
        BY <2>0
      <4>3. raced' = [raced EXCEPT ![KeyOf[r]] = raced[KeyOf[r]] \/ Overlaps(r)]
        BY <2>5, <3>3 DEF ReadReserved
      <4>4. raced' \in [Key -> BOOLEAN]
        BY <2>0, <4>3
      <4> QED
        BY <3>1, <4>1, <4>2, <4>4
    <3> QED
      BY <3>2, <3>3
  <2>6. ASSUME NEW readable \in BOOLEAN, DecideDaily(r, readable) PROVE AdmissionTypeOK'
    BY <2>6 DEF DecideDaily, AfterRefusedQuota, Day
  <2>7. CASE Reserve(r)
    BY <2>0, <2>7 DEF Reserve
  <2> QED
    BY <1>1, <2>1, <2>2, <2>3, <2>4, <2>5, <2>6, <2>7 DEF WayIn
<1>2. ASSUME NEW r \in Request, WayOut(r) PROVE AdmissionTypeOK'
  <2>0. gen[r] \in Gen /\ KeyOf[r] \in Key
    OBVIOUS
  <2>1. CASE ReleaseReservation(r)
    BY <2>0, <2>1 DEF ReleaseReservation, Lower
  <2>2. CASE ReleaseConcurrency(r)
    BY <2>0, <2>2 DEF ReleaseConcurrency, Lower
  <2>3. CASE ReleaseSlot(r)
    BY <2>3, GuardSteps DEF ReleaseSlot
  <2> QED
    BY <1>2, <2>1, <2>2, <2>3 DEF WayOut
<1>3. ASSUME NEW r \in Request, NEW inserted \in BOOLEAN, Handle(r, inserted)
      PROVE  AdmissionTypeOK'
  BY <1>3 DEF Handle
<1>4. CASE AdmissionEnv
  <2>1. CASE Reload
    BY <2>1 DEF Reload, Gen
  <2>2. ASSUME NEW k \in Key, EditPolicy(k) PROVE AdmissionTypeOK'
    BY <2>2 DEF EditPolicy
  <2>3. CASE Tick
    BY <2>3 DEF Tick
  <2>4. CASE Midnight
    BY <2>4 DEF Midnight, Day
  <2> QED
    BY <1>4, <2>1, <2>2, <2>3, <2>4 DEF AdmissionEnv
<1>5. CASE UNCHANGED admissionVars
  BY <1>5 DEF admissionVars
<1> QED
  BY <1>1, <1>2, <1>3, <1>4, <1>5 DEF AdmissionNext

LEMMA CountersStep ==
    AdmissionInv /\ [AdmissionNext]_admissionVars => ReservedExact' /\ ConcurrencyHeld' /\ GuardHeld'
<1> SUFFICES ASSUME AdmissionInv, [AdmissionNext]_admissionVars
             PROVE  ReservedExact' /\ ConcurrencyHeld' /\ GuardHeld'
  OBVIOUS
<1> DEFINE Goal == ReservedExact' /\ ConcurrencyHeld' /\ GuardHeld'
<1> HIDE DEF Goal
<1> USE DEF HolderPlaces, RunningPlaces, GuardedPlaces
<1>1. ASSUME NEW r \in Request, NEW place, Goto(r, place), gen' = gen,
             UNCHANGED <<slots, active, reserved>>,
             place \in HolderPlaces <=> pc[r] \in HolderPlaces,
             place \in RunningPlaces <=> pc[r] \in RunningPlaces,
             place \in GuardedPlaces <=> pc[r] \in GuardedPlaces
      PROVE  Goal
  BY <1>1, ReservedQuiet, ActiveQuiet, GuardQuiet DEF Goal
<1>2. ASSUME NEW r \in Request, WayIn(r) PROVE Goal
  <2>1. CASE Arrive(r)
    BY <2>1, ArriveQuiet DEF Goal
  <2>2. CASE TakeSlot(r)
    BY <2>2, GuardSteps, ReservedQuiet, ActiveQuiet DEF TakeSlot, AfterRefusedGuard, Goal
  <2>3. CASE CheckRPM(r)
    BY <1>1, <2>3 DEF CheckRPM
  <2>4. CASE AcquireConcurrency(r)
    BY <2>4, ConcurrencySteps, ReservedQuiet, GuardQuiet
       DEF AcquireConcurrency, AfterRefusedSlot, Goal
  <2>5. CASE ReadReserved(r)
    BY <1>1, <2>5 DEF ReadReserved
  <2>6. ASSUME NEW readable \in BOOLEAN, DecideDaily(r, readable) PROVE Goal
    BY <1>1, <2>6 DEF DecideDaily, AfterRefusedQuota
  <2>7. CASE Reserve(r)
    BY <2>7, ReservationSteps, ActiveQuiet, GuardQuiet DEF Reserve, Goal
  <2> QED
    BY <1>2, <2>1, <2>2, <2>3, <2>4, <2>5, <2>6, <2>7 DEF WayIn
<1>3. ASSUME NEW r \in Request, WayOut(r) PROVE Goal
  <2>1. CASE ReleaseReservation(r)
    BY <2>1, ReservationSteps, ActiveQuiet, GuardQuiet DEF ReleaseReservation, Goal
  <2>2. CASE ReleaseConcurrency(r)
    BY <2>2, ConcurrencySteps, ReservedQuiet, GuardQuiet DEF ReleaseConcurrency, Goal
  <2>3. CASE ReleaseSlot(r)
    BY <2>3, GuardSteps, ReservedQuiet, ActiveQuiet DEF ReleaseSlot, Goal
  <2> QED
    BY <1>3, <2>1, <2>2, <2>3 DEF WayOut
<1>4. ASSUME NEW r \in Request, NEW inserted \in BOOLEAN, Handle(r, inserted) PROVE Goal
  BY <1>1, <1>4 DEF Handle
<1>5. CASE AdmissionEnv \/ UNCHANGED admissionVars
  <2>1. UNCHANGED <<pc, gen, slots, active, reserved>>
    BY <1>5 DEF AdmissionEnv, Reload, EditPolicy, Tick, Midnight, admissionVars
  <2> QED
    BY <2>1, EnvironmentQuiet DEF Goal
<1> QED
  BY <1>2, <1>3, <1>4, <1>5 DEF AdmissionNext, Goal

THEOREM AdmissionInvariance == AdmissionSpec => []AdmissionInv
<1>1. AdmissionInv /\ [AdmissionNext]_admissionVars => AdmissionInv'
  BY LimitsStep, TypeStep, CountersStep DEF AdmissionInv
<1> QED
  BY <1>1, AdmissionInitInv, PTL DEF AdmissionSpec

(* Type correctness of the limiter, the guard, the log and the requests.   *)
THEOREM AdmissionTypeCorrect == AdmissionSpec => []AdmissionTypeOK
BY AdmissionInvariance, PTL DEF AdmissionInv

(* No path through the middleware, refusal or reload leaks a reserved      *)
(* request or gives one back twice, for any number of requests and keys.   *)
THEOREM ReservationsExact == AdmissionSpec => []ReservedExact
BY AdmissionInvariance, PTL DEF AdmissionInv

(* The concurrency count never exceeds the requests that run, also when    *)
(* limits are edited under them, and is exact and within the limit if not. *)
THEOREM ConcurrencyLimited == AdmissionSpec => []ConcurrencyHeld
BY AdmissionInvariance, PTL DEF AdmissionInv

(* The global guard's slots are the requests inside it, within its size.   *)
THEOREM GuardWithinCapacity == AdmissionSpec => []GuardHeld
BY AdmissionInvariance, PTL DEF AdmissionInv

-----------------------------------------------------------------------------
(* Counting.                                                                *)

(* A set of natural numbers that is not empty has a least element.          *)
LEMMA LeastNat ==
    ASSUME NEW T, T \subseteq Nat, T # {}
    PROVE  \E x \in T : \A y \in T : x <= y
<1>1. IsWellFoundedOn(OpToRel(<, Nat), Nat)
  BY NatLessThanWellFounded
<1>2. PICK x \in T : \A y \in T : ~(<<y, x>> \in OpToRel(<, Nat))
  BY <1>1, WFMin
<1>3. \A y \in T : ~(y < x)
  BY <1>2 DEF OpToRel
<1> QED
  BY <1>3

(* If each class holds at most n elements, the whole holds at most n for    *)
(* each class: number the elements of each class, and send an element to    *)
(* its class and number.                                                    *)
LEMMA ByClasses ==
    ASSUME NEW S, IsFiniteSet(S), NEW G, IsFiniteSet(G), NEW h, \A x \in S : h[x] \in G,
           NEW n \in Nat,
           \A g \in G : Cardinality({x \in S : h[x] = g}) <= n
    PROVE  Cardinality(S) <= Cardinality(G) * n
<1> DEFINE C(g) == {x \in S : h[x] = g}
           Numbering(g, e) == e \in [1..n -> S] /\ \A x \in C(g) : \E i \in 1..n : e[i] = x
           e[g \in G] == CHOOSE f : Numbering(g, f)
           num[x \in S] == CHOOSE i \in 1..n : e[h[x]][i] = x
           f == [x \in S |-> <<h[x], num[x]>>]
<1>1. CASE S = {}
  <2>1. Cardinality(G) \in Nat /\ Cardinality(S) = 0
    BY <1>1, FS_CardinalityType, FS_EmptySet
  <2> QED
    BY <2>1
<1>2. CASE S # {}
  <2>1. ASSUME NEW g \in G PROVE \E w : Numbering(g, w)
    <3>1. IsFiniteSet(C(g)) /\ Cardinality(C(g)) <= n
      BY FS_Subset
    <3>2. Cardinality(C(g)) \in Nat /\ ExistsBijection(1..Cardinality(C(g)), C(g))
      BY <3>1, FS_CardinalityType
    <3>3. PICK b \in Bijection(1..Cardinality(C(g)), C(g)) : TRUE
      BY <3>2 DEF ExistsBijection
    <3>4. /\ b \in [1..Cardinality(C(g)) -> C(g)]
          /\ \A x \in C(g) : \E i \in 1..Cardinality(C(g)) : b[i] = x
      BY <3>3 DEF Bijection, Surjection, Injection
    <3>5. PICK z \in S : TRUE
      BY <1>2
    <3> DEFINE w == [i \in 1..n |-> IF i <= Cardinality(C(g)) THEN b[i] ELSE z]
    <3>6. w \in [1..n -> S]
      BY <3>2, <3>4
    <3>7. \A x \in C(g) : \E i \in 1..n : w[i] = x
      BY <3>1, <3>2, <3>4
    <3> QED
      BY <3>6, <3>7
  <2>2. \A g \in G : Numbering(g, e[g])
    BY <2>1
  <2> HIDE DEF e
  <2>3. \A x \in S : num[x] \in 1..n /\ e[h[x]][num[x]] = x
    BY <2>2
  <2> HIDE DEF num
  <2>4. f \in [S -> G \X (1..n)]
    BY <2>3
  <2>5. \A x, y \in S : f[x] = f[y] => x = y
    BY <2>3
  <2>6. f \in Injection(S, G \X (1..n))
    BY <2>4, <2>5 DEF Injection, IsInjective
  <2>7. IsFiniteSet(1..n) /\ Cardinality(1..n) = n
    BY FS_Interval
  <2>8. IsFiniteSet(G \X (1..n)) /\ Cardinality(G \X (1..n)) = Cardinality(G) * n
    BY <2>7, FS_Product
  <2> HIDE DEF f
  <2> QED
    BY <2>6, <2>8, FS_Injection
<1> QED
  BY <1>1, <1>2

-----------------------------------------------------------------------------
(* The rate window.  Each limiter admits at most Rpm[k] requests of key k   *)
(* to its window; a request is in no window before checkRPM, so changing    *)
(* its generation on arrival moves nothing; and the generations in use are  *)
(* those up to the current one.                                             *)
ClockKept ==
    /\ \A r \in Request : gen[r] <= cur /\ day[r] <= today
    /\ \A r \in Request : pc[r] \in {"new", "enter", "rate"} => stamp[r] = 0

WindowHeld ==
    \A g \in Gen, k \in Key : Rpm[k] > 0 => Cardinality(InWindow(g, k)) <= Rpm[k]

LEMMA ClockStep ==
    AdmissionInv /\ ClockKept /\ [AdmissionNext]_admissionVars => ClockKept'
<1> SUFFICES ASSUME AdmissionInv, ClockKept, [AdmissionNext]_admissionVars PROVE ClockKept'
  OBVIOUS
<1> DEFINE Early == {"new", "enter", "rate"}
<1>0. /\ pc \in [Request -> Place] /\ gen \in [Request -> Gen] /\ day \in [Request -> Day]
      /\ stamp \in [Request -> 0..Window] /\ cur \in Nat /\ today \in Nat
      /\ Gen \subseteq Nat /\ Day \subseteq Nat
  BY AdmissionAssumption DEF AdmissionInv, AdmissionTypeOK, Gen, Day
<1>a. ASSUME cur <= cur', today <= today', cur' \in Nat, today' \in Nat,
             \A q \in Request : gen'[q] \in {gen[q], cur} /\ day'[q] \in {day[q], today, 0},
             \A q \in Request : pc'[q] \in Early => pc[q] \in Early /\ stamp'[q] \in {stamp[q], 0}
      PROVE  ClockKept'
  <2>1. \A q \in Request : gen[q] \in Nat /\ day[q] \in Nat /\ gen[q] <= cur /\ day[q] <= today
    BY <1>0 DEF ClockKept
  <2>2. \A q \in Request : gen'[q] <= cur' /\ day'[q] <= today'
    BY <1>0, <1>a, <2>1
  <2> QED
    BY <1>a, <2>2 DEF ClockKept
<1>1. ASSUME NEW r \in Request, WayIn(r) \/ WayOut(r) PROVE ClockKept'
  <2>1. cur' = cur /\ today' = today
    BY <1>1 DEF WayIn, WayOut, Arrive, TakeSlot, CheckRPM, AcquireConcurrency, ReadReserved,
                DecideDaily, Reserve, ReleaseReservation, ReleaseConcurrency, ReleaseSlot
  <2>2. \A q \in Request : gen'[q] \in {gen[q], cur} /\ day'[q] \in {day[q], today, 0}
    BY <1>0, <1>1 DEF WayIn, WayOut, Arrive, TakeSlot, CheckRPM, AcquireConcurrency, ReadReserved,
                DecideDaily, Reserve, ReleaseReservation, ReleaseConcurrency, ReleaseSlot
  <2>3. \A q \in Request \ {r} : pc'[q] = pc[q] /\ stamp'[q] = stamp[q]
    BY <1>0, <1>1 DEF WayIn, WayOut, Arrive, TakeSlot, CheckRPM, AcquireConcurrency, ReadReserved,
                DecideDaily, Reserve, ReleaseReservation, ReleaseConcurrency, ReleaseSlot, Goto
  <2>4. pc'[r] \in Early => Arrive(r) \/ TakeSlot(r)
    BY <1>0, <1>1 DEF WayIn, WayOut, CheckRPM, AcquireConcurrency, ReadReserved,
                DecideDaily, Reserve, ReleaseReservation, ReleaseConcurrency, ReleaseSlot, Goto,
                AfterRefusedSlot, AfterRefusedQuota
  <2>5. Arrive(r) \/ TakeSlot(r) => pc[r] \in Early /\ stamp' = stamp
    BY DEF Arrive, TakeSlot
  <2> HIDE DEF Early
  <2> QED
    BY <1>0, <1>a, <2>1, <2>2, <2>3, <2>4, <2>5
<1>2. ASSUME NEW r \in Request, NEW inserted \in BOOLEAN, Handle(r, inserted) PROVE ClockKept'
  BY <1>0, <1>2, <1>a DEF Handle, Goto
<1>3. CASE AdmissionEnv
  <2>1. /\ UNCHANGED <<pc, gen, day>> /\ cur' \in {cur, cur + 1} /\ today' \in {today, today + 1}
    BY <1>3 DEF AdmissionEnv, Reload, EditPolicy, Tick, Midnight
  <2>2. ASSUME NEW q \in Request, stamp[q] = 0 PROVE stamp'[q] = 0
    <3>1. stamp' = stamp \/ Tick
      BY <1>3 DEF AdmissionEnv, Reload, EditPolicy, Midnight
    <3> QED
      BY <2>2, <3>1 DEF Tick
  <2>3. ASSUME NEW q \in Request PROVE gen[q] <= cur' /\ day[q] <= today'
    <3>1. gen[q] \in Nat /\ day[q] \in Nat /\ gen[q] <= cur /\ day[q] <= today
      BY <1>0 DEF ClockKept
    <3>2. cur <= cur' /\ today <= today' /\ cur' \in Nat /\ today' \in Nat
      BY <1>0, <2>1
    <3> QED
      BY <1>0, <3>1, <3>2
  <2> QED
    BY <2>1, <2>2, <2>3 DEF ClockKept
<1>4. CASE UNCHANGED admissionVars
  BY <1>4 DEF admissionVars, ClockKept
<1> QED
  BY <1>1, <1>2, <1>3, <1>4 DEF AdmissionNext

LEMMA WindowStep ==
    AdmissionInv /\ ClockKept /\ WindowHeld /\ [AdmissionNext]_admissionVars => WindowHeld'
<1> SUFFICES ASSUME AdmissionInv, ClockKept, WindowHeld, [AdmissionNext]_admissionVars,
                    NEW g \in Gen, NEW k \in Key, Rpm[k] > 0
             PROVE  Cardinality(InWindow(g, k)') <= Rpm[k]
  BY DEF WindowHeld
<1> DEFINE W == InWindow(g, k)
<1>0. /\ W \subseteq Request /\ IsFiniteSet(W)
      /\ Cardinality(W) \in Nat /\ Cardinality(W) <= Rpm[k] /\ Rpm[k] \in Nat
  <2>1. W \subseteq Request
    BY DEF InWindow
  <2> QED
    BY <2>1, AdmissionAssumption, FS_Subset, FS_CardinalityType DEF WindowHeld
<1>1. ASSUME InWindow(g, k)' \subseteq W PROVE Cardinality(InWindow(g, k)') <= Rpm[k]
  <2>1. IsFiniteSet(InWindow(g, k)') /\ Cardinality(InWindow(g, k)') <= Cardinality(W)
    BY <1>0, <1>1, FS_Subset
  <2>2. Cardinality(InWindow(g, k)') \in Nat
    BY <2>1, FS_CardinalityType
  <2> QED
    BY <1>0, <2>1, <2>2
<1>2. ASSUME UNCHANGED <<gen, stamp>> PROVE InWindow(g, k)' \subseteq W
  BY <1>2 DEF InWindow
<1>3. ASSUME NEW r \in Request, WayIn(r) \/ WayOut(r)
      PROVE  Cardinality(InWindow(g, k)') <= Rpm[k]
  <2>1. CASE Arrive(r)
    <3>1. stamp[r] = 0 /\ stamp' = stamp /\ gen' = [gen EXCEPT ![r] = cur]
      BY <2>1 DEF Arrive, ClockKept
    <3>2. InWindow(g, k)' \subseteq W
      BY <3>1 DEF InWindow, AdmissionInv, AdmissionTypeOK
    <3> QED
      BY <1>1, <3>2
  <2>2. CASE CheckRPM(r) /\ stamp' # stamp
    <3>1. /\ pc[r] = "rate" /\ WithinRate(gen[r], KeyOf[r])
          /\ stamp' = [stamp EXCEPT ![r] = Window] /\ gen' = gen
      BY <2>2 DEF CheckRPM
    <3>2. r \notin W
      BY <3>1 DEF ClockKept, InWindow
    <3>3. CASE gen[r] = g /\ KeyOf[r] = k
      <4>1. InWindow(g, k)' = W \cup {r}
        BY <3>1, <3>3, AdmissionAssumption DEF InWindow, AdmissionInv, AdmissionTypeOK
      <4>2. Cardinality(W) < Rpm[k]
        BY <3>1, <3>3 DEF WithinRate
      <4> HIDE DEF W
      <4>3. Cardinality(W \cup {r}) = Cardinality(W) + 1
        BY <1>0, <3>2, FS_AddElement
      <4> QED
        BY <1>0, <4>1, <4>2, <4>3
    <3>4. CASE ~(gen[r] = g /\ KeyOf[r] = k)
      <4>1. InWindow(g, k)' \subseteq W
        BY <3>1, <3>4 DEF InWindow, AdmissionInv, AdmissionTypeOK
      <4> QED
        BY <1>1, <4>1
    <3> QED
      BY <3>3, <3>4
  <2>3. CASE ~Arrive(r) /\ ~(CheckRPM(r) /\ stamp' # stamp)
    <3>1. UNCHANGED <<gen, stamp>>
      BY <1>3, <2>3 DEF WayIn, WayOut, TakeSlot, CheckRPM, AcquireConcurrency, ReadReserved,
                        DecideDaily, Reserve, ReleaseReservation, ReleaseConcurrency, ReleaseSlot
    <3> QED
      BY <1>1, <1>2, <3>1
  <2> QED
    BY <2>1, <2>2, <2>3
<1>4. CASE Tick
  <2>1. InWindow(g, k)' \subseteq W
    BY <1>4 DEF Tick, InWindow, AdmissionInv, AdmissionTypeOK
  <2> QED
    BY <1>1, <2>1
<1>5. CASE \/ \E r \in Request, inserted \in BOOLEAN : Handle(r, inserted)
           \/ Reload \/ (\E q \in Key : EditPolicy(q)) \/ Midnight \/ UNCHANGED admissionVars
  <2>1. UNCHANGED <<gen, stamp>>
    BY <1>5 DEF Handle, Reload, EditPolicy, Midnight, admissionVars
  <2> QED
    BY <1>1, <1>2, <2>1
<1> QED
  BY <1>3, <1>4, <1>5 DEF AdmissionNext, AdmissionEnv

LEMMA RateFromWindows ==
    AdmissionInv /\ ClockKept /\ WindowHeld => RateAcrossReloads
<1> SUFFICES ASSUME AdmissionInv, ClockKept, WindowHeld, NEW k \in Key, Rpm[k] > 0
             PROVE  Cardinality({r \in Request : KeyOf[r] = k /\ stamp[r] > 0})
                       <= Rpm[k] * (cur + 1)
  BY DEF RateAcrossReloads
<1> DEFINE S == {r \in Request : KeyOf[r] = k /\ stamp[r] > 0}
           G == 0..cur
<1>1. cur \in Nat /\ cur \in Gen /\ Rpm[k] \in Nat
  BY AdmissionAssumption DEF AdmissionInv, AdmissionTypeOK, Gen
<1>2. IsFiniteSet(S)
  BY AdmissionAssumption, FS_Subset
<1>3. IsFiniteSet(G) /\ Cardinality(G) = cur + 1
  BY <1>1, FS_Interval
<1>4. \A r \in S : gen[r] \in G
  BY <1>1 DEF AdmissionInv, AdmissionTypeOK, ClockKept, Gen
<1>5. \A g \in G : Cardinality({r \in S : gen[r] = g}) <= Rpm[k]
  <2> SUFFICES ASSUME NEW g \in G PROVE Cardinality({r \in S : gen[r] = g}) <= Rpm[k]
    OBVIOUS
  <2>1. {r \in S : gen[r] = g} = InWindow(g, k)
    BY DEF InWindow
  <2>2. g \in Gen
    BY <1>1, AdmissionAssumption DEF Gen
  <2> QED
    BY <2>1, <2>2 DEF WindowHeld
<1> HIDE DEF S, G
<1>6. Cardinality(S) <= Cardinality(G) * Rpm[k]
  BY <1>1, <1>2, <1>3, <1>4, <1>5, ByClasses
<1>7. Cardinality(S) <= Rpm[k] * (cur + 1)
  BY <1>1, <1>3, <1>6
<1> QED
  BY <1>7 DEF S

LEMMA ClockInit == AdmissionInit => ClockKept /\ WindowHeld
<1> SUFFICES ASSUME AdmissionInit PROVE ClockKept /\ WindowHeld
  OBVIOUS
<1>1. ClockKept
  BY AdmissionAssumption DEF AdmissionInit, ClockKept
<1>2. \A g, k : InWindow(g, k) = {}
  BY DEF AdmissionInit, InWindow
<1>3. \A k \in Key : 0 <= Rpm[k]
  BY AdmissionAssumption
<1>4. \A g, k : Cardinality(InWindow(g, k)) = 0
  BY <1>2, FS_EmptySet
<1>5. WindowHeld
  BY <1>3, <1>4 DEF WindowHeld
<1> QED
  BY <1>1, <1>5

(* In no window of Window ticks does a key get more than Rpm[k] requests    *)
(* past checkRPM for each limiter there has been, whenever reloads replace  *)
(* the limiter and however the requests of old and new generations mix.     *)
THEOREM RateBoundedAcrossReloads == AdmissionSpec => []RateAcrossReloads
<1>1. AdmissionInv /\ [AdmissionNext]_admissionVars => AdmissionInv'
  BY LimitsStep, TypeStep, CountersStep DEF AdmissionInv
<1> QED
  BY AdmissionInitInv, ClockInit, <1>1, ClockStep, WindowStep, RateFromWindows, PTL
     DEF AdmissionSpec

-----------------------------------------------------------------------------
(* The daily quota.  A key's load is what its quota has to cover: the rows  *)
(* of the day and the admitted requests that will still write theirs.       *)
Load(k) == Usage(k, today) + Cardinality(Pending(k))

LEMMA LoadNat ==
    ASSUME NEW k, NEW d
    PROVE  /\ IsFiniteSet(Logged(k, d)) /\ Usage(k, d) \in Nat
           /\ IsFiniteSet(Pending(k)) /\ Cardinality(Pending(k)) \in Nat
           /\ Load(k) \in Nat
<1>1. \A e : Logged(k, e) \subseteq Request /\ Pending(k) \subseteq Request
  BY DEF Logged, Pending
<1>2. \A e : IsFiniteSet(Logged(k, e)) /\ Cardinality(Logged(k, e)) \in Nat
  BY <1>1, AdmissionAssumption, FS_Subset, FS_CardinalityType
<1>3. IsFiniteSet(Pending(k)) /\ Cardinality(Pending(k)) \in Nat
  BY <1>1, AdmissionAssumption, FS_Subset, FS_CardinalityType
<1> QED
  BY <1>2, <1>3 DEF Usage, Load

LEMMA LoadNatNext == ASSUME NEW k PROVE Load(k)' \in Nat
<1>1. Logged(k, today)' \subseteq Request /\ Pending(k)' \subseteq Request
  BY DEF Logged, Pending
<1>2. Cardinality(Logged(k, today)') \in Nat /\ Cardinality(Pending(k)') \in Nat
  BY <1>1, AdmissionAssumption, FS_Subset, FS_CardinalityType
<1> QED
  BY <1>2 DEF Load, Usage

(* A step that logs nothing and admits nobody.                              *)
LEMMA LoadQuiet ==
    ASSUME AdmissionInv, NEW k \in Key, logDay' = logDay, today' \in Nat, today <= today',
           \A q \in Request : KeyOf[q] = k /\ pc'[q] \in {"reserve", "handling"} =>
                                 pc[q] \in {"reserve", "handling"}
    PROVE  Load(k)' <= Load(k)
<1>0. /\ logDay \in [Request -> Day \cup {NoRow}] /\ today \in Nat
      /\ Day \cup {NoRow} \subseteq Int
  BY AdmissionAssumption DEF AdmissionInv, AdmissionTypeOK, Day, NoRow
<1>1. Pending(k)' \subseteq Pending(k)
  BY DEF Pending
<1>2. Logged(k, today)' \subseteq Logged(k, today)
  BY <1>0 DEF Logged
<1>3. /\ Cardinality(Pending(k)') \in Nat /\ Cardinality(Pending(k)') <= Cardinality(Pending(k))
      /\ Cardinality(Logged(k, today)') \in Nat
      /\ Cardinality(Logged(k, today)') <= Cardinality(Logged(k, today))
  BY <1>1, <1>2, LoadNat, FS_Subset, FS_CardinalityType
<1>4. Cardinality(Pending(k)) \in Nat /\ Cardinality(Logged(k, today)) \in Nat
  BY LoadNat DEF Usage
<1> QED
  BY <1>3, <1>4 DEF Load, Usage

(* A handler that returns trades an admitted request for a row at most.     *)
LEMMA LoadHandle ==
    ASSUME AdmissionInv, NEW k \in Key, NEW r \in Request, NEW inserted \in BOOLEAN,
           Handle(r, inserted)
    PROVE  Load(k)' <= Load(k)
<1>0. /\ pc[r] = "handling" /\ pc' = [pc EXCEPT ![r] = "unreserve"] /\ today' = today
      /\ pc \in [Request -> Place]
      /\ logDay \in [Request -> Day \cup {NoRow}]
      /\ \A q \in Request \ {r} : logDay'[q] = logDay[q]
  BY DEF Handle, Goto, AdmissionInv, AdmissionTypeOK
<1>1. CASE KeyOf[r] = k
  <2>1. r \in Pending(k) /\ Pending(k)' = Pending(k) \ {r}
    BY <1>0, <1>1 DEF Pending
  <2>2. Logged(k, today)' \subseteq Logged(k, today) \cup {r}
    BY <1>0 DEF Logged
  <2>3. Cardinality(Pending(k)') = Cardinality(Pending(k)) - 1
    BY <2>1, LoadNat, FS_RemoveElement
  <2>a. IsFiniteSet(Logged(k, today)) /\ Cardinality(Logged(k, today)) \in Nat
    BY LoadNat DEF Usage
  <2>4. /\ IsFiniteSet(Logged(k, today) \cup {r})
        /\ Cardinality(Logged(k, today) \cup {r}) <= Cardinality(Logged(k, today)) + 1
    BY <2>a, FS_AddElement
  <2>5. /\ Cardinality(Logged(k, today)') \in Nat
        /\ Cardinality(Logged(k, today)') <= Cardinality(Logged(k, today) \cup {r})
    BY <2>2, <2>4, FS_Subset, FS_CardinalityType
  <2>6. /\ Cardinality(Pending(k)) \in Nat /\ Cardinality(Logged(k, today)) \in Nat
        /\ Cardinality(Logged(k, today) \cup {r}) \in Nat
    BY <2>4, LoadNat, FS_CardinalityType DEF Usage
  <2> QED
    BY <2>3, <2>4, <2>5, <2>6 DEF Load, Usage
<1>2. CASE KeyOf[r] # k
  <2>1. Pending(k)' = Pending(k) /\ Logged(k, today)' = Logged(k, today)
    BY <1>0, <1>2 DEF Pending, Logged
  <2> QED
    BY <2>1, LoadNat DEF Load, Usage
<1> QED
  BY <1>1, <1>2

(* The one step that raises a portable key's load, and what its request has *)
(* seen by then: checkDaily reads the rows after the reservations, and      *)
(* those of its day are at least those of today.                            *)
Admits(r, k) ==
    /\ KeyOf[r] = k /\ pc[r] = "decide"
    /\ pc' = [pc EXCEPT ![r] = "reserve"] /\ UNCHANGED <<logDay, today, cur, raced>>
    /\ Usage(k, today) + seen[r] < Daily[k]

LEMMA LoadStep ==
    ASSUME AdmissionInv, ClockKept, [AdmissionNext]_admissionVars,
           NEW k \in Key, k \in Portable, Daily[k] > 0
    PROVE  Load(k)' <= Load(k) \/ \E r \in Request : Admits(r, k)
<1>0. /\ pc \in [Request -> Place] /\ day \in [Request -> Day] /\ seen \in [Request -> Nat]
      /\ logDay \in [Request -> Day \cup {NoRow}] /\ today \in Nat
      /\ Day \cup {NoRow} \subseteq Int /\ Daily[k] \in Nat
  BY AdmissionAssumption DEF AdmissionInv, AdmissionTypeOK, Day, NoRow
<1>1. ASSUME NEW r \in Request,
             \/ Arrive(r) \/ TakeSlot(r) \/ CheckRPM(r) \/ AcquireConcurrency(r)
             \/ ReadReserved(r) \/ Reserve(r) \/ WayOut(r)
      PROVE  Load(k)' <= Load(k)
  <2>1. UNCHANGED <<logDay, today>>
    BY <1>1 DEF WayOut, Arrive, TakeSlot, CheckRPM, AcquireConcurrency, ReadReserved,
                Reserve, ReleaseReservation, ReleaseConcurrency, ReleaseSlot
  <2>2. \A q \in Request \ {r} : pc'[q] = pc[q]
    BY <1>0, <1>1 DEF WayOut, Arrive, TakeSlot, CheckRPM, AcquireConcurrency, ReadReserved,
                Reserve, ReleaseReservation, ReleaseConcurrency, ReleaseSlot, Goto
  <2>3. KeyOf[r] = k /\ pc'[r] \in {"reserve", "handling"} => pc[r] \in {"reserve", "handling"}
    BY <1>0, <1>1 DEF WayOut, Arrive, TakeSlot, CheckRPM, AcquireConcurrency, ReadReserved,
                Reserve, ReleaseReservation, ReleaseConcurrency, ReleaseSlot, Goto,
                AfterRefusedGuard, AfterRefusedSlot
  <2> QED
    BY <1>0, <2>1, <2>2, <2>3, LoadQuiet
<1>2. ASSUME NEW r \in Request, NEW readable \in BOOLEAN, DecideDaily(r, readable)
      PROVE  Load(k)' <= Load(k) \/ Admits(r, k)
  <2>1. CASE KeyOf[r] = k /\ MayProceed(r, readable)
    <3>1. readable /\ Usage(k, day[r]) + seen[r] < Daily[k]
      BY <2>1 DEF MayProceed
    <3>2. Logged(k, today) \subseteq Logged(k, day[r])
      <4>1. day[r] <= today /\ day[r] \in Int
        BY <1>0 DEF ClockKept
      <4> QED
        BY <1>0, <4>1 DEF Logged
    <3>3. Usage(k, today) <= Usage(k, day[r])
      BY <3>2, LoadNat, FS_Subset DEF Usage
    <3>4. Usage(k, today) \in Nat /\ Usage(k, day[r]) \in Nat /\ seen[r] \in Nat
      BY <1>0, LoadNat
    <3>5. Usage(k, today) + seen[r] < Daily[k]
      BY <1>0, <3>1, <3>3, <3>4
    <3> QED
      BY <1>2, <2>1, <3>5 DEF DecideDaily, Goto, Admits
  <2>2. CASE ~(KeyOf[r] = k /\ MayProceed(r, readable))
    <3>1. UNCHANGED <<logDay, today>>
      BY <1>2 DEF DecideDaily
    <3>2. \A q \in Request : KeyOf[q] = k /\ pc'[q] \in {"reserve", "handling"} =>
                                pc[q] \in {"reserve", "handling"}
      BY <1>0, <1>2, <2>2 DEF DecideDaily, Goto, AfterRefusedQuota
    <3> QED
      BY <1>0, <3>1, <3>2, LoadQuiet
  <2> QED
    BY <2>1, <2>2
<1>3. ASSUME NEW r \in Request, NEW inserted \in BOOLEAN, Handle(r, inserted)
      PROVE  Load(k)' <= Load(k)
  BY <1>3, LoadHandle
<1>4. CASE AdmissionEnv \/ UNCHANGED admissionVars
  <2>1. UNCHANGED <<pc, logDay>> /\ today' \in {today, today + 1}
    BY <1>4 DEF AdmissionEnv, Reload, EditPolicy, Tick, Midnight, admissionVars
  <2> QED
    BY <1>0, <2>1, LoadQuiet
<1> QED
  BY <1>1, <1>2, <1>3, <1>4 DEF AdmissionNext, WayIn

(* What an admission does to the load.                                      *)
LEMMA AdmitsOne ==
    ASSUME AdmissionInv, NEW k \in Key, NEW r \in Request, Admits(r, k)
    PROVE  /\ r \notin Pending(k) /\ Pending(k)' = Pending(k) \cup {r}
           /\ Load(k)' = Usage(k, today) + Cardinality(Pending(k)) + 1
<1>0. pc \in [Request -> Place]
  BY DEF AdmissionInv, AdmissionTypeOK
<1>1. r \notin Pending(k) /\ Pending(k)' = Pending(k) \cup {r}
  BY <1>0 DEF Admits, Pending
<1>2. Logged(k, today)' = Logged(k, today)
  BY DEF Admits, Logged
<1>3. Cardinality(Pending(k)') = Cardinality(Pending(k)) + 1
  BY <1>1, LoadNat, FS_AddElement
<1>4. Cardinality(Pending(k)) \in Nat /\ Cardinality(Logged(k, today)) \in Nat
  BY LoadNat DEF Usage
<1> QED
  BY <1>1, <1>2, <1>3, <1>4 DEF Load, Usage

-----------------------------------------------------------------------------
(* Until two admissions of a key overlap, at most one of its requests is    *)
(* between the two critical sections, nobody of the key is admitted while   *)
(* it decides, and so the reservations it read still cover the key's        *)
(* handlers at the moment it reads the rows.                                *)
Handling(k) == {q \in Request : KeyOf[q] = k /\ pc[q] = "handling"}

OneAtATime(k) ==
    /\ \A q, r \in Request :
          KeyOf[q] = k /\ KeyOf[r] = k /\ {pc[q], pc[r]} \subseteq {"decide", "reserve"} => q = r
    /\ \A r \in Request : KeyOf[r] = k /\ pc[r] = "decide" => Cardinality(Handling(k)) <= seen[r]

Unraced == \A k \in Key : Daily[k] > 0 /\ ~raced[k] => OneAtATime(k)

LEMMA HandlingFinite ==
    ASSUME NEW k
    PROVE  IsFiniteSet(Handling(k)) /\ Cardinality(Handling(k)) \in Nat
<1>1. Handling(k) \subseteq Request
  BY DEF Handling
<1> QED
  BY <1>1, AdmissionAssumption, FS_Subset, FS_CardinalityType

(* A step in which no request of the key enters a place that matters.       *)
LEMMA OneAtATimeQuiet ==
    ASSUME NEW k, OneAtATime(k),
           \A q \in Request : KeyOf[q] = k /\ pc'[q] \in {"decide", "reserve", "handling"} =>
                                 pc'[q] = pc[q] /\ seen'[q] = seen[q],
           seen \in [Request -> Nat]
    PROVE  OneAtATime(k)'
<1>1. Handling(k)' \subseteq Handling(k)
  BY DEF Handling
<1>2. Cardinality(Handling(k)') <= Cardinality(Handling(k)) /\ Cardinality(Handling(k)') \in Nat
  BY <1>1, HandlingFinite, FS_Subset, FS_CardinalityType
<1>3. ASSUME NEW r \in Request, KeyOf[r] = k, pc'[r] = "decide"
      PROVE  Cardinality(Handling(k)') <= seen'[r]
  <2>1. Cardinality(Handling(k)) <= seen[r] /\ seen'[r] = seen[r] /\ seen[r] \in Nat
    BY <1>3 DEF OneAtATime
  <2> QED
    BY <1>2, <2>1, HandlingFinite
<1>4. ASSUME NEW q \in Request, NEW r \in Request, KeyOf[q] = k, KeyOf[r] = k,
             {pc'[q], pc'[r]} \subseteq {"decide", "reserve"}
      PROVE  q = r
  BY <1>4 DEF OneAtATime
<1> QED
  BY <1>3, <1>4 DEF OneAtATime

LEMMA UnracedStep ==
    AdmissionInv /\ Unraced /\ [AdmissionNext]_admissionVars => Unraced'
<1> SUFFICES ASSUME AdmissionInv, Unraced, [AdmissionNext]_admissionVars,
                    NEW k \in Key, Daily[k] > 0, ~raced'[k]
             PROVE  OneAtATime(k)'
  BY DEF Unraced
<1>0. /\ pc \in [Request -> Place] /\ gen \in [Request -> Gen] /\ seen \in [Request -> Nat]
      /\ reserved \in [Gen -> [Key -> Nat]] /\ raced \in [Key -> BOOLEAN]
      /\ KeyOf \in [Request -> Key]
  BY AdmissionAssumption DEF AdmissionInv, AdmissionTypeOK
<1>1. ASSUME NEW r \in Request,
             \/ Arrive(r) \/ TakeSlot(r) \/ CheckRPM(r) \/ AcquireConcurrency(r) \/ WayOut(r)
      PROVE  OneAtATime(k)'
  <2>1. raced' = raced /\ seen' = seen /\ \A q \in Request \ {r} : pc'[q] = pc[q]
    BY <1>0, <1>1 DEF WayOut, Arrive, TakeSlot, CheckRPM, AcquireConcurrency,
                ReleaseReservation, ReleaseConcurrency, ReleaseSlot, Goto
  <2>2. pc'[r] \notin {"decide", "reserve", "handling"}
    BY <1>0, <1>1 DEF WayOut, Arrive, TakeSlot, CheckRPM, AcquireConcurrency,
                ReleaseReservation, ReleaseConcurrency, ReleaseSlot, Goto,
                AfterRefusedGuard, AfterRefusedSlot
  <2> QED
    BY <1>0, <2>1, <2>2, OneAtATimeQuiet DEF Unraced
<1>2. ASSUME NEW r \in Request, ReadReserved(r) PROVE OneAtATime(k)'
  <2>1. /\ pc[r] = "daily" /\ \A q \in Request \ {r} : pc'[q] = pc[q] /\ seen'[q] = seen[q]
    BY <1>0, <1>2 DEF ReadReserved, Goto
  <2>2. ~raced[k]
    BY <1>0, <1>2 DEF ReadReserved
  <2>3. OneAtATime(k)
    BY <2>2 DEF Unraced
  <2>4. CASE KeyOf[r] # k
    BY <1>0, <2>1, <2>3, <2>4, OneAtATimeQuiet
  <2>5. CASE KeyOf[r] = k
    <3>1. /\ seen' = [seen EXCEPT ![r] = reserved[gen[r]][k]]
          /\ raced' = [raced EXCEPT ![k] = @ \/ Overlaps(r)]
          /\ pc' = [pc EXCEPT ![r] = "decide"] /\ gen' = gen
      BY <1>2, <2>5 DEF ReadReserved, Goto
    <3>2. ~Overlaps(r)
      BY <1>0, <3>1
    <3>3. \A q \in Request \ {r} : KeyOf[q] = k =>
             pc[q] \notin {"decide", "reserve"} /\ (pc[q] = "handling" => gen[q] = gen[r])
      BY <2>5, <3>2 DEF Overlaps
    <3>4. Handling(k)' = Handling(k) /\ Handling(k) \subseteq Holders(gen[r], k)
      BY <1>0, <2>1, <3>1, <3>3 DEF Handling, Holders, Among, HolderPlaces
    <3>5. Cardinality(Handling(k)) <= Cardinality(Holders(gen[r], k))
      BY <3>4, AmongFinite, FS_Subset DEF Holders
    <3>6. reserved[gen[r]][k] = Cardinality(Holders(gen[r], k)) /\ seen'[r] = reserved[gen[r]][k]
      BY <1>0, <3>1 DEF AdmissionInv, ReservedExact
    <3>7. \A q \in Request : KeyOf[q] = k /\ pc'[q] \in {"decide", "reserve"} => q = r
      BY <2>1, <3>3
    <3> QED
      BY <3>4, <3>5, <3>6, <3>7 DEF OneAtATime
  <2> QED
    BY <2>4, <2>5
<1>3. ASSUME NEW r \in Request,
             Reserve(r) \/ \E readable \in BOOLEAN : DecideDaily(r, readable)
      PROVE  OneAtATime(k)'
  <2>1. /\ pc[r] \in {"decide", "reserve"} /\ raced' = raced
        /\ pc'[r] \in {"reserve", "handling", "unwind"}
        /\ \A q \in Request \ {r} : pc'[q] = pc[q] /\ seen'[q] = seen[q]
    BY <1>0, <1>3 DEF Reserve, DecideDaily, Goto, AfterRefusedQuota
  <2>2. OneAtATime(k)
    BY <2>1 DEF Unraced
  <2>3. CASE KeyOf[r] # k
    BY <1>0, <2>1, <2>2, <2>3, OneAtATimeQuiet
  <2>4. CASE KeyOf[r] = k
    <3>1. \A q \in Request \ {r} : KeyOf[q] = k => pc[q] \notin {"decide", "reserve"}
      BY <2>1, <2>2, <2>4 DEF OneAtATime
    <3>2. \A q \in Request : KeyOf[q] = k /\ pc'[q] \in {"decide", "reserve"} =>
             q = r /\ pc'[q] # "decide"
      BY <2>1, <3>1
    <3> QED
      BY <3>2 DEF OneAtATime
  <2> QED
    BY <2>3, <2>4
<1>4. CASE \/ \E r \in Request, inserted \in BOOLEAN : Handle(r, inserted)
           \/ AdmissionEnv \/ UNCHANGED admissionVars
  <2>1. UNCHANGED <<seen, raced>>
    BY <1>4 DEF Handle, AdmissionEnv, Reload, EditPolicy, Tick, Midnight, admissionVars
  <2>2. \A q \in Request : pc'[q] \in {pc[q], "unreserve"}
    BY <1>0, <1>4 DEF Handle, Goto, AdmissionEnv, Reload, EditPolicy, Tick, Midnight, admissionVars
  <2> QED
    BY <1>0, <2>1, <2>2, OneAtATimeQuiet DEF Unraced
<1> QED
  BY <1>1, <1>2, <1>3, <1>4 DEF AdmissionNext, WayIn

LEMMA QuotaStep ==
    AdmissionInv /\ ClockKept /\ Unraced /\ QuotaExactUnlessRaced
        /\ [AdmissionNext]_admissionVars => QuotaExactUnlessRaced'
<1> SUFFICES ASSUME AdmissionInv, ClockKept, Unraced, QuotaExactUnlessRaced,
                    [AdmissionNext]_admissionVars,
                    NEW k \in Portable, Daily[k] > 0, ~raced'[k]
             PROVE  Load(k)' <= Daily[k]
  BY DEF QuotaExactUnlessRaced, Load
<1>0. k \in Key /\ Daily[k] \in Nat /\ raced \in [Key -> BOOLEAN] /\ seen \in [Request -> Nat]
  BY AdmissionAssumption DEF AdmissionInv, AdmissionTypeOK
<1>1. ~raced[k]
  BY <1>0 DEF AdmissionNext, AdmissionEnv, Reload, EditPolicy, Tick, Midnight, admissionVars,
              Handle, WayIn, WayOut, Arrive, TakeSlot, CheckRPM, AcquireConcurrency, ReadReserved,
              DecideDaily, Reserve, ReleaseReservation, ReleaseConcurrency, ReleaseSlot
<1>2. Load(k) <= Daily[k] /\ OneAtATime(k)
  BY <1>0, <1>1 DEF QuotaExactUnlessRaced, Unraced, Load
<1>3. Load(k) \in Nat
  BY LoadNat
<1>4. CASE Load(k)' <= Load(k)
  <2>1. Load(k)' \in Nat
    BY LoadNatNext
  <2> QED
    BY <1>0, <1>2, <1>3, <1>4, <2>1
<1>5. ASSUME NEW r \in Request, Admits(r, k) PROVE Load(k)' <= Daily[k]
  <2>1. \A q \in Request : KeyOf[q] = k /\ pc[q] = "reserve" => q = r
    BY <1>2, <1>5 DEF Admits, OneAtATime
  <2>2. Pending(k) = Handling(k)
    BY <1>5, <2>1 DEF Admits, Pending, Handling
  <2>3. Cardinality(Pending(k)) <= seen[r]
    BY <1>2, <1>5, <2>2 DEF Admits, OneAtATime
  <2>4. Load(k)' = Usage(k, today) + Cardinality(Pending(k)) + 1
    BY <1>0, <1>5, AdmitsOne
  <2>5. Usage(k, today) + seen[r] < Daily[k]
    BY <1>5 DEF Admits
  <2>6. Usage(k, today) \in Nat /\ Cardinality(Pending(k)) \in Nat /\ seen[r] \in Nat
    BY <1>0, LoadNat
  <2> QED
    BY <1>0, <2>3, <2>4, <2>5, <2>6
<1> QED
  BY <1>0, <1>4, <1>5, LoadStep

(* As long as no two admissions of a portable key overlap, its rows of the  *)
(* day and its admitted requests never exceed the daily quota: checkDaily   *)
(* may count a finishing request twice but never misses it.                 *)
THEOREM QuotaExact == AdmissionSpec => []QuotaExactUnlessRaced
<1>1. AdmissionInv /\ [AdmissionNext]_admissionVars => AdmissionInv'
  BY LimitsStep, TypeStep, CountersStep DEF AdmissionInv
<1>2. AdmissionInit => Unraced /\ QuotaExactUnlessRaced
  <2> SUFFICES ASSUME AdmissionInit PROVE Unraced /\ QuotaExactUnlessRaced
    OBVIOUS
  <2>1. \A k : Handling(k) = {} /\ Pending(k) = {}
    BY DEF AdmissionInit, Handling, Pending
  <2>2. \A k : Logged(k, today) = {}
    BY DEF AdmissionInit, Logged, NoRow
  <2>3. Unraced
    BY <2>1, FS_EmptySet DEF AdmissionInit, Unraced, OneAtATime
  <2>4. \A k \in Portable : Daily[k] \in Nat
    BY AdmissionAssumption
  <2>5. \A k : Usage(k, today) = 0 /\ Cardinality(Pending(k)) = 0
    BY <2>1, <2>2, FS_EmptySet DEF Usage
  <2>6. QuotaExactUnlessRaced
    BY <2>4, <2>5 DEF QuotaExactUnlessRaced
  <2> QED
    BY <2>3, <2>6
<1> QED
  BY AdmissionInitInv, ClockInit, <1>1, <1>2, ClockStep, UnracedStep, QuotaStep, PTL
     DEF AdmissionSpec

-----------------------------------------------------------------------------
(* The overshoot.  Whatever the races, the requests of a key that is always *)
(* limited are at most its highest limit for each limiter in use.           *)
LEMMA LimitsNat ==
    ASSUME AdmissionInv, NEW k \in Key
    PROVE  Limits(k) \subseteq Nat /\ cur \in Nat /\ cur \in Gen /\ 0..cur \subseteq Gen
<1>1. Conc[k] \in Nat /\ EditTo \subseteq Nat
  BY AdmissionAssumption
<1>2. cur \in 0..MaxReload /\ MaxReload \in Nat
  BY AdmissionAssumption DEF AdmissionInv, AdmissionTypeOK, Gen
<1>3. Limits(k) \subseteq Nat
  BY <1>1 DEF Limits
<1>4. 0..cur \subseteq 0..MaxReload /\ cur \in Nat
  BY <1>2
<1> QED
  BY <1>2, <1>3, <1>4 DEF Gen

RunningAt(k) == {q \in Request : KeyOf[q] = k /\ pc[q] \in RunningPlaces}

LEMMA RunningBounded ==
    ASSUME AdmissionInv, ClockKept, NEW k \in Key, 0 \notin Limits(k)
    PROVE  \E n \in Limits(k) : Cardinality(RunningAt(k)) <= (cur + 1) * n
<1> DEFINE Covers(m, n) == \A g \in 0..m : active[g][k] <= n
           Bad == {m \in 0..cur : ~\E n \in Limits(k) : Covers(m, n)}
<1>0. /\ cur \in Nat /\ cur \in Gen /\ 0..cur \subseteq Gen /\ Limits(k) \subseteq Nat
      /\ active \in [Gen -> [Key -> Nat]] /\ gen \in [Request -> Gen]
      /\ Gen \subseteq Nat
  <2>1. Gen \subseteq Nat
    BY AdmissionAssumption DEF Gen
  <2> QED
    BY <2>1, LimitsNat DEF AdmissionInv, AdmissionTypeOK
<1>1. \A g \in 0..cur : /\ active[g][k] = Cardinality(Running(g, k))
                        /\ active[g][k] \in Nat
                        /\ \E n \in Limits(k) : active[g][k] <= n
  BY <1>0 DEF AdmissionInv, ConcurrencyHeld
<1>2. Bad = {}
  <2> SUFFICES ASSUME Bad # {} PROVE FALSE
    OBVIOUS
  <2>1. PICK m \in Bad : \A l \in Bad : m <= l
    <3>1. Bad \subseteq Nat
      BY <1>0
    <3> HIDE DEF Bad
    <3> QED
      BY <3>1, LeastNat
  <2>2. m \in 0..cur /\ ~\E n \in Limits(k) : Covers(m, n)
    BY <2>1
  <2>3. PICK n \in Limits(k) : active[m][k] <= n
    BY <1>1, <2>2
  <2>4. CASE m = 0
    BY <2>2, <2>3, <2>4
  <2>5. CASE m # 0
    <3>1. m - 1 \in 0..cur /\ ~(m <= m - 1)
      BY <1>0, <2>2, <2>5
    <3>2. PICK o \in Limits(k) : Covers(m - 1, o)
      BY <2>1, <3>1
    <3>3. \A g \in 0..m : g = m \/ g \in 0..(m - 1)
      BY <1>0, <2>2
    <3>4. \A g \in 0..m : active[g][k] <= n \/ active[g][k] <= o
      BY <2>3, <3>2, <3>3
    <3>5. \A g \in 0..m : active[g][k] \in Nat
      BY <1>0, <1>1, <2>2
    <3>6. n \in Nat /\ o \in Nat
      BY <1>0
    <3>7. Covers(m, n) \/ Covers(m, o)
      BY <3>4, <3>5, <3>6
    <3> QED
      BY <2>2, <3>7
  <2> QED
    BY <2>4, <2>5
<1>3. PICK n \in Limits(k) : Covers(cur, n)
  <2>1. cur \in 0..cur
    BY <1>0
  <2>2. cur \notin Bad
    BY <1>2
  <2> QED
    BY <2>1, <2>2
<1> DEFINE S == RunningAt(k)
<1>4. IsFiniteSet(S) /\ S \subseteq Request
  <2>1. S \subseteq Request
    BY DEF RunningAt
  <2> QED
    BY <2>1, AdmissionAssumption, FS_Subset
<1>5. IsFiniteSet(0..cur) /\ Cardinality(0..cur) = cur + 1
  <2>1. 0 \in Int /\ cur \in Int /\ ~(0 > cur)
    BY <1>0
  <2> QED
    BY <2>1, FS_Interval
<1>6. ASSUME NEW r \in S PROVE gen[r] \in 0..cur
  <2>1. gen[r] \in Nat /\ gen[r] <= cur
    BY <1>0, <1>4 DEF ClockKept
  <2> QED
    BY <1>0, <2>1
<1>7. ASSUME NEW g \in 0..cur PROVE Cardinality({r \in S : gen[r] = g}) <= n
  <2>1. {r \in S : gen[r] = g} = Running(g, k)
    BY DEF RunningAt, Running, Among
  <2> QED
    BY <1>1, <1>3, <2>1
<1> HIDE DEF S, Covers, Bad
<1>8. Cardinality(S) <= Cardinality(0..cur) * n
  BY <1>0, <1>4, <1>5, <1>6, <1>7, ByClasses
<1> QED
  BY <1>5, <1>8 DEF S

LEMMA OvershootStep ==
    AdmissionInv /\ ClockKept /\ OvershootBounded /\ [AdmissionNext]_admissionVars
        => OvershootBounded'
<1> SUFFICES ASSUME AdmissionInv, ClockKept, OvershootBounded, [AdmissionNext]_admissionVars,
                    NEW k \in Portable, Daily[k] > 0, 0 \notin Limits(k)
             PROVE  \E n \in Limits(k) : Load(k)' <= Daily[k] - 1 + n * (cur' + 1)
  BY DEF OvershootBounded, Load, Limits
<1>0. /\ k \in Key /\ Daily[k] \in Nat /\ cur \in Nat /\ Limits(k) \subseteq Nat
      /\ seen \in [Request -> Nat]
  BY AdmissionAssumption, LimitsNat DEF AdmissionInv, AdmissionTypeOK
<1>1. PICK n \in Limits(k) : Load(k) <= Daily[k] - 1 + n * (cur + 1)
  BY DEF OvershootBounded, Load
<1>2. Load(k) \in Nat /\ Load(k)' \in Nat /\ n \in Nat
  BY <1>0, LoadNat, LoadNatNext
<1>3. CASE Load(k)' <= Load(k)
  <2>1. cur' = cur \/ cur' = cur + 1
    BY DEF AdmissionNext, AdmissionEnv, Reload, EditPolicy, Tick, Midnight, admissionVars,
           Handle, WayIn, WayOut, Arrive, TakeSlot, CheckRPM, AcquireConcurrency, ReadReserved,
           DecideDaily, Reserve, ReleaseReservation, ReleaseConcurrency, ReleaseSlot
  <2>2. n * (cur + 1 + 1) = n * (cur + 1) + n
    BY <1>0, <1>2
  <2>3. n * (cur + 1) \in Nat
    BY <1>0, <1>2
  <2>4. n * (cur' + 1) \in Nat /\ n * (cur + 1) <= n * (cur' + 1)
    BY <1>0, <1>2, <2>1, <2>2, <2>3
  <2> QED
    BY <1>0, <1>1, <1>2, <1>3, <2>3, <2>4
<1>4. ASSUME NEW r \in Request, Admits(r, k)
      PROVE  \E m \in Limits(k) : Load(k)' <= Daily[k] - 1 + m * (cur' + 1)
  <2>1. PICK m \in Limits(k) : Cardinality(RunningAt(k)) <= (cur + 1) * m
    BY <1>0, RunningBounded
  <2>2. Pending(k) \cup {r} \subseteq RunningAt(k) /\ RunningAt(k) \subseteq Request
    BY <1>4 DEF Admits, Pending, RunningAt, RunningPlaces
  <2>3. IsFiniteSet(RunningAt(k)) /\ Cardinality(RunningAt(k)) \in Nat
    BY <2>2, AdmissionAssumption, FS_Subset, FS_CardinalityType
  <2>4. r \notin Pending(k) /\ Load(k)' = Usage(k, today) + Cardinality(Pending(k)) + 1
    BY <1>0, <1>4, AdmitsOne
  <2>5. Cardinality(Pending(k) \cup {r}) = Cardinality(Pending(k)) + 1
    BY <2>4, LoadNat, FS_AddElement
  <2>6. Cardinality(Pending(k)) + 1 <= Cardinality(RunningAt(k))
    BY <2>2, <2>3, <2>5, FS_Subset
  <2>7. Usage(k, today) + seen[r] < Daily[k] /\ cur' = cur
    BY <1>4 DEF Admits
  <2>8. Usage(k, today) \in Nat /\ Cardinality(Pending(k)) \in Nat /\ seen[r] \in Nat
    BY <1>0, LoadNat
  <2>9. m \in Nat /\ (cur + 1) * m = m * (cur' + 1) /\ m * (cur' + 1) \in Nat
    BY <1>0, <2>7
  <2> QED
    BY <1>0, <2>1, <2>3, <2>4, <2>6, <2>7, <2>8, <2>9
<1> QED
  BY <1>0, <1>3, <1>4, LoadStep

(* The daily quota of a portable key that is always limited is overrun by   *)
(* no more than the requests that run at once, in all the limiters that     *)
(* reloads left behind: checkDaily and reserve are two critical sections,   *)
(* but no request passes the first once the rows alone fill the quota.      *)
THEOREM OvershootLimited == AdmissionSpec => []OvershootBounded
<1>1. AdmissionInv /\ [AdmissionNext]_admissionVars => AdmissionInv'
  BY LimitsStep, TypeStep, CountersStep DEF AdmissionInv
<1>2. AdmissionInit => OvershootBounded
  <2> SUFFICES ASSUME AdmissionInit, NEW k \in Portable, Daily[k] > 0, 0 \notin Limits(k)
               PROVE  \E n \in Limits(k) :
                         Usage(k, today) + Cardinality(Pending(k)) <= Daily[k] - 1 + n * (cur + 1)
    BY DEF OvershootBounded
  <2>1. Pending(k) = {} /\ Logged(k, today) = {} /\ cur = 0
    BY DEF AdmissionInit, Pending, Logged, NoRow
  <2>2. Usage(k, today) = 0 /\ Cardinality(Pending(k)) = 0
    BY <2>1, FS_EmptySet DEF Usage
  <2>3. Conc[k] \in Limits(k) /\ Conc[k] \in Nat /\ Daily[k] \in Nat
    BY AdmissionAssumption DEF Limits
  <2> QED
    BY <2>1, <2>2, <2>3
<1> QED
  BY AdmissionInitInv, ClockInit, <1>1, <1>2, ClockStep, OvershootStep, PTL DEF AdmissionSpec

-----------------------------------------------------------------------------
(* Sums.  A sum is the number of its units, so that a request that joins or *)
(* leaves one changes it by its cost: a fact about finite sets, which needs *)
(* no induction over the requests.                                         *)

(* The units a request adds to a sum, as many as it costs. *)
LEMMA BoxSize ==
    ASSUME NEW r, NEW n \in Nat
    PROVE  IsFiniteSet({r} \X (1..n)) /\ Cardinality({r} \X (1..n)) = n
<1>1. IsFiniteSet({r}) /\ Cardinality({r}) = 1
  BY FS_Singleton
<1>2. IsFiniteSet(1..n) /\ Cardinality(1..n) = n
  BY FS_Interval
<1>3. /\ IsFiniteSet({r} \X (1..n))
      /\ Cardinality({r} \X (1..n)) = Cardinality({r}) * Cardinality(1..n)
  BY <1>1, <1>2, FS_Product
<1> QED
  BY <1>1, <1>2, <1>3

(* Sums over requests are natural numbers. *)
LEMMA UnitsFinite ==
    ASSUME NEW cost \in [Request -> Nat], NEW S \in SUBSET Request
    PROVE  IsFiniteSet(Units(cost, S)) /\ Total(cost, S) \in Nat
<1> DEFINE T == {{r} \X (1..cost[r]) : r \in S}
           f == [r \in S |-> {r} \X (1..cost[r])]
<1>1. IsFiniteSet(S)
  BY FS_Subset, AdmissionAssumption
<1>2. f \in Surjection(S, T)
  BY DEF Surjection
<1>3. IsFiniteSet(T)
  BY <1>1, <1>2, FS_Surjection
<1>a. ASSUME NEW r \in S PROVE IsFiniteSet({r} \X (1..cost[r]))
  <2>1. cost[r] \in Nat
    OBVIOUS
  <2>2. \A n \in Nat : IsFiniteSet({r} \X (1..n))
    BY BoxSize
  <2> QED
    BY <2>1, <2>2
<1>4. \A B \in T : IsFiniteSet(B)
  BY <1>a
<1> HIDE DEF T, f
<1>5. IsFiniteSet(UNION T)
  BY <1>3, <1>4, FS_UNION
<1>6. Units(cost, S) = UNION T
  BY DEF Units, T
<1> QED
  BY <1>5, <1>6, FS_CardinalityType DEF Total

(* A request not yet in the sum adds its cost to it. *)
LEMMA TotalAdd ==
    ASSUME NEW cost \in [Request -> Nat], NEW S \in SUBSET Request,
           NEW r \in Request, r \notin S
    PROVE  Total(cost, S \cup {r}) = Total(cost, S) + cost[r]
<1> DEFINE U == Units(cost, S)
           B == {r} \X (1..cost[r])
<1>1. IsFiniteSet(U)
  BY UnitsFinite
<1>2. IsFiniteSet(B) /\ Cardinality(B) = cost[r]
  <2>1. cost[r] \in Nat
    OBVIOUS
  <2>2. \A n \in Nat : IsFiniteSet({r} \X (1..n)) /\ Cardinality({r} \X (1..n)) = n
    BY BoxSize
  <2> QED
    BY <2>1, <2>2
<1>3. Units(cost, S \cup {r}) = U \cup B
  BY DEF Units
<1>4. U \cap B = {}
  BY DEF Units
<1>5. cost[r] \in Nat /\ Cardinality(U) \in Nat
  BY <1>1, FS_CardinalityType
<1> HIDE DEF U, B
<1>6. Cardinality(U \cup B) = Cardinality(U) + Cardinality(B) - Cardinality(U \cap B)
  BY <1>1, <1>2, FS_Union
<1>7. Cardinality({}) = 0
  BY FS_EmptySet
<1>8. Cardinality(U \cup B) = Cardinality(U) + Cardinality(B) - 0
  BY <1>4, <1>6, <1>7
<1>9. Cardinality(U \cup B) = Cardinality(U) + cost[r]
  BY <1>2, <1>5, <1>8
<1> QED
  BY <1>3, <1>9 DEF Total, U

(* One that leaves the sum takes its cost with it. *)
LEMMA TotalDrop ==
    ASSUME NEW cost \in [Request -> Nat], NEW S \in SUBSET Request, NEW r \in S
    PROVE  Total(cost, S \ {r}) = Total(cost, S) - cost[r] /\ Total(cost, S \ {r}) \in Nat
<1>1. S \ {r} \in SUBSET Request /\ r \notin S \ {r} /\ (S \ {r}) \cup {r} = S /\ r \in Request
  OBVIOUS
<1>2. Total(cost, S) = Total(cost, S \ {r}) + cost[r]
  BY <1>1, TotalAdd
<1>3. Total(cost, S \ {r}) \in Nat
  BY <1>1, UnitsFinite
<1> QED
  BY <1>1, <1>2, <1>3

(* The empty sum. *)
LEMMA TotalNone == ASSUME NEW cost PROVE Total(cost, {}) = 0
<1>1. Units(cost, {}) = {}
  BY DEF Units
<1> QED
  BY <1>1, FS_EmptySet DEF Total

-----------------------------------------------------------------------------
(* The gateway is an admission. *)

(* Each step of the gateway is a step of admission or leaves it alone. *)
LEMMA GatewayStep == [GatewayNext]_gatewayVars => [AdmissionNext]_admissionVars
<1> SUFFICES ASSUME [GatewayNext]_gatewayVars PROVE [AdmissionNext]_admissionVars
  OBVIOUS
<1>1. ASSUME NEW r \in Request, WayIn(r) \/ WayOut(r) PROVE AdmissionNext
  BY <1>1 DEF AdmissionNext
<1>2. ASSUME NEW r \in Request, NEW inserted \in BOOLEAN, EndHandler(r, inserted)
      PROVE  AdmissionNext
  BY <1>2 DEF EndHandler, AdmissionNext
<1>3. ASSUME AdmissionEnv PROVE AdmissionNext
  BY <1>3 DEF AdmissionNext
<1>4. CASE UNCHANGED gatewayVars
  BY <1>4 DEF gatewayVars
<1> QED
  BY <1>1, <1>2, <1>3, <1>4 DEF GatewayNext

(* The gateway implements admission. *)
THEOREM GatewayImplementsAdmission == GatewaySpec => AdmissionSpec
<1>1. GatewayInit => AdmissionInit
  BY DEF GatewayInit
<1> QED
  BY <1>1, GatewayStep, PTL DEF GatewaySpec, AdmissionSpec

(* The limiter's counters stay exact around handlers that execute, whatever *)
(* the budget decides and however Execute ends.                             *)
THEOREM GatewayKeepsCounters == GatewaySpec => [](ReservedExact /\ ConcurrencyHeld /\ GuardHeld)
BY GatewayImplementsAdmission, AdmissionInvariance, PTL DEF AdmissionInv

-----------------------------------------------------------------------------
(* The budget. *)

Spending == {"usage", "compare", "commit", "reserved", "free"}

SpendInv == AdmissionInv /\ SpendReservedExact

(* The sets that are summed are sets of requests, and Worst is a cost. *)
LEMMA ReservingSets ==
    ASSUME NEW g, NEW k
    PROVE  /\ Reserving(g, k) \in SUBSET Request
           /\ Worst \in [Request -> Nat]
           /\ Total(Worst, Reserving(g, k)) \in Nat
<1>1. Reserving(g, k) \in SUBSET Request
  BY DEF Reserving
<1>2. Worst \in [Request -> Nat]
  BY SpendAssumption
<1> QED
  BY <1>1, <1>2, UnitsFinite

(* What the store has recorded is a natural number. *)
LEMMA RecordedNat == ASSUME NEW k, NEW d PROVE RecordedSpend(k, d) \in Nat
<1>1. Logged(k, d) \in SUBSET Request /\ RecordedCost \in [Request -> Nat]
  BY DEF Logged, RecordedCost
<1> QED
  BY <1>1, UnitsFinite DEF RecordedSpend

(* Nothing is reserved at the start. *)
LEMMA SpendInitInv == GatewayInit => SpendReservedExact
<1> SUFFICES ASSUME GatewayInit PROVE SpendReservedExact
  OBVIOUS
<1> USE DEF GatewayInit, SpendInit
<1>1. SpendTypeOK
  BY DEF SpendTypeOK, SpendPlace
<1>2. ASSUME NEW g \in Gen, NEW k \in Key PROVE usd[g][k] = Total(Worst, Reserving(g, k))
  <2>1. Reserving(g, k) = {}
    BY DEF Reserving
  <2> QED
    BY <2>1, TotalNone
<1> QED
  BY <1>1, <1>2 DEF SpendReservedExact

(* Admission's steps move no request that is inside Execute, nor into      *)
(* another generation.                                                     *)
LEMMA InsideStays ==
    ASSUME AdmissionTypeOK, UNCHANGED spendVars,
           \/ \E r \in Request : WayIn(r) \/ WayOut(r)
           \/ \E r \in Request, inserted \in BOOLEAN : EndHandler(r, inserted)
           \/ AdmissionEnv,
           NEW q \in Request, spend[q] \in Spending, pc[q] = "handling"
    PROVE  pc'[q] = "handling" /\ gen'[q] = gen[q]
<1> USE DEF AdmissionTypeOK
<1>1. ASSUME NEW r \in Request, WayIn(r) PROVE pc'[q] = "handling" /\ gen'[q] = gen[q]
  <2>1. pc[r] # "handling" /\ pc' = [pc EXCEPT ![r] = pc'[r]]
           /\ (gen' = gen \/ gen' = [gen EXCEPT ![r] = cur])
    BY <1>1 DEF WayIn, Arrive, TakeSlot, CheckRPM, AcquireConcurrency, ReadReserved,
                DecideDaily, Reserve, Goto
  <2> QED
    BY <2>1
<1>2. ASSUME NEW r \in Request, WayOut(r) PROVE pc'[q] = "handling" /\ gen'[q] = gen[q]
  BY <1>2 DEF WayOut, ReleaseReservation, ReleaseConcurrency, ReleaseSlot, Goto
<1>3. ASSUME NEW r \in Request, NEW inserted \in BOOLEAN, EndHandler(r, inserted)
      PROVE  pc'[q] = "handling" /\ gen'[q] = gen[q]
  BY <1>3 DEF EndHandler, Handle, Goto, Spending
<1>4. ASSUME AdmissionEnv PROVE pc'[q] = "handling" /\ gen'[q] = gen[q]
  BY <1>4 DEF AdmissionEnv, Reload, EditPolicy, Tick, Midnight
<1> QED
  BY <1>1, <1>2, <1>3, <1>4

(* Such a step leaves the reserved spend and its meaning alone. *)
LEMMA SpendQuiet ==
    ASSUME SpendInv, UNCHANGED spendVars,
           \/ \E r \in Request : WayIn(r) \/ WayOut(r)
           \/ \E r \in Request, inserted \in BOOLEAN : EndHandler(r, inserted)
           \/ AdmissionEnv
    PROVE  SpendReservedExact'
<1> USE DEF SpendInv, AdmissionInv, SpendReservedExact
<1>1. \A q \in Request : spend[q] \in Spending => pc'[q] = "handling" /\ gen'[q] = gen[q]
  BY InsideStays DEF Spending
<1>2. SpendTypeOK'
  BY DEF SpendTypeOK, spendVars
<1>3. ASSUME NEW g \in Gen, NEW k \in Key
      PROVE  usd'[g][k] = Total(Worst, Reserving(g, k)')
  <2>1. Reserving(g, k)' = Reserving(g, k)
    BY <1>1 DEF Reserving, Spending, spendVars
  <2> QED
    BY <2>1 DEF spendVars
<1>4. \A r \in Request :
         spend'[r] \in {"usage", "compare", "commit", "reserved", "free"} => pc'[r] = "handling"
  BY <1>1 DEF Spending, spendVars
<1> QED
  BY <1>2, <1>3, <1>4

(* A step of Execute changes the reserved spend by its own worst case. *)
LEMMA SpendStepExact ==
    ASSUME SpendInv, NEW r \in Request, SpendStep(r), UNCHANGED admissionVars
    PROVE  SpendReservedExact'
<1> USE DEF SpendInv, AdmissionInv, SpendReservedExact, SpendGoto
<1>0. /\ gen' = gen /\ pc' = pc /\ gen[r] \in Gen /\ KeyOf[r] \in Key
      /\ Worst[r] \in Nat
  BY AdmissionAssumption, SpendAssumption DEF admissionVars, AdmissionTypeOK
<1> DEFINE place == spend'[r]
           Exact == \A g \in Gen, k \in Key : usd'[g][k] = Total(Worst, Reserving(g, k)')
<1>1. /\ spend' = [spend EXCEPT ![r] = place] /\ place \in SpendPlace
      /\ pc[r] = "handling"
  BY DEF SpendStep, Execute, ReadSpend, CompareSpend, ReserveSpend, Return, SpendTypeOK, SpendPlace
<1>2. used' \in [Request -> Nat]
  <2>1. \A k, d : RecordedSpend(k, d) \in Nat
    BY RecordedNat
  <2> QED
    BY <2>1 DEF SpendStep, Execute, ReadSpend, CompareSpend, ReserveSpend, Return, SpendTypeOK
<1>3. spendRaced' \in [Key -> BOOLEAN]
  BY <1>0, Zenon DEF SpendStep, Execute, ReadSpend, CompareSpend, ReserveSpend, Return,
                     SpendTypeOK, SpendOverlaps
<1>4. ASSUME usd' = usd, spend[r] # "reserved", place # "reserved"
      PROVE  usd' \in [Gen -> [Key -> Nat]] /\ Exact
  <2>1. \A g \in Gen, k \in Key : Reserving(g, k)' = Reserving(g, k)
    BY <1>0, <1>1, <1>4 DEF Reserving, SpendTypeOK
  <2> QED
    BY <1>4, <2>1 DEF SpendTypeOK
<1>5. ASSUME ReserveSpend(r) PROVE usd' \in [Gen -> [Key -> Nat]] /\ Exact
  <2>1. usd' \in [Gen -> [Key -> Nat]]
    BY <1>0, <1>5 DEF ReserveSpend, SpendTypeOK
  <2>2. ASSUME NEW g \in Gen, NEW k \in Key PROVE usd'[g][k] = Total(Worst, Reserving(g, k)')
    <3>1. CASE g = gen[r] /\ k = KeyOf[r]
      <4>1. Reserving(g, k)' = Reserving(g, k) \cup {r} /\ r \notin Reserving(g, k)
        BY <1>0, <1>5, <3>1 DEF ReserveSpend, Reserving, SpendTypeOK
      <4>2. Total(Worst, Reserving(g, k) \cup {r}) = Total(Worst, Reserving(g, k)) + Worst[r]
        BY <4>1, ReservingSets, TotalAdd
      <4>3. usd'[g][k] = usd[g][k] + Worst[r]
        BY <1>0, <1>5, <3>1 DEF ReserveSpend, SpendTypeOK
      <4> QED
        BY <4>1, <4>2, <4>3
    <3>2. CASE ~(g = gen[r] /\ k = KeyOf[r])
      <4>1. Reserving(g, k)' = Reserving(g, k)
        BY <1>0, <1>5, <3>2 DEF ReserveSpend, Reserving, SpendTypeOK
      <4>2. usd'[g][k] = usd[g][k]
        BY <1>0, <1>5, <3>2 DEF ReserveSpend, SpendTypeOK
      <4> QED
        BY <4>1, <4>2
    <3> QED
      BY <3>1, <3>2
  <2> QED
    BY <2>1, <2>2
<1>6. ASSUME Return(r), spend[r] = "reserved"
      PROVE  usd' \in [Gen -> [Key -> Nat]] /\ Exact
  <2>0. usd' = [usd EXCEPT ![gen[r]][KeyOf[r]] = @ - Worst[r]] /\ place = "returned"
    BY <1>1, <1>6 DEF Return, ReleaseSpend, SpendTypeOK
  <2>1. ASSUME NEW g \in Gen, NEW k \in Key, g = gen[r] /\ k = KeyOf[r]
        PROVE  usd'[g][k] = Total(Worst, Reserving(g, k)') /\ usd[g][k] - Worst[r] \in Nat
    <3>1. Reserving(g, k)' = Reserving(g, k) \ {r} /\ r \in Reserving(g, k)
      BY <1>0, <1>1, <1>6, <2>0, <2>1 DEF Reserving, SpendTypeOK
    <3>2. /\ Total(Worst, Reserving(g, k) \ {r}) = Total(Worst, Reserving(g, k)) - Worst[r]
          /\ Total(Worst, Reserving(g, k) \ {r}) \in Nat
      BY <3>1, ReservingSets, TotalDrop
    <3>3. usd'[g][k] = usd[g][k] - Worst[r]
      BY <1>0, <2>0, <2>1 DEF SpendTypeOK
    <3> QED
      BY <3>1, <3>2, <3>3
  <2>2. ASSUME NEW g \in Gen, NEW k \in Key, ~(g = gen[r] /\ k = KeyOf[r])
        PROVE  usd'[g][k] = Total(Worst, Reserving(g, k)')
    <3>1. Reserving(g, k)' = Reserving(g, k)
      BY <1>0, <1>1, <2>0, <2>2 DEF Reserving, SpendTypeOK
    <3>2. usd'[g][k] = usd[g][k]
      BY <1>0, <2>0, <2>2 DEF SpendTypeOK
    <3> QED
      BY <3>1, <3>2
  <2>3. usd' \in [Gen -> [Key -> Nat]]
    BY <1>0, <2>0, <2>1 DEF SpendTypeOK
  <2> QED
    BY <2>1, <2>2, <2>3
<1>7. usd' \in [Gen -> [Key -> Nat]] /\ Exact
  <2>1. \/ usd' = usd /\ spend[r] # "reserved" /\ place # "reserved"
        \/ ReserveSpend(r)
        \/ Return(r) /\ spend[r] = "reserved"
    BY DEF SpendStep, Execute, ReadSpend, CompareSpend, Return, SpendTypeOK
  <2> QED
    BY <1>4, <1>5, <1>6, <2>1
<1>8. SpendTypeOK'
  BY <1>1, <1>2, <1>3, <1>7 DEF SpendTypeOK
<1>9. \A q \in Request :
         spend'[q] \in {"usage", "compare", "commit", "reserved", "free"} => pc'[q] = "handling"
  BY <1>0, <1>1 DEF SpendTypeOK
<1> QED
  BY <1>7, <1>8, <1>9

(* Every step of the gateway keeps the reserved spend exact. *)
LEMMA SpendExactStep ==
    AdmissionInv /\ SpendReservedExact /\ [GatewayNext]_gatewayVars => SpendReservedExact'
<1> SUFFICES ASSUME SpendInv, [GatewayNext]_gatewayVars PROVE SpendReservedExact'
  BY DEF SpendInv
<1>1. CASE UNCHANGED gatewayVars
  BY <1>1 DEF gatewayVars, spendVars, admissionVars, SpendInv, SpendReservedExact, SpendTypeOK,
              Reserving
<1>2. CASE UNCHANGED spendVars /\ \/ \E r \in Request : WayIn(r) \/ WayOut(r)
                                  \/ \E r \in Request, inserted \in BOOLEAN : EndHandler(r, inserted)
                                  \/ AdmissionEnv
  BY <1>2, SpendQuiet
<1>3. CASE (\E r \in Request : SpendStep(r)) /\ UNCHANGED admissionVars
  BY <1>3, SpendStepExact
<1> QED
  BY <1>1, <1>2, <1>3 DEF GatewayNext

(* The reserved spend of a key is what its executing requests may cost at  *)
(* worst, however Execute ends, in every generation a reload left behind.  *)
THEOREM SpendReservationsExact == GatewaySpec => []SpendReservedExact
<1>1. GatewaySpec => []AdmissionInv
  BY GatewayImplementsAdmission, AdmissionInvariance, PTL
<1>2. AdmissionInv /\ SpendReservedExact /\ [GatewayNext]_gatewayVars => SpendReservedExact'
  BY SpendExactStep
<1> QED
  BY <1>1, <1>2, SpendInitInv, PTL DEF GatewaySpec

(* The requests of a key that hold a reservation in some generation. *)
Reserved(k) == {r \in Request : spend[r] = "reserved" /\ KeyOf[r] = k}

(* Undisturbed: while the spend admissions of a key have not overlapped, at *)
(* most one of its requests stands between its comparison and its           *)
(* reservation, and what that one and the others reserve stays below the    *)
(* budget.                                                                  *)
Undisturbed ==
    \A k \in Key : Enforced(k) /\ ~spendRaced[k] =>
        /\ Total(Worst, Reserved(k)) < Budget[k]
        /\ \A r \in Request : spend[r] = "commit" /\ KeyOf[r] = k =>
              /\ Total(Worst, Reserved(k)) + Worst[r] < Budget[k]
              /\ \A q \in Request : spend[q] = "commit" /\ KeyOf[q] = k => q = r

LEMMA ReservedSets ==
    ASSUME NEW k
    PROVE  /\ Reserved(k) \in SUBSET Request
           /\ Worst \in [Request -> Nat]
           /\ Total(Worst, Reserved(k)) \in Nat
<1>1. Reserved(k) \in SUBSET Request
  BY DEF Reserved
<1>2. Worst \in [Request -> Nat]
  BY SpendAssumption
<1> QED
  BY <1>1, <1>2, UnitsFinite

(* Only a request that is the only one to have compared reserves. *)
LEMMA UndisturbedStep ==
    ASSUME SpendInv, Undisturbed, NEW r \in Request, SpendStep(r), UNCHANGED admissionVars
    PROVE  Undisturbed'
<1> USE DEF SpendInv, AdmissionInv, SpendReservedExact, SpendGoto
<1> DEFINE place == spend'[r]
<1>0. /\ gen' = gen /\ gen[r] \in Gen /\ KeyOf[r] \in Key
      /\ Worst[r] \in Nat /\ Budget \in [Key -> Nat]
  BY AdmissionAssumption, SpendAssumption DEF admissionVars, AdmissionTypeOK
<1>1. spend' = [spend EXCEPT ![r] = place] /\ spend \in [Request -> SpendPlace]
  BY DEF SpendStep, Execute, ReadSpend, CompareSpend, ReserveSpend, Return, SpendTypeOK
<1>2. ASSUME NEW k \in Key, Enforced(k), ~spendRaced'[k]
      PROVE  ~spendRaced[k]
  BY <1>0, <1>2 DEF SpendStep, Execute, ReadSpend, CompareSpend, ReserveSpend, Return, SpendTypeOK
<1>3. ASSUME NEW k \in Key, Enforced(k), ~spendRaced'[k]
      PROVE  /\ Total(Worst, Reserved(k)') < Budget[k]
             /\ \A p \in Request : spend'[p] = "commit" /\ KeyOf[p] = k =>
                   /\ Total(Worst, Reserved(k)') + Worst[p] < Budget[k]
                   /\ \A q \in Request : spend'[q] = "commit" /\ KeyOf[q] = k => q = p
  <2>0. /\ Total(Worst, Reserved(k)) < Budget[k]
        /\ \A p \in Request : spend[p] = "commit" /\ KeyOf[p] = k =>
              /\ Total(Worst, Reserved(k)) + Worst[p] < Budget[k]
              /\ \A q \in Request : spend[q] = "commit" /\ KeyOf[q] = k => q = p
    BY <1>2, <1>3 DEF Undisturbed
  <2> DEFINE G == /\ Total(Worst, Reserved(k)') < Budget[k]
                  /\ \A p \in Request : spend'[p] = "commit" /\ KeyOf[p] = k =>
                        /\ Total(Worst, Reserved(k)') + Worst[p] < Budget[k]
                        /\ \A q \in Request : spend'[q] = "commit" /\ KeyOf[q] = k => q = p
  <2>1. ASSUME KeyOf[r] # k \/ /\ spend[r] # "reserved" /\ place # "reserved"
                               /\ place # "commit"
        PROVE  G
    <3>1. Reserved(k)' = Reserved(k)
      BY <1>1, <2>1 DEF Reserved
    <3>2. \A p \in Request : spend'[p] = "commit" /\ KeyOf[p] = k => spend[p] = "commit"
      BY <1>1, <2>1
    <3> QED
      BY <2>0, <3>1, <3>2
  <2>2. ASSUME KeyOf[r] = k, CompareSpend(r), place = "commit" PROVE G
    <3>1. ~SpendOverlaps(r) /\ Affordable(r) /\ spend[r] = "compare"
      BY <1>0, <1>1, <1>3, <2>2 DEF CompareSpend, SpendTypeOK, SpendPlace
    <3>2. Reserved(k)' = Reserved(k) /\ Reserved(k) = Reserving(gen[r], k)
      BY <1>1, <2>2, <3>1 DEF Reserved, Reserving, SpendOverlaps
    <3>3. usd[gen[r]][k] = Total(Worst, Reserved(k)) /\ used[r] \in Nat /\ Budget[k] \in Nat
      BY <1>0, <3>2 DEF SpendTypeOK
    <3>4. used[r] + usd[gen[r]][k] + Worst[r] < Budget[k]
      BY <2>2, <3>1 DEF Affordable
    <3>5. Total(Worst, Reserved(k)) \in Nat
      BY ReservedSets
    <3>6. Total(Worst, Reserved(k)) + Worst[r] < Budget[k]
      BY <1>0, <3>3, <3>4, <3>5
    <3>7. \A q \in Request : spend'[q] = "commit" /\ KeyOf[q] = k => q = r
      BY <1>1, <2>2, <3>1 DEF SpendOverlaps
    <3> QED
      BY <2>0, <3>2, <3>6, <3>7
  <2>3. ASSUME KeyOf[r] = k, ReserveSpend(r) PROVE G
    <3>1. spend[r] = "commit" /\ place = "reserved"
      BY <1>1, <2>3 DEF ReserveSpend
    <3>2. Reserved(k)' = Reserved(k) \cup {r} /\ r \notin Reserved(k)
      BY <1>1, <2>3, <3>1 DEF Reserved
    <3>3. Total(Worst, Reserved(k) \cup {r}) = Total(Worst, Reserved(k)) + Worst[r]
      BY <3>2, ReservedSets, TotalAdd
    <3>4. Total(Worst, Reserved(k)') < Budget[k]
      BY <2>0, <2>3, <3>1, <3>2, <3>3
    <3>5. \A p \in Request : ~(spend'[p] = "commit" /\ KeyOf[p] = k)
      BY <1>1, <2>0, <2>3, <3>1
    <3> QED
      BY <3>4, <3>5
  <2>4. ASSUME KeyOf[r] = k, Return(r), spend[r] = "reserved" PROVE G
    <3>1. place = "returned"
      BY <1>1, <2>4 DEF Return
    <3>2. Reserved(k)' = Reserved(k) \ {r} /\ r \in Reserved(k)
      BY <1>1, <2>4, <3>1 DEF Reserved
    <3>3. /\ Total(Worst, Reserved(k) \ {r}) = Total(Worst, Reserved(k)) - Worst[r]
          /\ Total(Worst, Reserved(k) \ {r}) \in Nat
      BY <3>2, ReservedSets, TotalDrop
    <3>4. Total(Worst, Reserved(k)) \in Nat /\ Budget[k] \in Nat
      BY <1>0, ReservedSets
    <3>5. Total(Worst, Reserved(k)') <= Total(Worst, Reserved(k))
      BY <1>0, <3>2, <3>3, <3>4
    <3>6. Total(Worst, Reserved(k)') \in Nat
      BY <3>2, <3>3
    <3>7. \A p \in Request : spend'[p] = "commit" => spend[p] = "commit"
      BY <1>1, <3>1
    <3>8. \A p \in Request : Worst[p] \in Nat
      BY SpendAssumption
    <3>9. \A p \in Request : spend'[p] = "commit" /\ KeyOf[p] = k =>
             Total(Worst, Reserved(k)') + Worst[p] < Budget[k]
      BY <2>0, <3>4, <3>5, <3>6, <3>7, <3>8
    <3> QED
      BY <2>0, <3>4, <3>5, <3>6, <3>7, <3>9
  <2>5. \/ KeyOf[r] # k
        \/ spend[r] # "reserved" /\ place # "reserved" /\ place # "commit"
        \/ CompareSpend(r) /\ place = "commit"
        \/ ReserveSpend(r)
        \/ Return(r) /\ spend[r] = "reserved"
    BY <1>1 DEF SpendStep, Execute, ReadSpend, CompareSpend, Return
  <2> QED
    BY <2>1, <2>2, <2>3, <2>4, <2>5
<1> QED
  BY <1>3 DEF Undisturbed, Enforced

(* As long as no request compares between another one's comparison and its *)
(* reservation, or beside one in an older coordinator, what a key has       *)
(* reserved stays below its budget.                                         *)
THEOREM SpendExact == GatewaySpec => []SpendExactUnlessRaced
<1>1. GatewaySpec => []AdmissionInv
  BY GatewayImplementsAdmission, AdmissionInvariance, PTL
<1>2. GatewayInit => Undisturbed
  <2> SUFFICES ASSUME GatewayInit PROVE Undisturbed
    OBVIOUS
  <2>1. \A r \in Request : spend[r] = "out"
    BY DEF GatewayInit, SpendInit
  <2>2. \A k : Reserved(k) = {}
    BY <2>1 DEF Reserved
  <2>3. \A k \in Key : Enforced(k) => 0 < Budget[k]
    BY SpendAssumption DEF Enforced
  <2>4. Total(Worst, {}) = 0
    BY TotalNone
  <2> QED
    BY <2>1, <2>2, <2>3, <2>4 DEF Undisturbed
<1>3. AdmissionInv /\ SpendReservedExact /\ Undisturbed /\ [GatewayNext]_gatewayVars => Undisturbed'
  <2> SUFFICES ASSUME SpendInv, Undisturbed, [GatewayNext]_gatewayVars PROVE Undisturbed'
    BY DEF SpendInv
  <2>1. CASE UNCHANGED spendVars
    <3>1. \A k : Reserved(k)' = Reserved(k)
      BY <2>1 DEF spendVars, Reserved
    <3> QED
      BY <2>1, <3>1 DEF spendVars, Undisturbed, Enforced
  <2>2. CASE (\E r \in Request : SpendStep(r)) /\ UNCHANGED admissionVars
    BY <2>2, UndisturbedStep
  <2> QED
    BY <2>1, <2>2 DEF GatewayNext, gatewayVars
<1>4. Undisturbed => SpendExactUnlessRaced
  BY DEF Undisturbed, SpendExactUnlessRaced, Reserved
<1> QED
  BY <1>1, <1>2, <1>3, <1>4, SpendReservationsExact, PTL DEF GatewaySpec

=============================================================================
