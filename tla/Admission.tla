------------------------------ MODULE Admission ------------------------------
(***************************************************************************)
(* What a request passes before and after its handler runs: the global     *)
(* concurrency guard (internal/api/middleware/chain.go), the per-key       *)
(* limiter (limits.go) and the request_log row the handler writes, with    *)
(* the reload that replaces guard and limiter while requests are in flight *)
(* (internal/app/server.go).                                               *)
(*                                                                         *)
(* A request is a goroutine that passes once from "new" to "done".  Each   *)
(* critical section of the limiter's mutex, each statement of the store    *)
(* and each deferred release is a step; the steps of different requests    *)
(* interleave.  A reload makes a new guard and a new limiter with empty    *)
(* maps (a generation); a request keeps the generation it arrived in.      *)
(*                                                                         *)
(* Abstractions.  A request carries its key (authentication has found it;  *)
(* expired and unknown keys are refused there).  A limit of 0 stands for   *)
(* one that is not set; a local variable that is not used again is reset   *)
(* to 0.  The request log is logDay; a time stamp of the rate window is    *)
(* the number of ticks for which it still counts.  Statements of the store *)
(* may fail at any time.  The limiter's second look at the key's expiry    *)
(* and the paths it waves through (/health, /v1/models) are left out;      *)
(* with GlobalCap = 0 there is no guard and slots only counts.             *)
(***************************************************************************)
EXTENDS Integers, FiniteSets

CONSTANTS Request,     \* requests, each used once
          Key,         \* client keys
          KeyOf,       \* KeyOf[r]: the key r authenticates with
          Portable,    \* keys whose quotas fail closed (portable, or public hosting)
          Rpm,         \* Rpm[k]: requests per window
          Window,      \* ticks in the rate window (a minute)
          Daily,       \* Daily[k]: requests per day
          Conc,        \* Conc[k]: concurrent requests, as first configured
          Edited,      \* keys whose concurrency limit the operator edits
          EditTo,      \* the values it is edited to
          GlobalCap,   \* server.max_concurrency
          MaxReload,   \* bound: reloads
          MaxDay       \* bound: midnights

ASSUME AdmissionAssumption ==
    /\ IsFiniteSet(Request)
    /\ KeyOf \in [Request -> Key]
    /\ Portable \subseteq Key
    /\ Rpm \in [Key -> Nat] /\ Daily \in [Key -> Nat] /\ Conc \in [Key -> Nat]
    /\ Edited \subseteq Key /\ EditTo \subseteq Nat
    /\ Window \in Nat \ {0}
    /\ GlobalCap \in Nat
    /\ MaxReload \in Nat /\ MaxDay \in Nat

VARIABLES pc,        \* pc[r]: where r is
          gen,       \* gen[r]: the guard and limiter r runs under
          lim,       \* lim[r]: the concurrency limit in the key r was given
          day,       \* day[r]: the day r reached the limiter
          stamp,     \* stamp[r]: ticks for which r still counts in the rate window
          seen,      \* seen[r]: the reservations r read
          logDay,    \* logDay[r]: the day of r's request_log row, or NoRow
          slots,     \* slots[g]: slots taken of the guard's semaphore
          active,    \* active[g][k]: the limiter's count of running requests
          reserved,  \* reserved[g][k]: the limiter's count of reserved requests
          limit,     \* limit[k]: the concurrency limit in the client_keys row
          cur,       \* the current generation
          today,     \* the current day
          raced      \* raced[k]: two admissions of key k overlapped (history only)

admissionVars ==
    <<pc, gen, lim, day, stamp, seen, logDay, slots, active, reserved, limit, cur, today, raced>>

Gen == 0..MaxReload
Day == 0..MaxDay
NoRow == -1

Place == {"new",
          "enter",      \* authenticated; next the global guard
          "rate",       \* checkRPM
          "acquire",    \* acquireConcurrency
          "daily",      \* checkDaily: the reservations
          "decide",     \* checkDaily: the usage and the verdict
          "reserve",    \* reserve
          "handling",   \* in the endpoint's handler
          "unreserve",  \* the deferred release of the reservation
          "unwind",     \* the deferred releaseConcurrency
          "leave",      \* the guard's deferred release
          "done"}

AdmissionTypeOK ==
    /\ pc \in [Request -> Place]
    /\ gen \in [Request -> Gen]
    /\ lim \in [Request -> Nat]
    /\ day \in [Request -> Day]
    /\ stamp \in [Request -> 0..Window]
    /\ seen \in [Request -> Nat]
    /\ logDay \in [Request -> Day \cup {NoRow}]
    /\ slots \in [Gen -> Nat]
    /\ active \in [Gen -> [Key -> Nat]]
    /\ reserved \in [Gen -> [Key -> Nat]]
    /\ limit \in [Key -> Nat]
    /\ cur \in Gen
    /\ today \in Day
    /\ raced \in [Key -> BOOLEAN]

AdmissionInit ==
    /\ pc = [r \in Request |-> "new"]
    /\ gen = [r \in Request |-> 0]
    /\ lim = [r \in Request |-> 0]
    /\ day = [r \in Request |-> 0]
    /\ stamp = [r \in Request |-> 0]
    /\ seen = [r \in Request |-> 0]
    /\ logDay = [r \in Request |-> NoRow]
    /\ slots = [g \in Gen |-> 0]
    /\ active = [g \in Gen |-> [k \in Key |-> 0]]
    /\ reserved = [g \in Gen |-> [k \in Key |-> 0]]
    /\ limit = Conc
    /\ cur = 0
    /\ today = 0
    /\ raced = [k \in Key |-> FALSE]

Goto(r, place) == pc' = [pc EXCEPT ![r] = place]

-----------------------------------------------------------------------------
(* The way in. *)

(* Server.Handler picks the current chain; auth reads the key's row. *)
Arrive(r) ==
    /\ pc[r] = "new"
    /\ gen' = [gen EXCEPT ![r] = cur]
    /\ lim' = [lim EXCEPT ![r] = limit[KeyOf[r]]]
    /\ Goto(r, "enter")
    /\ UNCHANGED <<day, stamp, seen, logDay, slots, active, reserved, limit, cur, today, raced>>

(* GlobalConcurrency.Middleware: a slot if one is free, else 503 without   *)
(* the deferred release.  (A definition that precedes another one and      *)
(* differs from it by a defect, here and below, is there to be put in its  *)
(* place: the properties at the end must notice the exchange.)             *)
AfterRefusedGuardReleases == "leave"
AfterRefusedGuard == "done"

TakeSlot(r) ==
    /\ pc[r] = "enter"
    /\ IF GlobalCap = 0 \/ slots[gen[r]] < GlobalCap
       THEN /\ slots' = [slots EXCEPT ![gen[r]] = @ + 1]
            /\ Goto(r, "rate")
       ELSE /\ Goto(r, AfterRefusedGuard)
            /\ UNCHANGED slots
    /\ UNCHANGED <<gen, lim, day, stamp, seen, logDay, active, reserved, limit, cur, today, raced>>

(* The requests that count in the rate window of key k. *)
InWindow(g, k) == {q \in Request : gen[q] = g /\ KeyOf[q] = k /\ stamp[q] > 0}

WithinRateOffByOne(g, k) == Cardinality(InWindow(g, k)) <= Rpm[k]
WithinRate(g, k) == Cardinality(InWindow(g, k)) < Rpm[k]

CheckRPM(r) ==
    /\ pc[r] = "rate"
    /\ day' = [day EXCEPT ![r] = today]
    /\ \/ /\ Rpm[KeyOf[r]] = 0
          /\ Goto(r, "acquire")
          /\ UNCHANGED stamp
       \/ /\ Rpm[KeyOf[r]] > 0 /\ WithinRate(gen[r], KeyOf[r])
          /\ stamp' = [stamp EXCEPT ![r] = Window]
          /\ Goto(r, "acquire")
       \/ /\ Rpm[KeyOf[r]] > 0 /\ ~WithinRate(gen[r], KeyOf[r])
          /\ Goto(r, "leave")
          /\ UNCHANGED stamp
    /\ UNCHANGED <<gen, lim, seen, logDay, slots, active, reserved, limit, cur, today, raced>>

(* Middleware defers the release only after acquireConcurrency succeeded,  *)
(* and then also for a key without a limit, for which nothing was counted. *)
AfterRefusedSlotReleases == "unwind"
AfterRefusedSlot == "leave"

AcquireConcurrency(r) ==
    LET g == gen[r]
        k == KeyOf[r]
    IN  /\ pc[r] = "acquire"
        /\ \/ /\ lim[r] = 0
              /\ Goto(r, "daily")
              /\ UNCHANGED active
           \/ /\ lim[r] > 0 /\ active[g][k] < lim[r]
              /\ active' = [active EXCEPT ![g][k] = @ + 1]
              /\ Goto(r, "daily")
           \/ /\ lim[r] > 0 /\ active[g][k] >= lim[r]
              /\ Goto(r, AfterRefusedSlot)
              /\ UNCHANGED active
        /\ lim' = [lim EXCEPT ![r] = 0]
        /\ UNCHANGED <<gen, day, stamp, seen, logDay, slots, reserved, limit, cur, today, raced>>

(* Another request of r's key has read the reservations and has none yet,  *)
(* or is counted by the limiter of another generation.                     *)
Overlaps(r) ==
    \E q \in Request \ {r} :
        /\ KeyOf[q] = KeyOf[r]
        /\ \/ pc[q] \in {"decide", "reserve"}
           \/ pc[q] = "handling" /\ gen[q] # gen[r]

(* checkDaily, first half: the reservations, under the mutex. *)
ReadReserved(r) ==
    /\ pc[r] = "daily"
    /\ \/ /\ Daily[KeyOf[r]] = 0
          /\ Goto(r, "reserve")
          /\ day' = [day EXCEPT ![r] = 0]
          /\ UNCHANGED <<seen, raced>>
       \/ /\ Daily[KeyOf[r]] > 0
          /\ seen' = [seen EXCEPT ![r] = reserved[gen[r]][KeyOf[r]]]
          /\ raced' = [raced EXCEPT ![KeyOf[r]] = @ \/ Overlaps(r)]
          /\ Goto(r, "decide")
          /\ UNCHANGED day
    /\ UNCHANGED <<gen, lim, stamp, logDay, slots, active, reserved, limit, cur, today>>

(* UsageForKeySince: the key's rows since the start of day d. *)
Logged(k, d) == {q \in Request : KeyOf[q] = k /\ logDay[q] >= d}
Usage(k, d) == Cardinality(Logged(k, d))

(* checkDaily, second half.  An unreadable store refuses a portable key    *)
(* and counts as no usage for the others.                                  *)
MayProceedFailOpen(r, readable) ==
    (IF readable THEN Usage(KeyOf[r], day[r]) ELSE 0) + seen[r] < Daily[KeyOf[r]]
MayProceedUnreserved(r, readable) ==
    IF readable THEN Usage(KeyOf[r], day[r]) < Daily[KeyOf[r]] ELSE KeyOf[r] \notin Portable
MayProceed(r, readable) ==
    IF readable THEN Usage(KeyOf[r], day[r]) + seen[r] < Daily[KeyOf[r]]
                ELSE KeyOf[r] \notin Portable /\ seen[r] < Daily[KeyOf[r]]

AfterRefusedQuotaUnreserves == "unreserve"
AfterRefusedQuota == "unwind"

DecideDaily(r, readable) ==
    /\ pc[r] = "decide"
    /\ Goto(r, IF MayProceed(r, readable) THEN "reserve" ELSE AfterRefusedQuota)
    /\ seen' = [seen EXCEPT ![r] = 0]
    /\ day' = [day EXCEPT ![r] = 0]
    /\ UNCHANGED <<gen, lim, stamp, logDay, slots, active, reserved, limit, cur, today, raced>>

Reserve(r) ==
    /\ pc[r] = "reserve"
    /\ reserved' = [reserved EXCEPT ![gen[r]][KeyOf[r]] = @ + 1]
    /\ Goto(r, "handling")
    /\ UNCHANGED <<gen, lim, day, stamp, seen, logDay, slots, active, limit, cur, today, raced>>

-----------------------------------------------------------------------------
(* The handler, and the way out. *)

(* logRequest inserts the row just before the handler returns.  There is   *)
(* none when the handler refuses the request before it executes it, or     *)
(* panics, or when the insert fails: the store is down, or the client has  *)
(* gone and the insert runs on the request's cancelled context.            *)
Handle(r, inserted) ==
    /\ pc[r] = "handling"
    /\ logDay' = IF inserted THEN [logDay EXCEPT ![r] = today] ELSE logDay
    /\ Goto(r, "unreserve")
    /\ UNCHANGED <<gen, lim, day, stamp, seen, slots, active, reserved, limit, cur, today, raced>>

(* Both releases subtract one from a count that is not 0. *)
Lower(count, g, k) == [count EXCEPT ![g][k] = IF @ > 0 THEN @ - 1 ELSE @]

ReleaseReservation(r) ==
    /\ pc[r] = "unreserve"
    /\ reserved' = Lower(reserved, gen[r], KeyOf[r])
    /\ Goto(r, "unwind")
    /\ UNCHANGED <<gen, lim, day, stamp, seen, logDay, slots, active, limit, cur, today, raced>>

ReleaseConcurrency(r) ==
    /\ pc[r] = "unwind"
    /\ active' = Lower(active, gen[r], KeyOf[r])
    /\ Goto(r, "leave")
    /\ UNCHANGED <<gen, lim, day, stamp, seen, logDay, slots, reserved, limit, cur, today, raced>>

ReleaseSlot(r) ==
    /\ pc[r] = "leave"
    /\ slots' = [slots EXCEPT ![gen[r]] = @ - 1]
    /\ Goto(r, "done")
    /\ UNCHANGED <<gen, lim, day, stamp, seen, logDay, active, reserved, limit, cur, today, raced>>

-----------------------------------------------------------------------------
(* The environment. *)

Reload ==
    /\ cur < MaxReload
    /\ cur' = cur + 1
    /\ UNCHANGED <<pc, gen, lim, day, stamp, seen, logDay, slots, active, reserved, limit, today, raced>>

(* The operator edits the concurrency limit in the key's policy (the other *)
(* fields keep their values); requests in flight keep the old limit.       *)
EditPolicy(k) ==
    /\ k \in Edited
    /\ \E n \in EditTo : limit' = [limit EXCEPT ![k] = n]
    /\ UNCHANGED <<pc, gen, lim, day, stamp, seen, logDay, slots, active, reserved, cur, today, raced>>

Tick ==
    /\ stamp' = [r \in Request |-> IF stamp[r] > 0 THEN stamp[r] - 1 ELSE 0]
    /\ UNCHANGED <<pc, gen, lim, day, seen, logDay, slots, active, reserved, limit, cur, today, raced>>

Midnight ==
    /\ today < MaxDay
    /\ today' = today + 1
    /\ UNCHANGED <<pc, gen, lim, day, stamp, seen, logDay, slots, active, reserved, limit, cur, raced>>

WayIn(r) ==
    \/ Arrive(r) \/ TakeSlot(r) \/ CheckRPM(r) \/ AcquireConcurrency(r)
    \/ ReadReserved(r) \/ (\E readable \in BOOLEAN : DecideDaily(r, readable)) \/ Reserve(r)

WayOut(r) == ReleaseReservation(r) \/ ReleaseConcurrency(r) \/ ReleaseSlot(r)

AdmissionEnv == Reload \/ (\E k \in Key : EditPolicy(k)) \/ Tick \/ Midnight

AdmissionNext ==
    \/ \E r \in Request : WayIn(r) \/ WayOut(r)
    \/ \E r \in Request, inserted \in BOOLEAN : Handle(r, inserted)
    \/ AdmissionEnv

AdmissionSpec == AdmissionInit /\ [][AdmissionNext]_admissionVars

-----------------------------------------------------------------------------
(* What admission promises. *)

Among(g, keys, places) == {r \in Request : gen[r] = g /\ KeyOf[r] \in keys /\ pc[r] \in places}

HolderPlaces == {"handling", "unreserve"}
RunningPlaces == {"daily", "decide", "reserve", "handling", "unreserve", "unwind"}
GuardedPlaces == {"rate", "acquire", "leave"} \cup RunningPlaces

Holders(g, k) == Among(g, {k}, HolderPlaces)
Running(g, k) == Among(g, {k}, RunningPlaces)
Guarded(g) == Among(g, Key, GuardedPlaces)

(* ReservedExact: a limiter's count of reserved requests is the number of  *)
(* requests that hold a reservation, on every path through the middleware: *)
(* no refusal, early return or reload leaks one or gives one back twice.   *)
ReservedExact ==
    \A g \in Gen, k \in Key : reserved[g][k] = Cardinality(Holders(g, k))

(* The concurrency limits key k may have, 0 standing for none. *)
Limits(k) == {Conc[k]} \cup (IF k \in Edited THEN EditTo ELSE {})

(* ConcurrencyHeld: the count of running requests never exceeds the        *)
(* requests that run, so an idle key is never locked out of its limit,     *)
(* even when the limit is lifted and set while requests run; and for a key *)
(* that always has a limit the count is exact, so that no limiter lets     *)
(* more of its requests run than the highest of its limits.                *)
ConcurrencyHeld ==
    \A g \in Gen, k \in Key :
        /\ active[g][k] <= Cardinality(Running(g, k))
        /\ 0 \notin Limits(k) =>
              /\ active[g][k] = Cardinality(Running(g, k))
              /\ \E n \in Limits(k) : active[g][k] <= n

(* GuardHeld: the global guard's slots are the requests between it and     *)
(* their end, whichever way they leave the limiter, and within its size.   *)
GuardHeld ==
    \A g \in Gen : /\ slots[g] = Cardinality(Guarded(g))
                   /\ GlobalCap > 0 => slots[g] <= GlobalCap

(* Admitted requests of key k that will still write their row. *)
Pending(k) == {r \in Request : KeyOf[r] = k /\ pc[r] \in {"reserve", "handling"}}

(* OvershootBounded: the daily quota of a portable key can be overrun,     *)
(* because checkDaily and reserve are two critical sections, but never by  *)
(* more than the requests that run at once: the key's highest concurrency  *)
(* limit for each limiter that a reload left behind, and for the current   *)
(* one.                                                                    *)
OvershootBounded ==
    \A k \in Portable :
        Daily[k] > 0 /\ 0 \notin Limits(k) =>
            \E n \in Limits(k) :
                Usage(k, today) + Cardinality(Pending(k)) <= Daily[k] - 1 + n * (cur + 1)

(* QuotaExactUnlessRaced: as long as no two admissions of a portable key   *)
(* overlap, its rows and its admitted requests never exceed the daily      *)
(* quota, however handlers, releases and midnight fall between the reads   *)
(* of checkDaily: reading the reservations before the rows may count a     *)
(* finishing request twice but never misses it.                            *)
QuotaExactUnlessRaced ==
    \A k \in Portable :
        Daily[k] > 0 /\ ~raced[k] => Usage(k, today) + Cardinality(Pending(k)) <= Daily[k]

(* RateAcrossReloads: in no window of Window ticks does a key get more     *)
(* than Rpm[k] requests past checkRPM for each limiter there has been.     *)
RateAcrossReloads ==
    \A k \in Key : Rpm[k] > 0 =>
        Cardinality({r \in Request : KeyOf[r] = k /\ stamp[r] > 0}) <= Rpm[k] * (cur + 1)

(* NeverOverDailyQuota: what limits.go:26-28 says of the reservations:     *)
(* concurrent requests do not collectively exceed the daily quota.         *)
NeverOverDailyQuota ==
    \A k \in Portable : Daily[k] > 0 => Usage(k, today) <= Daily[k]

=============================================================================
