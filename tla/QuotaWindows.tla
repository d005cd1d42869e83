---------------------------- MODULE QuotaWindows ----------------------------
(***************************************************************************)
(* The arithmetic of quota windows (internal/quota: status.go, forecast.go, *)
(* reset.go, headers.go; console/api_quota.go: snapshotsToWindows).        *)
(*                                                                         *)
(* Amounts are natural numbers; Unknown stands for a nil pointer.  A       *)
(* utilization is never divided out: it is the pair it comes from, and is  *)
(* compared in percent.  A local calendar time is a record of a month, a   *)
(* day in it and a minute of the day.  Months are numbered through the     *)
(* years, so a year needs no field; their lengths repeat every Cycle       *)
(* months (48 make four years with their leap day).  A zone whose offset   *)
(* changes (daylight saving) is outside this calendar.                     *)
(***************************************************************************)
EXTENDS Integers

CONSTANTS Cycle,              \* months after which their lengths repeat
          MonthDays           \* the lengths of the months of a cycle

ASSUME CalendarAssumption == /\ Cycle \in Nat \ {0}
                             /\ MonthDays \in [0 .. Cycle - 1 -> Nat \ {0}]

Unknown == -1

Least(a, b) == IF a <= b THEN a ELSE b
Most(a, b)  == IF a >= b THEN a ELSE b

-----------------------------------------------------------------------------
(* Use against a limit *)

\* Utilization says nothing of an unknown limit, nor of one that is not positive.
Measured(limit) == limit > 0

\* *util >= percent/100
UtilizationAtLeast(limit, used, percent) ==
    /\ Measured(limit)
    /\ 100 * used >= percent * limit

Remaining(limit, used, reserved) ==
    IF Measured(limit) THEN Most(limit - used - reserved, 0) ELSE Unknown

IsStale(now, staleAfter) == staleAfter # Unknown /\ now > staleAfter

\* ForecastExhaustion: burn is in units an hour, resetIn in hours (Unknown
\* when the reset is not known), sure says the confidence reached its floor.
Forecast(limit, used, reserved, burn, resetIn, stale, sure) ==
    LET left == Remaining(limit, used, reserved)
    IN  CASE ~Measured(limit)               -> "insufficient_data"
          [] Measured(limit) /\ left = 0    -> "already_exhausted"
          [] left > 0 /\ stale              -> "provider_data_stale"
          [] left > 0 /\ ~stale ->
                IF ~sure \/ resetIn = Unknown
                THEN "insufficient_data"
                ELSE IF burn > 0 /\ left < burn * resetIn
                     THEN "likely_to_exhaust_before_reset"
                     ELSE "safe_through_reset"

\* DeriveStatus: an old reading is stale whatever it says.
DeriveStatus(limit, used, forecast, stale) ==
    CASE stale                                     -> "stale"
      [] ~stale /\ limit = Unknown                 -> "unknown"
      [] ~stale /\ limit # Unknown ->
            IF forecast = "already_exhausted" \/ UtilizationAtLeast(limit, used, 100)
            THEN "exhausted"
            ELSE IF UtilizationAtLeast(limit, used, 90) THEN "critical"
            ELSE IF UtilizationAtLeast(limit, used, 75) THEN "warning"
            ELSE IF UtilizationAtLeast(limit, used, 50) THEN "watch"
            ELSE IF forecast = "likely_to_exhaust_before_reset" THEN "warning"
            ELSE "healthy"

\* ObservationsToWindows: what a provider's rate-limit headers say of use.
UsedOfHeaders(limit, remaining) ==
    IF limit = Unknown \/ remaining = Unknown THEN 0 ELSE Most(limit - remaining, 0)

\* snapshotsToWindows: what remains is computed anew, whatever the snapshot
\* said of it; nothing is reserved and no burn rate is known.
Window(snap, now) ==
    LET stale == IsStale(now, snap.staleAfter)
        fc    == Forecast(snap.limit, snap.used, 0, 0, snap.resetIn, stale, TRUE)
    IN  [limit     |-> snap.limit,
         remaining |-> Remaining(snap.limit, snap.used, 0),
         status    |-> DeriveStatus(snap.limit, snap.used, fc, stale)]

-----------------------------------------------------------------------------
(* Calendar windows: WindowBounds *)

DaysIn(month) == MonthDays[month % Cycle]

Times == {t \in [month : Int, day : Nat, minute : Nat] :
             t.day \in 1 .. DaysIn(t.month)}

Before(s, t) ==
    \/ s.month < t.month
    \/ s.month = t.month /\ s.day < t.day
    \/ s.month = t.month /\ s.day = t.day /\ s.minute < t.minute

\* clampDay: the reset of a month that has not that many days is on its last.
ClampDay(month, day, minute) ==
    [month  |-> month,
     day    |-> Most(Least(day, DaysIn(month)), 1),
     minute |-> minute]

\* A reset "monthly" or of a "billing_cycle": the first boundary after now.
NextMonthly(day, minute, now) ==
    LET candidate == ClampDay(now.month, day, minute)
    IN  IF Before(now, candidate)
        THEN candidate
        ELSE ClampDay(now.month + 1, day, minute)

MonthlyWindow(day, minute, now) ==
    LET reset == NextMonthly(day, minute, now)
    IN  [start |-> ClampDay(reset.month - 1, day, minute), reset |-> reset]

\* A rule that repeats every period minutes, at an offset into it: "daily"
\* and "weekly", on minutes counted through.
PeriodicWindow(period, offset, now) ==
    LET today     == now - (now % period)
        candidate == today + offset
        reset     == IF now < candidate THEN candidate ELSE candidate + period
    IN  [start |-> reset - period, reset |-> reset]

=============================================================================
