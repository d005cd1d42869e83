------------------------------ MODULE Accounts ------------------------------
(***************************************************************************)
(* The accounts of one provider: the operator's orders about them, the     *)
(* readings of their quota, and the selector that spreads work over them.  *)
(*                                                                         *)
(* An account's row (table provider_account_state) is written by four      *)
(* console requests (console/api_accounts.go).  Create writes it whole,    *)
(* enabled and not draining whatever row was there: its body can say       *)
(* neither.  Update, drain and resume read it, change a field or two and   *)
(* write the whole row back, in two statements no transaction joins.  A    *)
(* read that fails stops an update, but a drain and a resume go on as if   *)
(* the account had no row.                                                 *)
(*                                                                         *)
(* A reading (table quota_snapshots) is a provider's figure, under the     *)
(* definition its headers give it, or a count of the local request log,    *)
(* under none.  Of each the latest by the text of its time is read, and    *)
(* snapshotsToWindows merges the two into one window.  What stores the     *)
(* providers' figures is external: nothing in the repository does yet.     *)
(*                                                                         *)
(* AccountSelector.Select (quota/routing.go) picks under one lock section  *)
(* and records the pick under another.  Its caller is external too: it     *)
(* hands over the accounts with a row, and the default account, with those *)
(* windows.                                                                *)
(*                                                                         *)
(* Time is counted in half seconds; times print without trailing zeros.    *)
(***************************************************************************)
EXTENDS QuotaWindows, Sequences, FiniteSets

CONSTANTS Ids,               \* the accounts
          Rank,              \* account -> its place in the order of ids
          Default,           \* quota.DefaultAccountID
          Managed,           \* the accounts the operator gives orders about
          Metered,           \* the accounts whose provider reports their use
          Heavy,             \* the accounts of a routing weight above one
          Resolvable,        \* the accounts whose credential resolves
          Editors,           \* console requests that run at once
          Tables,            \* the tables of rows there may be at the start
          Patches,           \* the bodies of an update the operator sends
          Routers,           \* callers of Select that run at once
          Modes,             \* the routing modes they ask for
          Estimates,         \* the reservations they ask for
          Limit,             \* a provider's limit
          MaxEdits, MaxPicks, MaxReadings, MaxTime,       \* bounds
          NoRow, Keep, Idle

Flags == {"enabled", "draining"}
Rows == [enabled : BOOLEAN, draining : BOOLEAN, rotates : BOOLEAN]

ASSUME AccountsAssumption ==
    /\ IsFiniteSet(Ids)
    /\ Rank \in [Ids -> Nat]
    /\ \A a, b \in Ids : Rank[a] = Rank[b] => a = b
    /\ Default \in Ids
    /\ Managed \cup Metered \cup Heavy \cup Resolvable \subseteq Ids
    /\ Tables \subseteq [Ids -> Rows \cup {NoRow}]
    /\ NoRow \notin Rows /\ NoRow \notin Ids
    /\ Keep \notin BOOLEAN
    /\ Patches \subseteq [enabled : {Keep, TRUE, FALSE},
                          draining : {Keep, TRUE, FALSE},
                          rotates : {Keep, TRUE, FALSE}]
    /\ Estimates \subseteq Nat \ {0}
    /\ Limit \in Nat \ {0}
    /\ {MaxEdits, MaxPicks, MaxReadings, MaxTime} \subseteq Nat

VARIABLES
    rows,       \* provider_account_state: account -> row
    edits,      \* editor -> the request it has read for
    readings,   \* quota_snapshots: account -> its readings
    now,
    last,       \* AccountRoutingState.LastAccountID
    picks,      \* AccountRoutingState.Sequence
    reserved,   \* AccountSelector.reserved
    routes,     \* router -> the selection it is in
    (* history *)
    edited,     \* requests so far
    ordered,    \* what the last order about a field said: account -> fields
    excused,    \* the fields whose order a known slip may have undone
    spent,      \* the accounts a provider last said are used up
    masked,     \* ... and those where an earlier reading's text is the greater
    round       \* the accounts an undisturbed rotation has served

edited_vars == <<rows, edits, edited, ordered, excused>>
reading_vars == <<readings, now, spent, masked>>
route_vars == <<last, picks, reserved, routes, round>>
vars == <<edited_vars, reading_vars, route_vars>>

\* The account no row says anything of: what every handler starts from.
Fresh == [enabled |-> TRUE, draining |-> FALSE, rotates |-> FALSE]

-----------------------------------------------------------------------------
(* Orders: console/api_accounts.go *)

\* A field the request does not give is kept.
Over(patch, field, base) == IF patch[field] = Keep THEN base[field] ELSE patch[field]

\* A variant that forgets to carry the draining flag over.
PatchedForgetful(row, patch) ==
    LET base == IF row = NoRow THEN Fresh ELSE row
    IN  [enabled  |-> Over(patch, "enabled", base),
         draining |-> patch.draining = TRUE,
         rotates  |-> Over(patch, "rotates", base)]

\* What the request makes of the row it read.
Patched(row, patch) ==
    LET base == IF row = NoRow THEN Fresh ELSE row
    IN  [enabled  |-> Over(patch, "enabled", base),
         draining |-> Over(patch, "draining", base),
         rotates  |-> Over(patch, "rotates", base)]

Keeping == [enabled |-> Keep, draining |-> Keep, rotates |-> Keep]
Drain   == [Keeping EXCEPT !.draining = TRUE]
Resume  == [Keeping EXCEPT !.draining = FALSE]

\* A request that has read, with the orders its row may not show; a reading;
\* and a selection.
Requests == [account : Ids, patch : Patches \cup {Drain, Resume},
             row : Rows \cup {NoRow}, doubt : SUBSET Flags]
Sources == {"header", "log"}
Readings == [by : Sources, at : Nat, used : Nat, limit : Nat \cup {Unknown},
             staleAfter : Nat \cup {Unknown}, resetIn : Nat \cup {Unknown}]
Selections == [account : Ids, estimate : Nat \ {0}, among : SUBSET Ids,
               mode : Modes \cup {"fixed"}, seen : Nat, held : BOOLEAN]

ASSUME IdleAssumption == Idle \notin Requests \cup Selections

\* The orders about an account that a row made afresh does not carry.
Overridden(a) == {f \in Flags : ordered[a][f] # Fresh[f]}

\* The reads of other requests that an order about the given fields makes old.
Outdated(a, given, es) ==
    [e \in Editors |-> IF es[e] # Idle /\ es[e].account = a
                       THEN [es[e] EXCEPT !.doubt = @ \cup given]
                       ELSE es[e]]

\* A POST orders nothing about enabled and draining, and undoes what was
\* ordered about them before.
Create(a, rotates) ==
    /\ edited < MaxEdits
    /\ edited' = edited + 1
    /\ rows' = [rows EXCEPT ![a] = [Fresh EXCEPT !.rotates = rotates]]
    /\ excused' = [excused EXCEPT ![a] = Overridden(a)]
    /\ UNCHANGED <<edits, ordered, reading_vars, route_vars>>

\* GetAccountOpState, in a request that means to apply the patch.
ReadRow(e, a, patch) ==
    /\ edited < MaxEdits
    /\ edits[e] = Idle
    /\ edited' = edited + 1
    /\ edits' = [edits EXCEPT ![e] =
                    [account |-> a, patch |-> patch, row |-> rows[a],
                     doubt |-> excused[a]]]
    /\ UNCHANGED <<rows, ordered, excused, reading_vars, route_vars>>

\* The same with an error: an update answers 500 and no more is seen of it;
\* a drain and a resume ignore it.
MissRow(e, a, patch) ==
    /\ edited < MaxEdits
    /\ edits[e] = Idle
    /\ patch \in {Drain, Resume}
    /\ edited' = edited + 1
    /\ edits' = [edits EXCEPT ![e] =
                    [account |-> a, patch |-> patch, row |-> NoRow,
                     doubt |-> Overridden(a)]]
    /\ UNCHANGED <<rows, ordered, excused, reading_vars, route_vars>>

\* UpsertAccountOpState: the row is replaced.  The fields the request gave are
\* ordered; of the others it wrote what it had read.
WriteRow(e) ==
    /\ edits[e] # Idle
    /\ LET q     == edits[e]
           given == {f \in Flags : q.patch[f] # Keep}
       IN  /\ rows' = [rows EXCEPT ![q.account] = Patched(q.row, q.patch)]
           /\ ordered' = [ordered EXCEPT ![q.account] =
                             [f \in Flags |-> IF f \in given THEN q.patch[f] ELSE @[f]]]
           /\ excused' = [excused EXCEPT ![q.account] = q.doubt \ given]
           /\ edits' = Outdated(q.account, given, [edits EXCEPT ![e] = Idle])
    /\ UNCHANGED <<edited, reading_vars, route_vars>>

\* The write fails and the request answers 500.
FailRow(e) ==
    /\ edits[e] # Idle
    /\ edits' = [edits EXCEPT ![e] = Idle]
    /\ UNCHANGED <<rows, edited, ordered, excused, reading_vars, route_vars>>

-----------------------------------------------------------------------------
(* Readings: storage/quota.go, cli/quota.go *)

\* Times compare as the texts they print to: "05Z" sorts after "05.5Z".
TextOf(t) == 2 * (t \div 2) + 1 - (t % 2)

\* LatestQuotaSnapshotsForAccount: the greatest text of each definition.
Of(a, by) == {s \in readings[a] : s.by = by}
Latest(a, by) == CHOOSE s \in Of(a, by) : \A o \in Of(a, by) : TextOf(o.at) <= TextOf(s.at)

\* InsertQuotaSnapshot: the time is part of the key, the definition is not.
Insert(a, reading) ==
    /\ Cardinality(UNION {readings[b] : b \in Ids}) < MaxReadings
    /\ \A o \in readings[a] : o.at # now
    /\ readings' = [readings EXCEPT ![a] = @ \cup {reading}]

\* A provider's figure, with its limit; headers are fresh for five minutes,
\* longer than a behaviour lasts here.
ProviderReads(a, used) ==
    /\ Insert(a, [by |-> "header", at |-> now, used |-> used, limit |-> Limit,
                  staleAfter |-> now + MaxTime, resetIn |-> Unknown])
    /\ spent' = IF used >= Limit THEN spent \cup {a} ELSE spent \ {a}
    /\ masked' = IF \E o \in Of(a, "header") : o.at = now - 1 /\ o.at % 2 = 0
                 THEN masked \cup {a}
                 ELSE masked \ {a}
    /\ UNCHANGED <<now, edited_vars, route_vars>>

\* aggregateTodayUsage: the count of today's requests, which knows no limit,
\* under the provider's default account.
LocalRefresh(used) ==
    /\ Insert(Default, [by |-> "log", at |-> now, used |-> used, limit |-> Unknown,
                        staleAfter |-> Unknown, resetIn |-> Unknown])
    /\ UNCHANGED <<now, spent, masked, edited_vars, route_vars>>

Tick ==
    /\ now < MaxTime
    /\ now' = now + 1
    /\ UNCHANGED <<readings, spent, masked, edited_vars, route_vars>>

-----------------------------------------------------------------------------
(* The selector: quota/routing.go *)

\* The source of the row that snapshotsToWindows comes to last, for each
\* account: the query orders by dimension, and both have the same.
Shown == {shown \in [Ids -> Sources] :
             \A a \in Ids : IF readings[a] = {} THEN shown[a] = "log" ELSE Of(a, shown[a]) # {}}

\* The figures are the last row's; a limit and a date of expiry, once seen,
\* stay when a later row has none.
Merged(a, by) ==
    IF Of(a, "header") = {} THEN Latest(a, by)
    ELSE [Latest(a, by) EXCEPT !.limit = Latest(a, "header").limit,
                               !.staleAfter = Latest(a, "header").staleAfter]

WindowOf(a, shown) == Window(Merged(a, shown[a]), now)

UsedUp(a, shown) ==
    /\ readings[a] # {}
    /\ LET window == WindowOf(a, shown)
       IN  \/ window.status = "exhausted"
           \/ window.limit # Unknown /\ window.remaining = 0

RowOf(a) == IF rows[a] = NoRow THEN Fresh ELSE rows[a]

\* eligibilityReason finds nothing against the account.
Eligible(a, shown) ==
    /\ RowOf(a).enabled
    /\ ~RowOf(a).draining
    /\ a \in Resolvable
    /\ ~UsedUp(a, shown)

\* The external caller's list.
Candidates == {a \in Ids : rows[a] # NoRow \/ a = Default}

Rotating(mode) == mode \notin {"fixed", "manual"}

\* A rotating mode wants accounts that allow rotation; with none of them it
\* falls back to the fixed choice among all that are eligible.
Permitted(mode, shown) ==
    {a \in Candidates : Eligible(a, shown) /\ (Rotating(mode) => RowOf(a).rotates)}

\* A variant whose fallback checks nothing.
ConsideredAnyone(mode, shown) ==
    IF Permitted(mode, shown) # {} THEN Permitted(mode, shown) ELSE Candidates

Considered(mode, shown) ==
    IF Permitted(mode, shown) # {} THEN Permitted(mode, shown)
    ELSE {a \in Candidates : Eligible(a, shown)}

ModeUsed(mode, shown) == IF Permitted(mode, shown) # {} THEN mode ELSE "fixed"

\* The first of the accounts in the order of ids.
First(accounts) == CHOOSE a \in accounts : \A b \in accounts : Rank[a] <= Rank[b]

\* A variant that stays where it was.
InTurnAgain(accounts) == IF last \in accounts THEN last ELSE First(accounts)

\* roundRobin: the one after the last pick; the first when there is none
\* after it, or when the last pick is not among them.
InTurn(accounts) ==
    LET later == {a \in accounts : last \in accounts /\ Rank[a] > Rank[last]}
    IN  First(IF later # {} THEN later ELSE accounts)

\* weightedRoundRobin repeats an account by its weight and looks the last pick
\* up at its first place: what follows there is the account itself.
InWeightedTurn(accounts) ==
    IF last \in Heavy \cap accounts THEN last ELSE InTurn(accounts)

\* maxRemaining: an unknown remainder counts as none.
Left(a, shown) ==
    IF readings[a] = {} THEN 0 ELSE Most(WindowOf(a, shown).remaining, 0)

MostRemaining(accounts, shown) ==
    First({a \in accounts : \A b \in accounts : Left(b, shown) <= Left(a, shown)})

\* leastUsed, quotaBalanced and costAware go by figures of the caller's.
PicksOf(mode, accounts, shown) ==
    CASE mode = "round_robin"          -> {InTurn(accounts)}
      [] mode = "weighted_round_robin" -> {InWeightedTurn(accounts)}
      [] mode = "most_remaining"       -> {MostRemaining(accounts, shown)}
      [] mode \in {"fixed", "manual"}  -> {First(accounts)}
      [] OTHER                         -> accounts

Pending == {r \in Routers : routes[r] # Idle /\ ~routes[r].held}
Holding == {r \in Routers : routes[r] # Idle /\ routes[r].held}

\* Select up to the choice.  With no eligible account it decides nothing.
Choose(r, mode, estimate) ==
    /\ routes[r] = Idle
    /\ picks + Cardinality(Pending) < MaxPicks
    /\ \E shown \in Shown :
          /\ Considered(mode, shown) # {}
          /\ \E a \in PicksOf(ModeUsed(mode, shown), Considered(mode, shown), shown) :
                routes' = [routes EXCEPT ![r] =
                              [account |-> a, estimate |-> estimate,
                               among |-> Considered(mode, shown),
                               mode |-> ModeUsed(mode, shown),
                               seen |-> picks, held |-> FALSE]]
    /\ UNCHANGED <<last, picks, reserved, round, edited_vars, reading_vars>>

\* No other selection was recorded since this one chose.
Undisturbed(r) == routes[r].mode = "round_robin" /\ routes[r].seen = picks

Served(among, accounts) ==
    [among |-> among, served |-> IF accounts = among THEN {} ELSE accounts]

\* ... and its second lock section.
Record(r) ==
    /\ r \in Pending
    /\ LET s == routes[r]
       IN  /\ reserved' = [reserved EXCEPT ![s.account] = @ + s.estimate]
           /\ last' = s.account
           /\ picks' = picks + 1
           /\ routes' = [routes EXCEPT ![r].held = TRUE]
           /\ round' = IF ~Undisturbed(r) THEN Served({}, {})
                     ELSE IF round.among # s.among THEN Served(s.among, {s.account})
                     ELSE Served(s.among, round.served \cup {s.account})
    /\ UNCHANGED <<edited_vars, reading_vars>>

\* A variant that deletes the whole entry.
ReleasedWhole(amount, held) == 0

\* ReleaseReservation: an entry that is not positive is deleted.
Released(amount, held) == Most(held - amount, 0)

Release(r) ==
    /\ r \in Holding
    /\ reserved' = [reserved EXCEPT ![routes[r].account] = Released(routes[r].estimate, @)]
    /\ routes' = [routes EXCEPT ![r] = Idle]
    /\ UNCHANGED <<last, picks, round, edited_vars, reading_vars>>

-----------------------------------------------------------------------------
Init ==
    /\ rows \in Tables
    /\ edits = [e \in Editors |-> Idle]
    /\ readings = [a \in Ids |-> {}]
    /\ now = 0
    /\ last = NoRow
    /\ picks = 0
    /\ reserved = [a \in Ids |-> 0]
    /\ routes = [r \in Routers |-> Idle]
    /\ edited = 0
    /\ ordered = [a \in Ids |-> [f \in Flags |-> RowOf(a)[f]]]
    /\ excused = [a \in Ids |-> {}]
    /\ spent = {}
    /\ masked = {}
    /\ round = Served({}, {})

Edit ==
    \/ \E a \in Managed, rotates \in BOOLEAN : Create(a, rotates)
    \/ \E e \in Editors :
          \/ \E a \in Managed, patch \in Patches \cup {Drain, Resume} :
                ReadRow(e, a, patch) \/ MissRow(e, a, patch)
          \/ WriteRow(e)
          \/ FailRow(e)

Read ==
    \/ \E a \in Metered, used \in {0, Limit} : ProviderReads(a, used)
    \/ \E used \in {0, Limit} : LocalRefresh(used)
    \/ Tick

Route ==
    \E r \in Routers :
        \/ \E mode \in Modes, estimate \in Estimates : Choose(r, mode, estimate)
        \/ Record(r)
        \/ Release(r)

Next == Edit \/ Read \/ Route

Spec == Init /\ [][Next]_vars

-----------------------------------------------------------------------------
(* Properties *)

\* Every variable stays in its type; a selection holds an account it has
\* considered, and never more picks are seen than were recorded.
AccountsTypeOK ==
    /\ rows \in [Ids -> Rows \cup {NoRow}]
    /\ edits \in [Editors -> Requests \cup {Idle}]
    /\ ordered \in [Ids -> [Flags -> BOOLEAN]]
    /\ excused \in [Ids -> SUBSET Flags]
    /\ readings \in [Ids -> SUBSET Readings]
    /\ now \in Nat /\ picks \in Nat /\ edited \in Nat
    /\ spent \subseteq Ids /\ masked \subseteq Ids
    /\ last \in Ids \cup {NoRow}
    /\ reserved \in [Ids -> Nat]
    /\ routes \in [Routers -> Selections \cup {Idle}]
    /\ \A r \in Routers : routes[r] # Idle => routes[r].seen <= picks

\* What the operator last ordered about an account stands: an account drained
\* stays draining and one disabled stays disabled through any later requests,
\* until one says otherwise.  The exceptions are fields whose order the last
\* write did not know of: because it came after the write's request had read
\* the row, because a drain or a resume went on from a read that failed, or
\* because the account was created again over its row.  An order is excused
\* only for the field concerned, and no longer than until a write that read
\* the row with it, or gives it anew.
OrdersStand ==
    \A a \in Ids, f \in Flags :
        f \notin excused[a] => RowOf(a)[f] = ordered[a][f]

\* The local count beside a provider's figure says less than the limit.
Undercounted(a) == Of(a, "log") # {} /\ Latest(a, "log").used < Limit

\* No selection rests on an account the operator has taken out, nor on one
\* whose provider last said it is used up, whatever mode it asks for and
\* whatever mode it falls back to.  The exceptions are the fields OrdersStand
\* excuses, a provider's reading hidden by its one before, whose time fell on
\* the whole second of the same second, and one beside a local count that is
\* below the limit.
RestedAccounts ==
    [][\A r \in Routers :
          routes[r] = Idle /\ routes'[r] # Idle =>
             LET a == routes'[r].account
             IN  /\ "enabled" \notin excused[a] => ordered[a]["enabled"]
                 /\ "draining" \notin excused[a] => ~ordered[a]["draining"]
                 /\ a \in spent => a \in masked \/ Undercounted(a)]_vars

\* The units the selections in flight on an account asked for.
Held(a) == UNION {{r} \X (1..routes[r].estimate) :
                      r \in {q \in Holding : routes[q].account = a}}

\* What is reserved on an account is what the selections in flight on it
\* asked for, whatever the order they are recorded and released in.
ReservedExact == \A a \in Ids : reserved[a] = Cardinality(Held(a))

\* Round robin serves every account it considers before it serves one again,
\* as long as the accounts stay the same and no other selection is recorded
\* between its choice and its record.
RotationFair ==
    \A r \in Pending :
        Undisturbed(r) /\ round.among = routes[r].among
            => routes[r].account \notin round.served

=============================================================================
