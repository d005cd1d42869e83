# TermRouter: a TLA+ verification project

TermRouter (Go, `src/`) is a gateway between clients that speak the OpenAI or
the Anthropic protocol and model providers. It authenticates a client key,
enforces the key's limits, resolves a public model name to a plan of targets,
executes the plan with retries, fallback and circuit breakers, and logs the
request. An administrator's console edits its configuration at run time.

This directory holds specifications of that code, the TLC configurations that
check them on small instances, and proofs, checked by TLAPS, of what matters
most for instances of every size.

## 1. Inventory

Paths are relative to `src/internal/`. `PROJECT.json` lists every component
with its status, and under "hazards" what is hard to test in this code, at its
line.

| component | state | operations | what makes it correct |
|---|---|---|---|
| circuit breaker (`execution/coordinator.go`, `provider_health` in `storage/store.go`) | one row per provider: circuit state, consecutive failures, cooldown | `eligible`, `recordSuccess`, `recordFailure`; each reads and writes whole rows in separate statements, no lock | circuits open only when earned, no provider is locked out, a healed provider's circuit closes, a failing one's opens |
| execution coordinator (`execution/coordinator.go`) | per request: target index, attempt count, last error | `Execute`, `ExecuteStream` | targets in order, bounded calls, no second provider after a commit, a verdict for every request |
| spend admission (`execution/coordinator.go`, `admit`) | reserved USD per key (mutex), `request_log` | `admit`, `reserveSpend`, `releaseSpend` | reservations exact; completed, reserved and new spend within the budget |
| per-key limiter (`api/middleware/limits.go`) | rate windows, running and reserved counts per key (mutex) | `checkRPM`, `acquireConcurrency`, `checkDaily`, `reserve`, deferred releases | counts exact on every path; quota, rate and concurrency limits hold |
| global guard (`api/middleware/chain.go`) | a semaphore | `GlobalConcurrency.Middleware` | slots are the requests inside, within its size |
| authentication and key policy (`api/middleware/auth.go`, `policy.go`) | failed attempts per address | `Auth.Middleware`, `AuthorizeModel`, `ApplyRequestPolicy` | a request is served under the key that authenticated it and within its policy |
| gateway endpoints (`api/openai`, `api/anthropic`) | none of their own | parse, authorise, resolve, execute, stream, log | one log row per executed request; nothing a client said is lost on the way |
| server lifecycle (`app/server.go`) | current configuration and handler (RW mutex) | `Reload`, `Handler`, `Start`, `Shutdown` | reload and shutdown lose no request |
| route resolver (`router/resolver.go`) | configuration | `Resolve` and the plans | only enabled providers, the strategy the operator configured |
| task classifier, profiles (`smart/classify.go`, `profile.go`) | layers of profiles in the configuration | `Classify`, `ResolveDetailed`, put, reset | the same request is classified alike; an override hides what lies below it |
| smart engine, affinity (`smart/`) | session pins, decisions | `Select`, `AttemptPlan`, `ApplySmart` | hard requirements are never overridden; shadow mode changes nothing (it does: `MCShadow`); a session stays on its target |
| self-assessment (`smart/assessment_service.go`) | assessment rows, running goroutines | `Start`, `Execute`, the run, `Cancel`, `ApplyProposal` | every row is accounted for; a proposal is whole; what is applied can be traced |
| external evidence (`smart/external/`) | runs, evidence, proposals | search, match, aggregate, review, import | only evidence about the configured model is imported |
| account quota and rotation (`quota/`, `console/api_accounts.go`, `cli/quota.go`) | account rows, readings, reservations, rotation state | `Select`, `ReleaseReservation`, orders, refresh, windows and forecasts | orders stand; no used-up or drained account is selected; rotation is fair |
| token optimization (`optimization/`) | none between requests | `ResolveMode`, `Process` | no mode loses what it may not lose; what is lost is declared |
| console configuration (`console/bridge.go`, `api_*.go`, `config/`, commands in `cli/`) | config file and its temporary file, history, running configuration | `applyMutation`, rollback, `Save`, `Load` | references closed; the file whole; file, history and runtime agree |
| console sessions (`console/auth.go`) | bootstrap token, sessions | bootstrap, validate, logout | one session per token |
| credential vault (`credentials/manager.go`) | a map in each manager, key file, encrypted file, keyring | `NewManager`, `Store`, `Remove`, `saveVault` | every configured provider has its secret; a damaged vault is refused |
| storage and migrations (`storage/`) | SQLite, one connection | statements, migrations | a migration that stops halfway can be repeated |
| provider adapters (`provider/`) | none | encode, decode, `ClassifyError` | each tool result reaches the provider after its call |
| normalization, LUI, observability, command line, web, deploy | none, or one process at a time | | |

### How they interact

    request -> auth -> global guard -> limiter -> endpoint handler
                                                   | resolver, smart engine: a plan
                                                   v
                                      coordinator: admit, then per target
                                      eligible -> call -> recordSuccess / recordFailure
                                                   |
    request_log row <- endpoint handler <----------+      (then the deferred releases)

* Requests are goroutines. They meet in the limiter's, the guard's and the
  coordinator's counters, and in the rows of `provider_health` and
  `request_log`.
* `Server.Reload` builds a new limiter, guard and coordinator and publishes
  them under `Server.mu`; a request keeps the ones it arrived with. Only the
  database is shared between these generations.
* Routing happens between authentication and the coordinator: the handler a
  request met resolves its name to a plan, with the provider states its smart
  engine copied when the handler was built.
* The console, the commands and the assessment service share the configuration
  file, the vault and the database, in processes of their own.

### Hard behaviours

Unlocked read-modify-write of the health rows. Checks and reservations that are
separate critical sections (`checkDaily`/`reserve`, `admit`/`reserveSpend`).
Store calls made with the request's context, so that a deadline or a
disconnect loses what they would have written. Ignored write errors. A reload
with requests in flight. Deferred releases at different depths of early
returns. Records written by a background run and a cancellation at once.
Configuration written by several administrators and commands without a lock,
through one temporary file. A vault that every manager reads once and writes back
whole. Rows that are read, changed and written back whole by requests that
overlap (assessments, accounts). Provider states and pins used long after they
were taken. Maps iterated to break ties. A conversation that is rewritten, trimmed
and re-encoded on every turn.

## 2. Modules

| module | models | extends |
|---|---|---|
| `CircuitBreaker` | `eligible`, `recordSuccess`, `recordFailure`, the health rows | |
| `OrderedFailover` | abstract: what a caller of the coordinator relies on | |
| `Coordinator` | `Execute`, `ExecuteStream` over the breaker | `CircuitBreaker` |
| `Admission` | guard, limiter, log row, reload | |
| `SpendBudget` | `admit` and its reservations, inside the handler | `Admission` |
| `ConsoleConfig` | handlers and commands that change the configuration, `Load`, `Validate`'s references, `Save`, history, reload, the vault's names | |
| `Vault` | managers, key file, vault file and keyring, deaths and failed writes | |
| `Classifier` | `Classify`: scores, thresholds, confidence, hard needs | |
| `SmartEngine` | profiles of candidates, `FilterCandidate`, ranking, fallback order | `Classifier` |
| `Routing` | from key to plan: `Auth.Middleware`, key policy, `Resolve`, `Select`, `ApplySmart`, pins, reload | `SmartEngine` |
| `Profiles` | layered resolution, merge and reset | |
| `Evidence` | identity matching, selection and caps of evidence, proposals | |
| `Assessment` | runs, `Cancel`, `ApplyProposal`, imports, overrides and their saves | `Profiles`, `Evidence` |
| `Optimizer` | parsers and encoders of both protocols, messages; `Process`: what each stage keeps, drops or replaces | |
| `Pipeline` | a conversation through parsing, optimization, attempts and answers | `Optimizer` |
| `QuotaWindows` | utilization, status, forecast, calendar windows | |
| `Accounts` | account orders, readings, `AccountSelector` | `QuotaWindows` |
| `*Proofs` | theorems about the module they are named after, and those it is built with | |
| `MC*` | instances for TLC | |

### From code to model

**CircuitBreaker.** `health[p]` is the row of provider `p`. A caller is a request
goroutine. Because the code reads a row and writes it back in another
statement, each such pair is two actions with the row read kept in `seen[c]`:
`Admit` (the read in `eligible`) and `Probe` (its half-open write), `CallFails`
(the read in `recordFailure`) and `CountFailure` (its write). `recordSuccess`
writes without reading, one action. `CallUncounted` is every outcome that
`recordFailure` returns from at once; `ContextEnds` is the end of the request's
context, which makes the pending statement fail. `storeOK` is whether the
database answers: reads that fail make a provider eligible and a failure count
start from an empty row, writes that fail are ignored, as in the code.

**Coordinator.** Adds to a caller its request `req[c]`, the target index `i[c]`, the
targets it called `path[c]` (whose length is `attemptNum`) and its `verdict[c]`.
Each action that touches the breaker is conjoined from an action of
`CircuitBreaker`. `Execute` and `ExecuteStream` differ in `InBudget` (only the
first has a budget), `Retries` (only the first retries a target) and `WalksOn`
(where the strategy stops it).

**Admission.** A request walks through `pc[r]`, one place per critical section of
the limiter's mutex, statement of the store, or deferred release. `gen[r]` is
the guard and limiter (the generation) it arrived in. `Handle` stands for the
handler, which ends with the log row.

**SpendBudget.** Refines what happens while `pc[r] = "handling"`: `spend[r]` walks
through `admit`'s pricing gate, usage read, comparison and reservation.
`RecordedCost` is 0 because `logRequest` fills in neither model nor tokens,
and `UsageForKeySince` prices only rows that have a model; `Total` adds up costs,
which are whole units here, by counting the units.

**ConsoleConfig.** An actor is a request the console serves or a command in a process
of its own; `pc[a]` walks through the handler: `check` (its own look at the file),
`vault`, `remove`, `store` (a credential manager made for the write), `load`
(`applyMutation`'s second load, the change and `Validate`), `open`, `write`,
`rename` (`Save`), `record` (history), `reload`. `copy[a]` is the configuration in
its hands. A configuration is reduced to what `Validate`'s references are about.
`tmp` is the one `config.yaml.tmp` of all savers; `at[a]` says where the file that
an actor opened under that name is by now, since a rename moves it under the
descriptor. `Restart` is the death and restart of the process with console and
gateway, `Killed` of a command. `why` is a history variable of the incidents so
far, so that a property can say which of them it survives.

**Vault.** An actor is a console write or a command (`Writer`) or the gateway; each
makes a manager of its own. `pc[a]` walks through `initVault` (`key`, `cut`, `fill`),
`loadVault` (`load`), the encryption and truncation (`save`) and the bytes
(`write`), since `os.WriteFile` cuts a file before it fills it; `ring` is the
keyring backend's attempt before `storeVaultFallback`. `edits[a]` is what the
operation still writes: setting a credential is a `Remove` and a `Store`. A file is
`None`, `Empty`, `Torn`, or sealed under a key. `Die` is a death or a failed write at
any place, `refs` is what the configuration says of each provider's credential.

**Classifier, SmartEngine, Routing.** A request `r` walks through `place[r]`: `arrived`,
`known` (authenticated under the row `as[r]`), `chosen` (the engine's choice),
`planned`. It keeps the handler it met, `via[r]`: a configuration and the provider
states copied then. Every handler's refusal is a return to `idle`. Keys,
pins and decisions are in the database; a reload, an edit of the key, a circuit, a
credential and an expiring pin are actions of their own. A request is the set of
signs the heuristics look for; `Classify` computes scores and confidence from them
exactly. The weighted score of a candidate is a given number (`Score`), and so is
its fit: their weights are not computed, everything that decides on them is.
`Ranked` gives the sorted candidates by how many are ahead of each, and `Only` what a
filtering loop keeps of a list.
`AffinityContext` is the context of the pins' store: `cancelled` is what the code
leaves, `live` is what the comment in `smart/store_affinity.go` asks of a caller.

**Profiles, Evidence, Assessment.** `stage[a]` is where the goroutine of run `a` is,
`mine[a]` its own copy of the row, which it writes back whole after every
category; `place[s]` is where a request or a command is in `Cancel`, `ApplyProposal`,
an import, a put or a reset, with the row and the configuration it has read in its
hands. `Restart` kills every run and request of the console, `CommandEnds` the run
of a command. Because each request makes a service of its own, `Cancel` never
finds the run it is to cancel, and the model has no branch for that. `MarkApplied`
stores what an apply of a selection leaves of the proposal: the code's copy shares
its map of capabilities with the record, so what is not selected is deleted there
too. `dropped` is a history variable of those deletions. A question's
answer is the outcome of its category; scores are left out. `Evidence` decides
which findings a proposal may count, and why it must be reviewed; `Counted` states
what the loop over the findings ends with: each is let in while source and family
have room for it among those let in before.

**Optimizer, Pipeline.** A message is a role and blocks; a text is what it
says and what a stage may do to it: its noise (colours, white space, repeated
lines) and the mark of deduplication. `Optimized` is parsing and `Process` in one
step, as one request runs them; `Attempt` encodes for a provider of either
protocol, `AttemptFails` leads to the next. `Encode` keeps the two encoders'
asymmetries: the OpenAI one sends the last block of a tool message, the Anthropic
one only its results. Two assumptions are made of clients: they number their tool
calls without repetition, and an Anthropic result that is an array of blocks counts
as one text. `Only` is what a filtering loop keeps of a list, in its order.
`Process` composes the six stages in the order of `NewEngine`, each by `Stage`
(`Supports`, a copy, `Commit`). Token estimates are weights. `Saving` is how many
characters a text gets shorter by when its repeated lines are collapsed, which may
be none or negative: `CompactLogs` rewrites it all the same, and records a loss only
when the messages together `Pay`.

**QuotaWindows, Accounts.** Each order of the console is a read (`ReadRow`, or
`MissRow` when it fails and the handler goes on) and a write (`WriteRow`, of the
whole row). `Create` writes a fresh row over whatever is there: its body names
neither flag, so it orders nothing about them. `ordered` is a history variable of what
the operator last said of each flag, `excused` of the flags the last write did not know
the order about, `edits[e].doubt` of those a request's copy may have wrong. A selection is `Choose` under one lock section and `Record` under the
next, `Release` when its caller is done. Readings carry their time; the latest is
the one whose text is the greatest (`TextOf`), as SQLite compares them, of each
definition: the provider's under the one its headers give it, the local count under
none. `Merged` puts the two into one window as `snapshotsToWindows` does, in either
order, since the query does not say which of them comes first: use and age are the
later row's, a limit seen in either stays.
`QuotaWindows` holds the arithmetic as operators: windows, statuses, forecasts and
calendar resets. Two things are external. No code in `src/` calls `Select` outside
tests, so the model's caller follows those and gives it the windows the console shows;
and nothing in `src/` stores the windows that headers are turned into
(`ObservationsToWindows`), so `ProviderReads` is what such a caller would store.

Where a definition is preceded by a variant with a longer name
(`ElapsedNever` before `Elapsed`), the variant is a plausible defect; putting it
in the definition's place violates the property PROJECT.json names for it.

## 3. Runs

| run | question | instance | result |
|---|---|---|---|
| breaker | does the unlocked breaker keep its promises? | 1 provider of any mood, 2 callers, threshold 2, cooldown 1 tick, failing store; 15 thousand states | holds |
| admission | are guard and limiter exact, how far is a quota overrun? | 4 requests of one key, concurrency 2 that the operator may lower to 1, quota 1, guard 3, 1 reload, 1 midnight; 1.07 million states | holds |
| spend | the same for spend, with rate windows and an edited limit; is the gateway an Admission? | 2 requests, budget for one at a time; 46 thousand states | holds |
| coordinator | ordered failover and correct use of the breaker | 1 caller, 2 providers, fallback (3 targets), stream and direct plans; 33 thousand states | holds |
| outage | do fallback requests recover with a provider? | 2 callers, 2 providers, fallback plans; 302 thousand states | holds |
| console | what do file, history, gateway and vault keep to each other? | 2 console requests, 1 command, 3 changes of one provider, route and alias, rollback, deaths, failing database; 1.6 million states | holds |
| vault | are the stored secrets still there, and is a damaged vault refused? | 2 writers, 1 gateway, 2 names, 2 secrets, 4 operations, both backends; 320 thousand states | holds |
| routing | what may a plan consist of, whatever changes between its steps? | 2 requests, 3 targets, 3 configurations, 2 policies of one key, 1 session, 2 turns of the environment; 738 thousand states | holds |
| assess | are runs accounted for, values traceable, overrides kept? | 1 run, 1 proposal, 2 categories, 2 requests and 1 command, 3 requests; 789 thousand states | holds |
| pipeline | what may be missing from what a provider gets? | conversations of 5 messages and their results, 2 calls an answer, 2 attempts, 3 configurations; 819 thousand states | holds |
| accounts | do orders stand, is no exhausted account selected, are reservations exact, is rotation fair? | 3 accounts of which 1 gets orders and 1 readings, 2 editors, 2 callers; 4 orders, readings and selections together; 513 thousand states | holds |
| overspend | coordinator.go:339-340: spend stays within the budget | 3 requests, one at a time | violated |

### What the passing runs show

* *Breaker.* Although concurrent failures overwrite each other's counts, and a
  stale half-open write may overwrite a newer row, no row is stored open
  without a cooldown (`OpenIsEarned`), so `LockoutEnds` holds; a healed provider's
  circuit closes for good once the stale writes have drained
  (`HealedProviderCloses`), and one that keeps failing trips again and again
  (`FailingProviderTrips`).
* *Admission.* The counters match the requests on every path, for every
  interleaving. The daily quota can be overrun, but by less than the key's
  highest concurrency limit times the number of generations (`OvershootBounded`), and not at all
  while no two admissions of the key overlap (`QuotaExactUnlessRaced`), which is
  why `checkDaily` reads the reservations before the log and not after it.
  `raced` is a history variable that exists to state this.
* *Spend.* Reservations are exact and end with their request; two requests
  overrun the budget only when one compares between the other's comparison and
  reservation, or after a reload. `AdmissionSpec` as a property shows that nothing
  in the handler disturbs the middleware around it.
* *Coordinator and outage.* The walk implements `OrderedFailover`, including that
  every request comes to a verdict; it calls at most one target more than its
  budget says (`AttemptsCapped`; the budget is not checked before a retry); and
  after an outage fallback requests stop failing (`FailoverMasksOutage`).

* *Console.* The dependency checks of the handlers read another copy than the one
  that is saved, so two handlers can each approve what together leaves a dangling
  alias; the `Validate` on the saved copy refuses it, whatever races
  (`ReferencesClosed`). A death at any step of `Save` leaves a whole file
  (`WholeFile`). With changes one at a time, the gateway runs what the file holds
  and the last revision is the file (`RuntimeFollowsFile`, `HistoryEndsWithFile`),
  also after a rollback or a death; and a provider keeps its secret
  (`SecretsKept`) unless one of five named incidents happened. Each exception is
  needed: without it TLC finds a counterexample.
* *Vault.* Four operations by managers that each rewrite the whole file: as long as
  no two overlapped and nobody died with a file cut, the vault opens under the key
  on disk and holds exactly what the configuration refers to (`StoredSecretsKept`).
  A damaged vault is never taken for an empty one (`DamageRefused`) while
  operations do not overlap, whoever dies where. `why` names the incidents.
* *Routing.* Every target of a live plan meets the request's hard needs, on every
  attempt and through pins made for another task or configuration
  (`LivePlansSuit`); the only exemption is the default of an unsure classification.
  Whatever the key's row has become by then,
  a request keeps to the row that authenticated it (`WithinKey`).
* *Assessment.* An unfinished row has a living run, and a finished one whole results,
  unless a process died, a command ended or a write failed (`RunsAccounted`); a
  proposal that was applied may have lost what was not selected, and nothing else.
  Every applied value comes from an applied row, which proposes it or did until a
  later selection deleted it, or a recorded import whose
  evidence was published under the configured id or claims no variant the
  configured model does not have (`Traceable`). An override
  is lifted only by an operator or by a save of an older configuration
  (`OverridesHold`).
* *Pipeline.* A tool result reaches the provider after its call through trimming,
  rewriting and both encoders, unless a later block crowds it out of an OpenAI
  message (`ResultsReachUnlessCrowded`). What is lost was allowed by server and key
  when the request was optimized, and is declared (`LossDeclared`), with one exception:
  repeated lines collapsed where that saves no characters over all messages.
* *Accounts and rotation.* An order is undone only by a request that read before it,
  by a drain or resume whose read failed, or by an account created again over its
  row, which silently takes it back into service (`OrdersStand`). Each excuses its own
  field, and until a write that knows of the order. No mode and no fallback selects a
  disabled, drained or used-up account, but for those fields, a reading hidden by an
  earlier one of the same second, and one beside a local count below the limit
  (`RestedAccounts`); reservations are exact (`ReservedExact`); a round robin
  without overlaps serves everyone before anyone twice (`RotationFair`).

### What the violated run shows

*overspend.* Completed requests cost nothing in the log (`logRequest` fills in neither
model nor tokens, and `UsageForKeySince` prices only rows that have a model), so a
key that sends one request at a time is never refused.

### Counterexample configurations

The following configurations are not among the runs. Each checks one property that
a document or a comment suggests, and `tlc -config <file> <module>` shows in a short
behaviour where the code does something else. They document the exceptions that the
properties of the runs name.

| configuration (module) | suggested by | what the behaviour shows |
|---|---|---|
| `MCQuotaRace` (`MCAdmission`) | `api/middleware/limits.go:26-28` | two requests pass `checkDaily` before either calls `reserve` |
| `MCDirect` (`MCCoordinator`) | `execution/coordinator.go:175` | a direct plan with two targets goes to the second when the first one's circuit is cooling |
| `MCConfigTorn` (`MCConsoleConfig`) | repository `README.md:1409` | a saver truncates `config.yaml.tmp` between another's write and rename: an empty file is installed |
| `MCVaultUnseen` (`MCConsoleConfig`) | `console/server.go:43` | a provider is added with its key in the vault; the reloaded gateway's manager, which read the vault at start, does not know it |
| `MCFallback` (`MCVault`) | `docs/adr/0001-stack-and-storage.md:25` | a credential stored in the vault while the keyring is unavailable: a gateway with the keyring backend reads no vault |
| `MCLossless` (`MCPipeline`) | `optimization/types.go:16`: "Lossless means no information was removed or altered in meaning" | a tool message whose only repetition is short gets longer when it is collapsed ("ok\nok" becomes "ok  (x2)"): `logCompactOptimizer` rewrites it, but records its action only when characters were saved, and the loss class is the worst of the recorded actions |
| `MCShadow` (`MCRouting`) | repository `README.md:611`: shadow mode does not change live traffic | `Select` runs before the default is taken: when no candidate is eligible the request is answered 503, although the route's default, which would have served it with smart routing off, is enabled and healthy (an unknown policy in a header does the same with 404; the property leaves that out, as the client asked for it) |
| `MCTies` (`MCRouting`) | `smart/classify.go:191` | two types of task score alike, the order of a map decides, and one request gets two plans |
| `MCSession` (`MCRouting`) | repository `README.md:632` | with the context as the code leaves it no pin is ever stored, and a session's next request goes elsewhere |
| `MCCancel` (`MCAssessment`) | `smart/assessment_service.go:938` | the run goes on after `Cancel` and writes its own copy over the cancelled row |
| `MCDuplicates` (`MCPipeline`) | `optimization/compact.go:114-115` | the sources deduplication marked are forgotten between stages, and trimming deletes one that a reference names |

### What the models record besides

Facts met while modelling that no property is about: `InsertOptimizationRecord` names
31 columns for 29 placeholders, so every insert fails and no record is kept; evidence
is stamped with a fixed date and never found in the cache; no handler clears an
assessment's mandatory review; the weighted round robin looks its last pick up at
its first place and stays with an account of weight above one; a local count of
quota takes the place of the provider's in the merged window, which keeps the
provider's limit: an account used up elsewhere looks free.

### Bounds, and why they are enough

* `MaxCount`: a failure count is only compared with `Threshold`, so counts above
  it behave alike. Threshold 2 in `MCBreaker.cfg` lets counts be lost and stale
  below it; threshold 1 in `MCCoordinator.cfg` and `MCOutage.cfg` opens circuits soon, the
  paths through the plans being the question there.
* `Cooldown = 1`: cooling, elapsed and aged copies all occur; a tick is any part of
  30 s.
* Two callers: one reads while another writes; a property here relates two
  callers at most.
* Four requests in `MCAdmission`: with concurrency 2, two generations and quota 1
  the bound of `OvershootBounded` is 4, and it takes four requests to reach it.
  Quota 1 and one key: counters of different keys never meet.
* `MaxReload = 1`, `MaxDay = 1`: one old and one new generation, one midnight between
  any two steps. `MCSpend` uses 2 requests and no midnight, and adds what
  `MCAdmission` leaves out: a rate limit, a concurrency limit that is set and
  lifted again, no guard.
* `MCConsoleConfig`: one provider, route and alias suffice, as an entry of each kind
  can refer to one of the next; three actors with three changes let two race
  while a third reads what they leave, and let a provider be used, deleted and
  restored. `MaxChanges` bounds the history too.
* `MCVault`: two writers and four operations let one set, one drop and two more race
  or follow; two names tell a lost entry from a lost vault.
* `MCRouting`: three targets (one sees, one scores higher, one is known by a profile
  name only) and four candidates make pins, filters and fallback orders differ; two
  requests so that one sees what the other left. `MaxTurns` bounds the changes of
  the environment, `MaxFailures` the throttle.
* `MCAssessment`: one run and one proposal of one model, as rows of different runs
  meet only in the profiles; of two categories one has a test; two requests and a
  command overlap, three requests in all.
* `MCPipeline`: the window (`TriggerTokens`, `TargetTokens`) is exceeded by two turns
  with tools, so that trimming has something to cut and something to keep. Of the two
  texts with repeated lines one gets shorter by them and one longer, and a turn may hold
  both, so that the one pays for the other or does not.
* `MCAccounts`: three accounts, as a round robin of two cannot skip one; one gets orders
  and another readings, so that both meet in the selection; half seconds around one
  whole second. `Bounded` lets requests, readings and selections be `MaxWork` = 4
  together: three orders (one to be forgotten, one that read before it, one more to
  follow either) and a selection; or three readings (two of the provider, one of the
  log) and a selection; or a round of three and one pick more.
* Symmetry is used where only invariants and safety properties are checked, and
  never under a liveness property.

### Fairness

* `FairBreakerSpec`: each caller's next step is weakly fair (goroutines run, calls
  return), so is the clock; that some request tries each provider again and
  again is strong fairness of `Admit`, since circuits refuse in between. It is the
  assumption "traffic does not dry up", without which nothing probes a circuit;
  it is stated only for the breaker by itself.
* `FairSpec` of the coordinator: each caller's step, and the clock. No request
  need arrive. A call always ends because its context has a deadline
  (`server.go:80-83`, 180 s unless configured).
* The other modules state no fairness: their properties say what a step or a state
  may never be. A goroutine of an assessment need not run on, a client need not
  continue its conversation.
* Nothing is assumed of providers, store, operator or reload. Properties that
  need a provider to answer say so as a premise (`<>[]`).

## 4. Proofs

Constants are arbitrary, under the `ASSUME`s of the modules (naturals, finite sets
of requests, `MaxCount >= Threshold`, plans not empty; for the pipeline, that nobody
says a text deduplication has marked and that modes are those of the code).

* **`CoordinatorProofs`.** First the breaker: `BreakerTypeOK` and `OpenIsEarned`.
  `OpenIsEarned` is not inductive: `Probe` writes `seen[c]` half open, so it needs that
  the copy a probing caller holds is an open one (`ProbingHoldsOpen`). With it each
  action preserves all three. Then `CoordinatorImplementsBreaker`, and through it
  the breaker's invariants; `CoordTypeOK`, `AttemptsCapped`, `DirectStaysPut`; and
  `CoordinatorFailsOverInOrder`, the safety part of `FailoverSpec`. The
  strengthening has three parts: `WalkOK` (the path's last element is the current
  or an earlier target, and which ones may repeat), `CapOK` (how many calls may
  have been made in each phase) and `StayOK` (a plan that is no fallback is still
  at the target it called).
* **`AdmissionProofs`.** Of `Admission`: `AdmissionTypeOK`, `ReservedExact`, `ConcurrencyHeld`, `GuardHeld`,
  `RateAcrossReloads`, `QuotaExactUnlessRaced` and `OvershootBounded`.
  Type correctness alone is not inductive (`ReleaseSlot` subtracts without a
  guard), so the counters' exactness is part of the induction, together with
  `LimitsKept`: a key's row, and each request's copy of it, holds one of the
  limits the key may have. The counting argument is in four lemmas: `MoveOne`,
  `Recount` and `CountedOnce` say how the cardinality of the requests at a set of
  places changes when one request moves, and `ReservationSteps`,
  `ConcurrencySteps` and `GuardSteps` apply them once per kind of step.
  The rate across reloads is a bound per limiter (`WindowHeld`) times the limiters
  there are (`ByClasses`, a pigeonhole lemma). The two quota theorems follow a key's
  `Load`, its rows of the day and the admitted requests that will write one: only an
  admission adds to it. While admissions do not overlap, what was seen of the
  reservations and the rows, read in that order, bounds the load (`Unraced`); when
  they do, the load passes the quota by fewer than the requests that run
  (`RunningBounded`).
  Of `SpendBudget`: `GatewayImplementsAdmission`, each step of the gateway is a step of
  `Admission` or leaves its variables alone, `EndHandler` being a `Handle`. So
  the counters' theorems carry over (`GatewayKeepsCounters`), and on the exact
  reservations rest `SpendReservedExact` and `SpendExactUnlessRaced`, by
  `Undisturbed`: while no comparison fell between another's comparison and its
  reservation, at most one request of a key has compared and not reserved, and the
  budget covers it too. A sum over requests is the size of the set of its units
  (`Total`, `Units`), which makes it a fact about finite sets.
* **`ConsoleConfigProofs`.** `ConfigTypeOK`, `ReferencesClosed`, `WholeFile`,
  `RuntimeFollowsFile`, `HistoryEndsWithFile` and `SecretsKept`, for any
  sets of requests, commands, entries and changes. `Typed` adds to the type what
  an actor holds in each place. `AllValid` adds to `ReferencesClosed` that a copy
  is valid from `Validate` to the end of the change, and that `path.tmp` is, since a
  rename may move another saver's file. `OneSaver` is what `WholeFile` rests on:
  until two saves share `path.tmp` at most one is between truncation and rename,
  and `path.tmp` is its file, empty before its write and whole after. The last three
  speak of changes that do not overlap: `Serial` says that then one actor at most is
  under way and that what it renamed is its copy, `Followed` and `Chronicled` where
  gateway and history may lag behind the file. `Guarded` is the invariant behind
  `SecretsKept`: between the handler's look at the dependencies and the end of the
  change the file stays the one looked at (`Holding`), and a secret is missing only
  while the one actor that took it is about to store another or to delete the
  provider (`Withdraws`).
* **`VaultProofs`.** `VaultTypeOK`, `DamageRefused` and `StoredSecretsKept`, for any
  writers, names, secrets, backends and numbers of operations. `Typed` says what a
  writer holds in each place, `Alone` that without an overlap one writer is under
  way and nobody got past a damaged vault. `Shaped` says that what is left to
  write leads to what was asked for. `Kept` is the invariant behind
  `StoredSecretsKept`, which speaks of quiet moments only: `Whole` follows key and
  vault through cut and fill, `Agreed` says that the file, or the map about to
  replace it, agrees with the references for every name but the one under way.
  `Focus` and `KeptByOne` reduce both to the one writer that moves; each action
  then has a lemma.
* **`AccountsProofs`.** `AccountsTypeOK`, `OrdersStand`, `RestedAccounts`,
  `ReservedExact` and `RotationFair`, for any accounts, tables, requests, readings and
  callers. `OrdersStand` needs `Reads`: a
  request's copy shows what was ordered about every field it is not in doubt of, with
  the account that has no row standing for a fresh one. It is what makes a late
  write excusable only for the orders that came after its read. `RestedAccounts` needs
  in addition that a used-up account that is not masked has that reading as its
  latest provider's (`ReadInv`; `Texts` is the lemma about how half seconds print), that
  the merged window then shows it used up unless the count beside it is below the limit
  (`SpentIsUsedUp`), and that
  every mode picks one of the accounts it considered, which rests on `LeastOf`: the
  `CHOOSE` in `First`, `Latest` and `MostRemaining` finds what it looks for.
  `ReservedExact` counts the sum in units, one block per selection in flight
  (`AddBlock`), and needs them finite (`HeldInv`). `RotationFair` is not inductive: the
  accounts a round has served must be those on the way round the order of ids from
  some account to the last pick, not yet all of them (`OnRound`), and an undisturbed
  selection must hold the account that is still in turn (`TurnHeld`). `WayOn` then says
  that the one in turn is off the way and prolongs it by itself; the run has three
  accounts, the theorem any number.
* **`AssessmentProofs`.** `AssessTypeOK`, `RunsAccounted`, `Traceable` and the action
  property `OverridesHold`, for any runs, models, categories, findings and caps.
  The invariant `AssessInv` ties a run's copy to its row (`RunOK`, `RowOK`: a
  row with a proposal is whole, but for what was dropped, and its run is over), a request to what it has read
  (`PlaceOK`: a row read before its run began is fresh, which is why an older copy
  that `Cancel` writes back does not tear a finished one), and the configuration and
  every copy that a save will start from to the rows and imports its values come
  from (`Traced`). Of the evidence it uses that the caps let in a subset of what is
  eligible (`CapsDecide`) and that an identity matched exactly claims nothing else
  (`ExactClaimsNoOther`).
* **`RoutingProofs`.** `RoutingTypeOK`, `LivePlansSuit` and `WithinKey`,
  for any configurations, keys, requests, candidates, profiles, scores and pins.
  `RoutingInv` says for every place what the request has been through: the handler it
  met, whose view covers the configuration's providers (`HandlerOK`), the row that
  let it in (`AuthOK`), where its choice comes from (`ChosenOK`: a pin that passed
  the filter, the default of an unsure classification, or one of the ranking) and
  that its plan is the one made of them. Two lemmas carry the engine: a ranking
  holds eligible candidates only (`RankedEligible`, by `RanksCover`: in a finite
  strict order every rank is taken), and the attempts are the choice and the
  ranking's targets, each once (`AttemptsFrom`); `AdmissibleSuits` turns the hard
  filter into what the request asked for.
* **`PipelineProofs`.** `PipelineTypeOK`, `ResultsReachUnlessCrowded` and `LossDeclared`, for
  any texts, weights, settings, modes, windows and conversations. None is inductive.
  `HistoryOK` says what a client's history is: calls are the assistant's, numbered
  through, each in one message (`OneCaller`), and a result stands behind its call;
  parsing then gives requests in which every result arrives (`ParsedHistory`). A stage
  either rewrites texts where they stand (`Recast`) or leaves out whole messages;
  `RecastCarries` and `OnlyCarries` show that both keep a result behind its call, and
  the latter is why `PairedMessages` has the result and its caller: with one caller
  for each call, the last message that holds the call is the only one. `OnlyKeeps` is
  the lemma about filtering (order is kept, nothing chosen is missing, by
  counting), which serves the trimming and the encoders. `Carried` is what one stage
  after the other hands on: what arrived arrives, and the meaning is the client's
  or the loss is recorded. Collapsing logs follows deduplication: either that recorded a
  loss already, or the texts to weigh mean what the client's do and weigh as much, so
  that the exception can be stated of the client's (`CompactLogsStage`, `LogsDeclared`); a stage after it that changes anything declares
  it (`LateStageDeclares`). For the meaning deduplication needs that no text is marked
  before it, which holds of what people say and through the two stages ahead of it
  (`Unmarked`). `LossyModes` turns the resolved mode into both ceilings, and
  `ResultOnWire` does the encoders. Nothing is used of `Estimate`: whatever the
  weights, and wherever the trimming loop stops, the theorems hold.

Type invariants that are proved (`BreakerTypeOK`, `AdmissionTypeOK`, `CoordTypeOK`,
`ConfigTypeOK`, `VaultTypeOK`, `AccountsTypeOK`, `AssessTypeOK`) are not repeated in the
runs, except where a run's mutant shows what they exclude (`RoutingTypeOK`,
`PipelineTypeOK`).

Induction over data is not available as a rule (the library's induction theorems
take an operator as a parameter). Where a definition needs it, the models are
written so that it is not needed (a ranking counts who is ahead, a sum counts units),
or the proof takes a least counterexample (`LeastNat`, as in `CapsDecide`).

Model-checked only: liveness (`LockoutEnds`, `HealedProviderCloses`,
`FailingProviderTrips`, `FailoverMasksOutage`, and that every request comes to a
verdict, the liveness part of `FailoverSpec`), which the prover does not cover, nor
`ENABLED`. Every invariant and every action property of the runs is proved.

## 5. Not modelled, and the plan

Left out for good: the two wire protocols' bytes and the SSE framing, the LUI text
format, normalization's types, logging, the regular expressions of the classifier,
the weights of scores, HTML fetching and parsing, the cost tables, the web front end,
the console's read-only pages, deployment scripts. They are text, numbers without
a decision, or pure I/O; no property here would tell right from wrong.

Left out so far:

* *Console sessions*: the bootstrap token is compared outside the lock that clears it,
  and expired sessions are deleted under a read lock. Small, and listed under
  "hazards".
* *Server lifecycle*: `Start`, and `Shutdown`, which holds the write lock while
  requests drain. `Reload` is in `Admission` and `Routing`.
* *Migrations*: they run once, alone, before anything else.
* *Optimization plugins and records*; the quota collector's and scheduler's loops,
  which nothing starts.

Theorems next: none of the runs' invariants is left. What a further property would
need first is a model of what is listed above.
