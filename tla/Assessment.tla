----------------------------- MODULE Assessment -----------------------------
(* Where a model's profile comes from: self-assessment runs                  *)
(* (smart/assessment_service.go, storage/assessments.go), external proposals *)
(* (smart/external/service.go, storage/external.go), the operator's          *)
(* overrides, and the handlers and commands that write all three into the    *)
(* configuration (console/api_assessment.go, api_external.go, api_models.go, *)
(* cli/model_profile.go, model_external.go).                                 *)
(*                                                                           *)
(* A run is a goroutine of the process that started it.  It keeps its own    *)
(* copy of the record and writes the whole row at each step; Cancel and      *)
(* Apply read the row, change their copy and write the whole row too.  Each  *)
(* request makes a service of its own (getAssessmentService), so neither     *)
(* Preflight nor Cancel ever finds a run in activeRuns: a run's context is   *)
(* never cancelled, and the branches that look at it are not modelled, nor   *)
(* are those for a service without coordinator or provider, which Preflight  *)
(* and the only constructors' callers exclude.  The assessment commands      *)
(* other than run pass a nil context to the store and panic there.           *)
(*                                                                           *)
(* The configuration is its profiles; how the file itself is written is      *)
(* ConsoleConfig's subject, here a load and a save are one step each.        *)
EXTENDS Profiles, Evidence

CONSTANTS Run,          \* assessments that may be started
          Proposal,     \* external proposals that may be built
          Manual,       \* the value an operator's override gives
          Console, Cli, \* requests; commands in processes of their own
          ModelOf,      \* ModelOf[x]: the model of a run or proposal
          Tested,       \* the categories categoryTests has a test for
          Findings,     \* what a search may find: sequences of evidence
          Identity,     \* the configured identity
          Ops,          \* the requests to be made, see Op
          MaxRequests   \* bound: requests begun

Actor == Console \cup Cli

Status == {"pending", "running", "completed", "partial", "failed", "cancelled"}
Result == {"pending", "running", "good", "zero", "failed"}

Row == [status: Status, cats: [Field -> Result],
        proposal: (SUBSET Field) \cup {None},  \* capabilities it proposes
        applied: (SUBSET Field) \cup {None}]

Op ==
         [do: {"cancel"}, on: Run, fields: {{}}]
    \cup [do: {"apply"}, on: Run, fields: SUBSET Field]      \* {}: all of them
    \cup [do: {"import"}, on: Proposal, fields: {{}}]
    \cup [do: {"put"}, on: ProfileId, fields: (SUBSET Field) \ {{}}]
    \cup [do: {"reset"}, on: ProfileId, fields: {{}}]

ASSUME AssessmentAssumption ==
    /\ Console \cap Cli = {}
    /\ Value = Run \cup Proposal \cup {Manual}
    /\ None \notin Value \cup Findings /\ None \notin Row
    /\ \A fields \in SUBSET Field : fields # None
    /\ \A found \in Findings :
          /\ Len(found) \in Nat /\ DOMAIN found = 1..Len(found)
          /\ \A i \in DOMAIN found : found[i].capability \in Field
    /\ ModelOf \in [Run \cup Proposal -> ProfileId]
    /\ Tested \subseteq Field /\ Ops \subseteq Op /\ MaxRequests \in Nat

VARIABLES
    rows,      \* model_assessments
    stage,     \* where the goroutine of a run is, "none" when there is none
    mine,      \* its copy of the record
    cur,       \* the category it is asking about
    home,      \* the actor whose process it runs in
    offered,   \* external_profile_proposals: what each one proposes
    review,    \* the proposals flagged for mandatory review
    basis,     \* the findings a proposal was built from (history only)
    imports,   \* external_profile_imports
    profiles,  \* the configuration's model_profiles
    place, op, snap, copy, begun,
    dropped,   \* what applies of a selection took out of a row's proposal
    why        \* the incidents so far (both history only)
(*   crash  a process died with a run or a request under way                 *)
(*   cli    a command that started a run ended                               *)
(*   lost   a run could not read its row, or not write its verdict           *)
(*   stale  Cancel wrote back a row that had changed since it was read       *)
(*   overlap  a save replaced a configuration newer than the one it loaded   *)

runVars == <<stage, mine, cur, home>>
externalVars == <<offered, review, basis, imports>>
actorVars == <<place, op, snap, copy, begun>>
assessVars == <<rows, runVars, externalVars, profiles, actorVars, dropped, why>>

Stage == {"none", "load", "mark", "pick", "called"}
Place == {"idle", "cancel", "mark", "record", "forget", "load", "save"}
Incident == {"crash", "cli", "lost", "stale", "overlap"}

AssessTypeOK ==
    /\ rows \in [Run -> Row \cup {None}]
    /\ stage \in [Run -> Stage] /\ mine \in [Run -> Row \cup {None}]
    /\ cur \in [Run -> Field \cup {None}] /\ home \in [Run -> Actor \cup {None}]
    /\ offered \in [Proposal -> (SUBSET Field) \cup {None}]
    /\ review \subseteq Proposal /\ imports \subseteq Proposal
    /\ basis \in [Proposal -> Findings \cup {None}]
    /\ profiles \in [ProfileId -> Entry]
    /\ place \in [Actor -> Place] /\ op \in [Actor -> Ops \cup {None}]
    /\ snap \in [Actor -> Row \cup {None}]
    /\ copy \in [Actor -> [ProfileId -> Entry] \cup {None}]
    /\ begun \in 0..MaxRequests
    /\ dropped \in [Run -> SUBSET Field] /\ why \subseteq Incident

AssessInit ==
    /\ rows = [a \in Run |-> None]
    /\ stage = [a \in Run |-> "none"] /\ mine = [a \in Run |-> None]
    /\ cur = [a \in Run |-> None] /\ home = [a \in Run |-> None]
    /\ offered = [x \in Proposal |-> None] /\ review = {} /\ imports = {}
    /\ basis = [x \in Proposal |-> None]
    /\ profiles = [m \in ProfileId |-> NoEntry]
    /\ place = [s \in Actor |-> "idle"] /\ op = [s \in Actor |-> None]
    /\ snap = [s \in Actor |-> None] /\ copy = [s \in Actor |-> None]
    /\ begun = 0 /\ dropped = [a \in Run |-> {}] /\ why = {}

-----------------------------------------------------------------------------
(* The run.                                                                  *)

NewRow == [status |-> "pending", cats |-> [c \in Field |-> "pending"],
           proposal |-> None, applied |-> None]

(* Start, of the console or of model profile assess run; an assessment that  *)
(* preflight refuses leaves nothing behind.                                  *)
Start(a, s) ==
    /\ place[s] = "idle" /\ rows[a] = None
    /\ rows' = [rows EXCEPT ![a] = NewRow]
    /\ stage' = [stage EXCEPT ![a] = "load"]
    /\ home' = [home EXCEPT ![a] = s]
    /\ UNCHANGED <<mine, cur, externalVars, profiles, dropped, actorVars, why>>

Continues(row) == row.status \in {"pending", "running"}

Stop(a) ==
    /\ stage' = [stage EXCEPT ![a] = "none"]
    /\ mine' = [mine EXCEPT ![a] = None]
    /\ cur' = [cur EXCEPT ![a] = None]
    /\ home' = [home EXCEPT ![a] = None]

LoadRow(a) ==
    /\ stage[a] = "load"
    /\ IF Continues(rows[a])
       THEN /\ mine' = [mine EXCEPT ![a] = rows[a]]
            /\ stage' = [stage EXCEPT ![a] = "mark"]
            /\ UNCHANGED <<cur, home>>
       ELSE Stop(a)
    /\ UNCHANGED <<rows, externalVars, profiles, dropped, actorVars, why>>

LoadRowFails(a) ==
    /\ stage[a] = "load"
    /\ Stop(a)
    /\ why' = why \cup {"lost"}
    /\ UNCHANGED <<rows, externalVars, profiles, dropped, actorVars>>

(* UpdateAssessment writes the whole row, and the run ignores its errors.    *)
WriteMine(a, row) ==
    /\ mine' = [mine EXCEPT ![a] = row]
    /\ rows' \in {rows, [rows EXCEPT ![a] = row]}

MarkRunning(a) ==
    /\ stage[a] = "mark"
    /\ WriteMine(a, [mine[a] EXCEPT !.status = "running"])
    /\ stage' = [stage EXCEPT ![a] = "pick"]
    /\ UNCHANGED <<cur, home, externalVars, profiles, dropped, actorVars, why>>

BeginCategory(a, c) ==
    /\ stage[a] = "pick" /\ mine[a].cats[c] = "pending"
    /\ WriteMine(a, [mine[a] EXCEPT !.cats[c] = "running"])
    /\ stage' = [stage EXCEPT ![a] = "called"]
    /\ cur' = [cur EXCEPT ![a] = c]
    /\ UNCHANGED <<home, externalVars, profiles, dropped, actorVars, why>>

EndCategory(a, row) ==
    /\ WriteMine(a, row)
    /\ stage' = [stage EXCEPT ![a] = "pick"]
    /\ cur' = [cur EXCEPT ![a] = None]
    /\ UNCHANGED <<home, externalVars, profiles, dropped, actorVars, why>>

NoTest(a) ==
    /\ stage[a] = "called" /\ cur[a] \notin Tested
    /\ EndCategory(a, [mine[a] EXCEPT !.cats[cur[a]] = "zero"])

(* Every eval scores a response at 1 or more.                                *)
Answered(a) ==
    /\ stage[a] = "called" /\ cur[a] \in Tested
    /\ EndCategory(a, [mine[a] EXCEPT !.cats[cur[a]] = "good"])

CallFails(a) ==
    /\ stage[a] = "called" /\ cur[a] \in Tested
    /\ EndCategory(a, [mine[a] EXCEPT !.cats[cur[a]] = "failed", !.status = "partial"])

Good(row) == {c \in Field : row.cats[c] = "good"}
Failures(row) == {c \in Field : row.cats[c] = "failed"}

Verdict(row) ==
    IF Failures(row) = Field THEN "failed"
    ELSE IF Failures(row) # {} THEN "partial" ELSE "completed"

FinishedGreedy(row) ==
    [row EXCEPT !.status = Verdict(row), !.proposal = Field \ Failures(row)]
Finished(row) ==
    [row EXCEPT !.status = Verdict(row), !.proposal = Good(row)]

Finish(a) ==
    /\ stage[a] = "pick" /\ \A c \in Field : mine[a].cats[c] # "pending"
    /\ rows' \in {rows, [rows EXCEPT ![a] = Finished(mine[a])]}
    /\ why' = why \cup {w \in {"lost"} : rows' = rows}
    /\ Stop(a)
    /\ UNCHANGED <<externalVars, profiles, dropped, actorVars>>

RunStep(a) ==
    \/ LoadRow(a) \/ LoadRowFails(a) \/ MarkRunning(a)
    \/ \E c \in Field : BeginCategory(a, c)
    \/ NoTest(a) \/ Answered(a) \/ CallFails(a) \/ Finish(a)

-----------------------------------------------------------------------------
(* External evidence: a search, and the proposal made of it.                 *)
Propose(x, found) ==
    /\ basis[x] = None /\ Proposed(Identity, found) # {}
    /\ offered' = [offered EXCEPT ![x] = Proposed(Identity, found)]
    /\ basis' = [basis EXCEPT ![x] = found]
    /\ review' = review \cup {y \in {x} : MandatoryReview(Identity, found)}
    /\ UNCHANGED <<rows, runVars, imports, profiles, dropped, actorVars, why>>

Dismiss(x) ==
    /\ offered[x] # None
    /\ offered' = [offered EXCEPT ![x] = None]
    /\ UNCHANGED <<rows, runVars, review, basis, imports, profiles, dropped, actorVars, why>>

-----------------------------------------------------------------------------
(* The requests.                                                             *)
Goto(s, p) == place' = [place EXCEPT ![s] = p]

Return(s) ==
    /\ Goto(s, "idle")
    /\ op' = [op EXCEPT ![s] = None]
    /\ snap' = [snap EXCEPT ![s] = None]
    /\ copy' = [copy EXCEPT ![s] = None]
    /\ UNCHANGED begun

Take(s, o, p, row, config) ==
    /\ place[s] = "idle" /\ begun < MaxRequests
    /\ begun' = begun + 1
    /\ Goto(s, p)
    /\ op' = [op EXCEPT ![s] = o]
    /\ snap' = [snap EXCEPT ![s] = row]
    /\ copy' = [copy EXCEPT ![s] = config]
    /\ UNCHANGED <<rows, runVars, externalVars, profiles, dropped, why>>

(* Cancel and ApplyProposal up to their write of the row.                    *)
BeginCancel(s, o) ==
    /\ o.do = "cancel" /\ s \in Console
    /\ rows[o.on] # None /\ Continues(rows[o.on])
    /\ Take(s, o, "cancel", rows[o.on], None)

BeginApply(s, o) ==
    /\ o.do = "apply" /\ s \in Console
    /\ rows[o.on] # None /\ rows[o.on].status \in {"completed", "partial"}
    /\ rows[o.on].proposal # None
    /\ Take(s, o, "mark", rows[o.on], None)

(* A console handler loads the configuration in applyMutation, when it comes *)
(* to change it; a command has loaded it before anything else.               *)
FirstCopy(s) == IF s \in Cli THEN profiles ELSE None

MayImport(x) == offered[x] # None /\ x \notin review

BeginImport(s, o) ==
    /\ o.do = "import" /\ MayImport(o.on)
    /\ Take(s, o, "record", None, FirstCopy(s))

BeginEdit(s, o) ==
    /\ o.do \in {"put", "reset"}
    /\ (s \in Cli /\ o.do = "reset") => Present(profiles[o.on])
    /\ Take(s, o, IF s \in Cli THEN "save" ELSE "load", None, FirstCopy(s))

CancelRow(s) ==
    /\ place[s] = "cancel"
    /\ rows' = [rows EXCEPT ![op[s].on] = [snap[s] EXCEPT !.status = "cancelled"]]
    /\ why' = why \cup {w \in {"stale"} : rows[op[s].on] # snap[s]}
    /\ Return(s)
    /\ UNCHANGED <<runVars, externalVars, profiles, dropped>>

AppliedFields(row, o) == IF o.fields = {} THEN Good(row) ELSE o.fields

Accepted(s) ==
    IF op[s].do = "apply"
    THEN {c \in snap[s].proposal : op[s].fields = {} \/ c \in op[s].fields}
    ELSE Proposed(Identity, basis[op[s].on])

(* ApplyProposal copies the proposal but shares its map of capabilities, so  *)
(* what is not selected is deleted from the record's proposal as well, and   *)
(* UpdateAssessment stores that.  The handler then merges what is left: from *)
(* here on Accepted is the same set, whether it is taken of the proposal as  *)
(* it was read or as it was stored.                                          *)
MarkApplied(s) ==
    /\ place[s] = "mark"
    /\ rows' = [rows EXCEPT ![op[s].on] =
                   [snap[s] EXCEPT !.applied = AppliedFields(snap[s], op[s]),
                                   !.proposal = Accepted(s)]]
    /\ dropped' = [dropped EXCEPT ![op[s].on] = @ \cup (snap[s].proposal \ Accepted(s))]
    /\ Goto(s, "load")
    /\ UNCHANGED <<runVars, externalVars, profiles, op, snap, copy, begun, why>>

(* Service.ApplyProposal: RecordExternalImport, then DeleteExternalProposal. *)
RecordImport(s) ==
    /\ place[s] = "record"
    /\ imports' = imports \cup {op[s].on}
    /\ Goto(s, "forget")
    /\ UNCHANGED <<rows, runVars, offered, review, basis, profiles, dropped, op, snap, copy, begun, why>>

Forget(s) ==
    /\ place[s] = "forget"
    /\ offered' = [offered EXCEPT ![op[s].on] = None]
    /\ Goto(s, IF s \in Cli THEN "save" ELSE "load")
    /\ UNCHANGED <<rows, runVars, review, basis, imports, profiles, dropped, op, snap, copy, begun, why>>

(* applyMutation loads and, unless its closure refuses, saves; what a        *)
(* proposal offers is read with the proposal and kept.                       *)
Load(s) ==
    /\ place[s] = "load"
    /\ op[s].do = "reset" => Present(profiles[op[s].on])
    /\ copy' = [copy EXCEPT ![s] = profiles]
    /\ Goto(s, "save")
    /\ UNCHANGED <<rows, runVars, externalVars, profiles, dropped, op, snap, begun, why>>

LoadRefuses(s) ==
    /\ place[s] = "load" /\ op[s].do = "reset" /\ ~Present(profiles[op[s].on])
    /\ Return(s)
    /\ UNCHANGED <<rows, runVars, externalVars, profiles, dropped, why>>

Target(o) == IF o.do \in {"put", "reset"} THEN o.on ELSE ModelOf[o.on]

Edited(s) ==
    LET entry == copy[s][Target(op[s])]
        x == op[s].on
    IN  CASE op[s].do = "apply"  -> Merge(entry, "assessment", Accepted(s), x)
          [] op[s].do = "import" -> Merge(entry, "external", Accepted(s), x)
          [] op[s].do = "put"    -> Merge(entry, "user", op[s].fields, Manual)
          [] op[s].do = "reset"  -> DropUser(entry)

Save(s) ==
    /\ place[s] = "save"
    /\ profiles' = [copy[s] EXCEPT ![Target(op[s])] = Edited(s)]
    /\ why' = why \cup {w \in {"overlap"} : profiles # copy[s]}
    /\ Return(s)
    /\ UNCHANGED <<rows, runVars, externalVars, dropped>>

(* The store or the disk fails: the request ends where it is.                *)
RequestFails(s) ==
    /\ place[s] # "idle"
    /\ Return(s)
    /\ UNCHANGED <<rows, runVars, externalVars, profiles, dropped, why>>

RequestStep(s) ==
    \/ CancelRow(s) \/ MarkApplied(s) \/ RecordImport(s) \/ Forget(s)
    \/ Load(s) \/ LoadRefuses(s) \/ Save(s) \/ RequestFails(s)

-----------------------------------------------------------------------------
(* model profile assess run returns once Start has, and its goroutine with   *)
(* it.                                                                       *)
CommandEnds(a) ==
    /\ stage[a] # "none" /\ home[a] \in Cli
    /\ Stop(a)
    /\ why' = why \cup {"cli"}
    /\ UNCHANGED <<rows, externalVars, profiles, dropped, actorVars>>

(* The process with the console dies and is started again: nothing looks for *)
(* rows that are still pending or running.                                   *)
Restart ==
    LET dead == {a \in Run : home[a] \in Console}
    IN  /\ \/ dead # {}
           \/ \E s \in Console : place[s] # "idle"
        /\ stage' = [a \in Run |-> IF a \in dead THEN "none" ELSE stage[a]]
        /\ mine' = [a \in Run |-> IF a \in dead THEN None ELSE mine[a]]
        /\ cur' = [a \in Run |-> IF a \in dead THEN None ELSE cur[a]]
        /\ home' = [a \in Run |-> IF a \in dead THEN None ELSE home[a]]
        /\ place' = [s \in Actor |-> IF s \in Console THEN "idle" ELSE place[s]]
        /\ op' = [s \in Actor |-> IF s \in Console THEN None ELSE op[s]]
        /\ snap' = [s \in Actor |-> IF s \in Console THEN None ELSE snap[s]]
        /\ copy' = [s \in Actor |-> IF s \in Console THEN None ELSE copy[s]]
        /\ why' = why \cup {"crash"}
        /\ UNCHANGED <<rows, externalVars, profiles, dropped, begun>>

AssessNext ==
    \/ \E a \in Run : RunStep(a) \/ CommandEnds(a)
    \/ \E a \in Run, s \in Actor : Start(a, s)
    \/ \E x \in Proposal : Dismiss(x) \/ \E found \in Findings : Propose(x, found)
    \/ \E s \in Actor, o \in Ops :
          BeginCancel(s, o) \/ BeginApply(s, o) \/ BeginImport(s, o) \/ BeginEdit(s, o)
    \/ \E s \in Actor : RequestStep(s)
    \/ Restart

AssessSpec == AssessInit /\ [][AssessNext]_assessVars

-----------------------------------------------------------------------------
(* A row says pending or running only while its run is alive, unless the     *)
(* process died or ended under it or its verdict could not be written.       *)
NoOrphans ==
    \A a \in Run :
        (rows[a] # None /\ Continues(rows[a]) /\ stage[a] = "none") =>
            why \cap {"crash", "cli", "lost"} # {}

(* Results are whole: a completed row has every category at its end and      *)
(* proposes the good ones, all of them but those an apply of a selection     *)
(* took out of the stored proposal; and so has a partial one whose run is    *)
(* over, with the same exceptions as above.                                  *)
WholeResult(row, out) ==
    /\ \A c \in Field : row.cats[c] \in {"good", "zero", "failed"}
    /\ row.proposal # None
    /\ row.proposal \subseteq Good(row) /\ Good(row) \ out \subseteq row.proposal
    /\ row.applied = None => row.proposal = Good(row)
ResultsWhole ==
    \A a \in Run : rows[a] # None =>
        /\ rows[a].status = "completed" => WholeResult(rows[a], dropped[a])
        /\ (rows[a].status = "partial" /\ stage[a] = "none") =>
              WholeResult(rows[a], dropped[a]) \/ why \cap {"crash", "cli", "lost"} # {}

RunsAccounted == NoOrphans /\ ResultsWhole

(* Every baseline value can be traced: an assessment's to a row that is      *)
(* marked applied, found the capability good and proposes it, unless an      *)
(* apply of a selection took it out of that proposal (or Cancel wrote an     *)
(* older copy over that row), an external one to a recorded import of        *)
(* findings with evidence for that capability, published under the           *)
(* configured id or under an identity that contradicts nothing of the        *)
(* configured one and claims no variant the configured one does not.         *)
ClaimsNoOther(r) ==
    \/ Known(Identity, "id") /\ r.published["id"] = Identity["id"]
    \/ \A f \in IdentityField \ {"id"} : Known(r.published, f) =>
           r.published[f] = Identity[f] \/ (f \notin Variant /\ ~Known(Identity, f))

Traceable ==
    \A m \in ProfileId, c \in Field :
        /\ profiles[m]["assessment"][c] # None =>
              LET a == profiles[m]["assessment"][c]
              IN  "stale" \in why \/
                  (/\ rows[a].applied # None /\ rows[a].proposal # None
                   /\ c \in Good(rows[a]) /\ c \in rows[a].proposal \cup dropped[a])
        /\ profiles[m]["external"][c] # None =>
              LET x == profiles[m]["external"][c]
              IN  x \in imports /\ \E i \in DOMAIN basis[x] :
                      basis[x][i].capability = c /\ ClaimsNoOther(basis[x][i])

(* What an override hides stays hidden: the effective value of an overridden *)
(* field changes only when an operator puts or resets that profile, or when  *)
(* a save replaces a newer configuration.                                    *)
OverridesHold ==
    [][\A m \in ProfileId, c \in Field :
          (/\ profiles[m]["user"][c] # None
           /\ Resolve(profiles', <<m>>, c) # Resolve(profiles, <<m>>, c)) =>
              \E s \in Actor :
                  /\ place[s] = "save"
                  /\ \/ op[s].do \in {"put", "reset"} /\ op[s].on = m
                     \/ copy[s] # profiles]_assessVars

(* smart/assessment_service.go:938: "Cancel stops a running assessment."     *)
CancelStops ==
    [][\A a \in Run : (rows[a] # None /\ rows[a].status = "cancelled") =>
          rows'[a].status = "cancelled"]_assessVars
=============================================================================
