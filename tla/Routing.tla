------------------------------ MODULE Routing ------------------------------
(* A request's way from its client key to the plan the coordinator executes  *)
(* (api/middleware/auth.go, policy.go, api/openai/handlers.go,               *)
(* api/anthropic/handlers.go, router/resolver.go, smart/apply.go).  It is    *)
(* served from start to end by the handler it met: that handler's            *)
(* configuration, and the provider states its engine copied when it was      *)
(* built.  The key, the session's pin and the decision are in the database.  *)
EXTENDS SmartEngine

CONSTANTS Req, Key, Session, Ip,
          Alias, Direct,  \* public names; targets in provider/model form
          Odd,            \* names of neither kind, the provider:model form among them
          Configs,        \* configurations a reload may bring, see Config
          Policies,       \* what a key's row may be, see KeyPolicy
          Asks,           \* the requests to be made, see Ask
          AffinityContext, \* "live", or "cancelled" as NewStoreAffinity leaves it
          MaxFailures,    \* invalidAuthMaxFailures
          Unsteady,       \* bound: the providers whose circuit or credential changes
          MaxTurns        \* bound: changes around the requests

(* A route without strategy is here with the one planFromAlias gives it.     *)
Route ==
         [is: {"targets"}, targets: Seq(Target)]
    \cup [is: {"smart"}, mode: {"off", "shadow", "live"}, policy: DOMAIN Builtin,
          candidates: Seq(Candidate), default: Target \cup {None},
          strict: BOOLEAN, affinity: BOOLEAN]

Config == [present: SUBSET Provider, enabled: SUBSET Provider, allowDirect: BOOLEAN,
           authRequired: BOOLEAN, alias: [Alias -> Route]]

(* An empty list of aliases or models allows them all.                       *)
KeyPolicy == [enabled: BOOLEAN, expired: BOOLEAN, aliases: SUBSET Alias,
              allowDirect: BOOLEAN, models: SUBSET Direct, output: Nat]

(* policy None: the route's; many: more messages or tools than the server    *)
(* takes.                                                                    *)
Ask == [token: Key \cup {"none", "bad"}, ip: Ip, name: Alias \cup Direct \cup Odd,
        about: Request, session: Session \cup {None}, reclassify: BOOLEAN,
        policy: (DOMAIN Builtin) \cup {None, "unknown"}, require: SUBSET {"tools", "vision", "structured_output"},
        cost: 0..5, many: BOOLEAN]

ASSUME RoutingAssumption ==
    /\ Configs \subseteq Config /\ \A c \in Configs : c.enabled \subseteq c.present
    /\ Asks \subseteq Ask
    /\ Policies \subseteq KeyPolicy /\ None \notin Policies /\ MaxFailures \in Nat /\ MaxTurns \in Nat
    /\ AffinityContext \in {"live", "cancelled"}
    /\ Unsteady \subseteq Provider /\ Direct \subseteq Target /\ Key \cap {"none", "bad"} = {}

VARIABLES
    config,    \* the server's configuration
    handler,   \* its handler: a configuration and the provider states copied
    open,      \* providers whose circuit is open
    stored,    \* providers whose credential resolves
    keys,      \* client_keys
    failures,  \* invalidAuthThrottle
    pins,      \* smart_session_affinity
    place, ask, via, as, task, choice, plan,
    turns      \* changes so far (bound)

requestVars == <<place, ask, via, as, task, choice, plan>>
routingVars == <<config, handler, open, stored, keys, failures, pins, turns, requestVars>>

Place == {"idle", "arrived", "known", "chosen", "planned"}

(* GatewayEngine.                                                            *)
ViewOf(c, op, st) ==
    [p \in c.present |-> [enabled |-> p \in c.enabled, open |-> p \in op, credential |-> p \in st]]

Handler == [config: Configs, view: UNION {[c.present -> ProviderState] : c \in Configs}]
Pin == [route: Alias, target: Target, type: Type \cup {"unknown"},
        complexity: {"simple", "medium", "complex"}]

RoutingTypeOK ==
    /\ config \in Configs /\ handler \in Handler
    /\ open \subseteq Provider /\ stored \subseteq Provider
    /\ keys \in [Key -> Policies] /\ failures \in [Ip -> 0..(MaxFailures + 1)]
    /\ pins \in [Session -> Pin \cup {None}] /\ turns \in 0..MaxTurns
    /\ place \in [Req -> Place] /\ ask \in [Req -> Asks \cup {None}]
    /\ via \in [Req -> Handler \cup {None}] /\ as \in [Req -> Policies \cup {None}]
    /\ \A r \in Req :
          /\ choice[r] # None => choice[r].target \in Target
          /\ \A i \in DOMAIN plan[r] : plan[r][i] \in Target
          /\ place[r] = "planned" => plan[r] # <<>>

RoutingInit ==
    /\ config \in Configs /\ open = {} /\ stored = Provider
    /\ handler = [config |-> config, view |-> ViewOf(config, open, stored)]
    /\ keys \in [Key -> Policies] /\ failures = [i \in Ip |-> 0]
    /\ pins = [s \in Session |-> None] /\ turns = 0
    /\ place = [r \in Req |-> "idle"] /\ ask = [r \in Req |-> None]
    /\ via = [r \in Req |-> None] /\ as = [r \in Req |-> None]
    /\ task = [r \in Req |-> None] /\ choice = [r \in Req |-> None]
    /\ plan = [r \in Req |-> <<>>]

-----------------------------------------------------------------------------
Goto(r, p) == place' = [place EXCEPT ![r] = p]

(* The request is answered, with an error or when the coordinator is done.   *)
Forget(r) ==
    /\ Goto(r, "idle")
    /\ ask' = [ask EXCEPT ![r] = None] /\ via' = [via EXCEPT ![r] = None]
    /\ as' = [as EXCEPT ![r] = None] /\ task' = [task EXCEPT ![r] = None]
    /\ choice' = [choice EXCEPT ![r] = None] /\ plan' = [plan EXCEPT ![r] = <<>>]

serverVars == <<config, handler, open, stored, keys, turns>>

Arrive(r, q) ==
    /\ place[r] = "idle"
    /\ Goto(r, "arrived")
    /\ ask' = [ask EXCEPT ![r] = q] /\ via' = [via EXCEPT ![r] = handler]
    /\ UNCHANGED <<serverVars, failures, pins, as, task, choice, plan>>

-----------------------------------------------------------------------------
(* Auth.Middleware.  A token is verified against the enabled keys only.      *)
Matches(r) == ask[r].token \in Key /\ keys[ask[r].token].enabled

Enters(r, ck) ==
    /\ Goto(r, "known")
    /\ as' = [as EXCEPT ![r] = ck]
    /\ UNCHANGED <<ask, via, task, choice, plan>>

Anonymous(r) ==
    /\ place[r] = "arrived" /\ ask[r].token = "none"
    /\ IF via[r].config.authRequired THEN Forget(r) ELSE Enters(r, None)
    /\ UNCHANGED <<serverVars, failures, pins>>

(* The count saturates: only whether it is past MaxFailures matters.         *)
Unmatched(r) ==
    /\ place[r] = "arrived" /\ ask[r].token # "none" /\ ~Matches(r)
    /\ failures' = [failures EXCEPT ![ask[r].ip] = Least(@ + 1, MaxFailures + 1)]
    /\ IF via[r].config.authRequired THEN Forget(r) ELSE Enters(r, None)
    /\ UNCHANGED <<serverVars, pins>>

Matched(r) ==
    /\ place[r] = "arrived" /\ Matches(r)
    /\ failures' = [failures EXCEPT ![ask[r].ip] = 0]
    /\ IF keys[ask[r].token].expired THEN Forget(r) ELSE Enters(r, keys[ask[r].token])
    /\ UNCHANGED <<serverVars, pins>>

LookupFails(r) ==
    /\ place[r] = "arrived" /\ ask[r].token # "none"
    /\ Forget(r)
    /\ UNCHANGED <<serverVars, failures, pins>>

-----------------------------------------------------------------------------
(* AuthorizeModel, ApplyRequestPolicy and Resolve.                           *)
Authorized(ck, name, c) ==
    IF name \in Alias THEN ck # None => ck.aliases = {} \/ name \in ck.aliases
    ELSE /\ name \notin Alias /\ c.allowDirect
         /\ ck # None => ck.allowDirect /\ (ck.models = {} \/ name \in ck.models)

(* A request without a limit of its own gets the key's.                      *)
CappedWhenAbsent(output, ck) ==
    IF ck # None /\ output = 0 THEN ck.output ELSE output
Capped(output, ck) ==
    IF ck = None \/ ck.output = 0 THEN output
    ELSE IF output = 0 THEN ck.output ELSE Least(output, ck.output)

IsEnabled(c, t) == ProviderOf[t] \in c.enabled
Enabled(c, ts) == Only(ts, {i \in DOMAIN ts : IsEnabled(c, ts[i])})

(* planFromAlias and planDeterministicFromSmart: a smart route that is off   *)
(* goes to its default, whether that provider is enabled or not.             *)
Deterministic(c, name) ==
    IF name \in Direct THEN Enabled(c, <<name>>)
    ELSE LET rt == c.alias[name]
         IN  IF rt.is = "targets" THEN Enabled(c, rt.targets)
             ELSE IF rt.default # None /\ ProviderOf[rt.default] \in c.present
             THEN <<rt.default>> ELSE <<>>

IsSmart(c, name) ==
    /\ name \in Alias /\ c.alias[name].is = "smart" /\ c.alias[name].mode # "off"

Admitted(r) ==
    /\ Authorized(as[r], ask[r].name, via[r].config)
    /\ ~ask[r].many /\ ask[r].name \notin Odd

Refused(r) ==
    /\ place[r] = "known"
    /\ \/ ~Admitted(r)
       \/ LET c == via[r].config
              rt == c.alias[ask[r].name]
          IN  IF IsSmart(c, ask[r].name)
              THEN \A i \in DOMAIN rt.candidates : ~IsEnabled(c, rt.candidates[i].target)
              ELSE Deterministic(c, ask[r].name) = <<>>
    /\ Forget(r)
    /\ UNCHANGED <<serverVars, failures, pins>>

Resolve(r) ==
    /\ place[r] = "known" /\ Admitted(r) /\ ~IsSmart(via[r].config, ask[r].name)
    /\ Deterministic(via[r].config, ask[r].name) # <<>>
    /\ plan' = [plan EXCEPT ![r] = Deterministic(via[r].config, ask[r].name)]
    /\ Goto(r, "planned")
    /\ UNCHANGED <<serverVars, failures, pins, ask, via, as, task, choice>>

-----------------------------------------------------------------------------
(* ApplySmart: Select reads the pin and chooses, then writes the pin; the    *)
(* plan is made of the choice.                                               *)
Rt(r) == via[r].config.alias[ask[r].name]

PolicyOf(r) ==
    Policy(IF ask[r].policy = None THEN Rt(r).policy ELSE ask[r].policy, ask[r].cost)

Classes == [q \in {a.about : a \in Asks} |-> Classify(q)]

Classified(r) ==
    {[t EXCEPT !.hard = [caps |-> t.hard.caps \cup ask[r].require, context |-> t.hard.context,
                         output |-> Capped(t.hard.output, as[r])]] : t \in Classes[ask[r].about]}

RankedFor(r, t) == Ranked(Rt(r).candidates, t, PolicyOf(r), Rt(r).strict, via[r].view)

PinOf(r) ==
    IF AffinityContext = "live" /\ Rt(r).affinity /\ ask[r].session # None
       /\ ~ask[r].reclassify /\ pins[ask[r].session] # None
       /\ pins[ask[r].session].route = ask[r].name
    THEN pins[ask[r].session] ELSE None

IsPinned(r, t) ==
    /\ PinOf(r) # None
    /\ PinHolds(PinOf(r), t, PolicyOf(r), Rt(r).strict, via[r].view)

ChoiceFor(r, t) ==
    IF IsPinned(r, t) THEN [target |-> PinOf(r).target, because |-> "pinned"]
    ELSE Choice(Rt(r).default, RankedFor(r, t), t, PolicyOf(r))

MayChoose(r) ==
    /\ place[r] = "known" /\ Admitted(r) /\ IsSmart(via[r].config, ask[r].name)
    /\ \E i \in DOMAIN Rt(r).candidates : IsEnabled(via[r].config, Rt(r).candidates[i].target)

(* Without a choice, and under a policy that does not exist, it is an error. *)
Choose(r, t) ==
    /\ MayChoose(r) /\ ask[r].policy # "unknown" /\ t \in Classified(r)
    /\ LET pick == ChoiceFor(r, t)
       IN  IF pick.target = None THEN Forget(r)
           ELSE /\ task' = [task EXCEPT ![r] = t] /\ choice' = [choice EXCEPT ![r] = pick]
                /\ Goto(r, "chosen")
                /\ UNCHANGED <<ask, via, as, plan>>
    /\ UNCHANGED <<serverVars, failures, pins>>

UnknownPolicy(r) ==
    /\ MayChoose(r) /\ ask[r].policy = "unknown"
    /\ Forget(r)
    /\ UNCHANGED <<serverVars, failures, pins>>

SmartPlan(r) ==
    LET enabled == via[r].config.enabled
    IN  IF Rt(r).mode = "live"
        THEN Attempts(choice[r].target, RankedFor(r, task[r]), enabled)
        ELSE IF Rt(r).default # None /\ ProviderOf[Rt(r).default] \in enabled
        THEN <<Rt(r).default>> ELSE <<>>

(* A hit leaves the pin as it is; the write may be lost.                     *)
PinsAfter(r) ==
    IF AffinityContext = "live" /\ Rt(r).mode = "live" /\ Rt(r).affinity /\ ask[r].session # None
       /\ choice[r].because # "pinned"
    THEN {pins, [pins EXCEPT ![ask[r].session] =
                    [route |-> ask[r].name, target |-> choice[r].target,
                     type |-> task[r].type, complexity |-> task[r].complexity]]}
    ELSE {pins}

ApplySmartUnchecked(r) ==
    /\ place[r] = "chosen"
    /\ pins' \in PinsAfter(r)
    /\ plan' = [plan EXCEPT ![r] = SmartPlan(r)]
    /\ Goto(r, "planned")
    /\ UNCHANGED <<serverVars, failures, ask, via, as, task, choice>>

ApplySmart(r) ==
    /\ place[r] = "chosen"
    /\ pins' \in PinsAfter(r)
    /\ IF SmartPlan(r) = <<>> THEN Forget(r)
       ELSE /\ plan' = [plan EXCEPT ![r] = SmartPlan(r)]
            /\ Goto(r, "planned")
            /\ UNCHANGED <<ask, via, as, task, choice>>
    /\ UNCHANGED <<serverVars, failures>>

(* The coordinator's part is Coordinator's subject.                          *)
Served(r) ==
    /\ place[r] = "planned"
    /\ Forget(r)
    /\ UNCHANGED <<serverVars, failures, pins>>

-----------------------------------------------------------------------------
Turn == turns < MaxTurns /\ turns' = turns + 1

(* A reload builds a new handler, with a throttle of its own.                *)
Reload(c) ==
    /\ Turn
    /\ config' = c
    /\ handler' = [config |-> c, view |-> ViewOf(c, open, stored)]
    /\ failures' = [i \in Ip |-> 0]
    /\ UNCHANGED <<open, stored, keys, pins, requestVars>>

EditKey(k, p) ==
    /\ Turn
    /\ keys' = [keys EXCEPT ![k] = p]
    /\ UNCHANGED <<config, handler, open, stored, failures, pins, requestVars>>

Toggle(s, p) == IF p \in s THEN s \ {p} ELSE s \cup {p}

(* A circuit opens or closes; a credential is removed or stored again; a pin *)
(* reaches the end of its time.                                              *)
CircuitTurns(p) ==
    /\ Turn
    /\ open' = Toggle(open, p)
    /\ UNCHANGED <<config, handler, stored, keys, failures, pins, requestVars>>

CredentialTurns(p) ==
    /\ Turn
    /\ stored' = Toggle(stored, p)
    /\ UNCHANGED <<config, handler, open, keys, failures, pins, requestVars>>

PinExpires(s) ==
    /\ Turn /\ pins[s] # None
    /\ pins' = [pins EXCEPT ![s] = None]
    /\ UNCHANGED <<config, handler, open, stored, keys, failures, requestVars>>

RequestStep(r) ==
    \/ \E q \in Asks : Arrive(r, q)
    \/ Anonymous(r) \/ Unmatched(r) \/ Matched(r) \/ LookupFails(r)
    \/ Refused(r) \/ Resolve(r) \/ UnknownPolicy(r)
    \/ (place[r] = "known" /\ \E t \in Classified(r) : Choose(r, t))
    \/ ApplySmart(r) \/ Served(r)

RoutingNext ==
    \/ \E r \in Req : RequestStep(r)
    \/ \E c \in Configs : Reload(c)
    \/ \E k \in Key, p \in Policies : EditKey(k, p)
    \/ \E p \in Unsteady : CircuitTurns(p) \/ CredentialTurns(p)
    \/ \E s \in Session : PinExpires(s)

RoutingSpec == RoutingInit /\ [][RoutingNext]_routingVars

-----------------------------------------------------------------------------
(* A live plan meets the request's hard needs on every attempt, however late *)
(* in the fallback order and wherever it came from (a ranking, a pin made    *)
(* for another task under another configuration): the capabilities asked     *)
(* for, a private target for the private policy, a provider that was enabled *)
(* and healthy when the handler was built.  No target is tried twice.  Only  *)
(* the default an unsure classification falls back on is exempt, and only    *)
(* from what it must be able to do, never from being enabled.                *)
Suits(r, t) ==
    LET about == ask[r].about
        needs == ask[r].require
                 \cup {c \in {"vision"} : "image" \in about.signs}
                 \cup {c \in {"tools"} : "tools required" \in about.signs}
        name == IF ask[r].policy = None THEN Rt(r).policy ELSE ask[r].policy
    IN  /\ \E n \in ProfileName \cup {None} :
              /\ needs \subseteq Profile[t, n].caps
              /\ name = "private" => Profile[t, n].privacy \in {"local", "private-cloud"}
        /\ via[r].view[ProviderOf[t]].credential /\ ~via[r].view[ProviderOf[t]].open

Planned == {r \in Req : place[r] = "planned"}
Live(r) == IsSmart(via[r].config, ask[r].name) /\ Rt(r).mode = "live"

LivePlansSuit ==
    \A r \in Planned : Live(r) =>
        /\ \A i, j \in DOMAIN plan[r] : plan[r][i] = plan[r][j] => i = j
        /\ \A i \in DOMAIN plan[r] :
              /\ IsEnabled(via[r].config, plan[r][i])
              /\ Suits(r, plan[r][i]) \/
                    (choice[r].because = "unsure" /\ plan[r][i] = Rt(r).default)

(* A request is served under the key that authenticated it, as the row was   *)
(* then: enabled, not expired, within its aliases or direct models, its      *)
(* output limit part of what a candidate must offer; without a key only on a *)
(* handler that asks for none, whatever the configuration says by now.       *)
WithinKey ==
    \A r \in Planned :
        LET ck == as[r]
        IN  IF ck = None THEN ~via[r].config.authRequired
            ELSE /\ ask[r].token \in Key /\ ck.enabled /\ ~ck.expired
                 /\ \/ \E a \in Alias : a = ask[r].name /\ (ck.aliases # {} => a \in ck.aliases)
                    \/ plan[r] = <<ask[r].name>> /\ ck.allowDirect
                       /\ (ck.models # {} => ask[r].name \in ck.models)
                 /\ (ck.output > 0 /\ Live(r)) => task[r].hard.output \in 1..ck.output

(* smart/classify.go:191: "Classify runs the deterministic heuristic-v1      *)
(* classifier": the same request, by the same key through the same handler,  *)
(* outside any session, gets the same plan.                                  *)
Repeatable ==
    \A r, s \in Planned :
        (via[r] = via[s] /\ ask[r] = ask[s] /\ as[r] = as[s] /\ ask[r].session = None) =>
            plan[r] = plan[s]

(* README: "Session affinity keeps related requests on the chosen            *)
(* provider/model": while a session's request is served by the target chosen *)
(* for it, the next one of the same session, for the same kind of task, is   *)
(* sent there too.                                                           *)
SessionsStick ==
    [][\A r, s \in Req :
          (/\ place[r] = "planned" /\ place[s] = "known" /\ place'[s] = "chosen"
           /\ via[r] = via[s] /\ as[r] = as[s] /\ ask[r] = ask[s] /\ ask[r].session # None
           /\ Live(r) /\ Rt(r).affinity /\ ~ask[r].reclassify) =>
              choice'[s].target = plan[r][1]]_routingVars

(* README.md:611: "Shadow mode classifies requests and stores               *)
(* recommendations without changing live traffic": a request that is let in, names a smart   *)
(* route in shadow and a policy that exists, goes to the route's default,    *)
(* enabled and healthy, and is never answered without it.                    *)
Defaulted(r) ==
    LET rt == Rt(r)
    IN  /\ IsSmart(via[r].config, ask[r].name) /\ rt.mode = "shadow"
        /\ ask[r].policy # "unknown" /\ rt.default # None
        /\ IsEnabled(via[r].config, rt.default)
        /\ ~Unhealthy(via[r].view, ProviderOf[rt.default])

ShadowServes ==
    [][\A r \in Req :
          (place[r] \in {"known", "chosen"} /\ Admitted(r) /\ Defaulted(r)) =>
              place'[r] # "idle"]_routingVars
=============================================================================
