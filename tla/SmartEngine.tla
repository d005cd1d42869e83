---------------------------- MODULE SmartEngine ----------------------------
(* How a smart route chooses (internal/smart/engine.go, filter.go, score.go, *)
(* policy.go).  Fit and Score stand for capabilityMatch and the weighted     *)
(* score, in hundredths; everything that decides on them is here.            *)
EXTENDS Classifier, Sequences

CONSTANTS Provider, Target, None,
          ProviderOf,   \* ProviderOf[t]
          ProfileName,  \* profile ids a candidate may name
          Profile,      \* Profile[t, n], n a profile id or None
          Fit, Score,   \* Fit[c, type], Score[c, type, policy]
          View          \* what a provider's state may be, see ProviderState

ProviderState == [enabled: BOOLEAN, open: BOOLEAN, credential: BOOLEAN]

(* found is false for an unprofiled candidate; a size of 0 is unknown, a     *)
(* privacy of None too.                                                      *)
ProfileRecord == [found: BOOLEAN, caps: SUBSET {"tools", "vision", "structured_output"},
                  context: Nat, output: Nat, cost: 0..5,
                  privacy: {"local", "private-cloud", "cloud", None}]

(* A candidate is a target and the profile id it names, or None; a route     *)
(* lists its candidates in order.                                            *)
Candidate == [target: Target, profile: ProfileName \cup {None}]

(* BuiltinPolicies and ResolvePolicy: the least fit, the cost ceiling (0:    *)
(* none) and whether only private models may be used.                        *)
Builtin ==
    [balanced |-> [fit |-> 60, cost |-> 0, private |-> FALSE],
     quality  |-> [fit |-> 50, cost |-> 0, private |-> FALSE],
     economy  |-> [fit |-> 60, cost |-> 3, private |-> FALSE],
     fast     |-> [fit |-> 55, cost |-> 0, private |-> FALSE],
     private  |-> [fit |-> 50, cost |-> 0, private |-> TRUE]]

ASSUME EngineAssumption ==
    /\ ProviderOf \in [Target -> Provider] /\ View \subseteq ProviderState
    /\ \A t \in Target, n \in ProfileName \cup {None} : Profile[t, n] \in ProfileRecord
    /\ \A c \in Candidate, t \in Type, p \in DOMAIN Builtin : Score[c, t, p] \in Int

Tighter(a, b) == IF b > 0 /\ (a = 0 \/ b < a) THEN b ELSE a

Policy(name, cost) == [name |-> name, fit |-> Builtin[name].fit,
                       cost |-> Tighter(Builtin[name].cost, cost),
                       private |-> Builtin[name].private]

(* FilterCandidate.  Unknown sizes pass, unknown capabilities do not, and a  *)
(* provider the handler knows nothing of is not held against a candidate.    *)
Unhealthy(view, p) ==
    p \in DOMAIN view /\ ~(view[p].enabled /\ ~view[p].open /\ view[p].credential)

Fits(size, need) == need = 0 \/ size = 0 \/ size >= need

Admissible(c, task, policy, strict, view) ==
    LET pr == Profile[c.target, c.profile]
    IN  /\ strict => pr.found
        /\ ~Unhealthy(view, ProviderOf[c.target])
        /\ task.hard.caps \subseteq pr.caps
        /\ Fits(pr.context, task.hard.context) /\ Fits(pr.output, task.hard.output)
        /\ policy.private => pr.privacy \in {"local", "private-cloud"}
        /\ policy.cost > 0 => pr.cost <= policy.cost

(* ScoreCandidate rejects what fits too badly.                               *)
Eligible(c, task, policy, strict, view) ==
    /\ Admissible(c, task, policy, strict, view)
    /\ Fit[c, task.need] >= policy.fit

(* SortEvaluations: best first, an earlier one before an equal.              *)
Better(cands, task, policy, i, j) ==
    LET value(k) == Score[cands[k], task.need, policy.name]
    IN  value(i) > value(j) \/ (value(i) = value(j) /\ i < j)

(* The eligible candidates in that order: the k-th has k - 1 better ones.    *)
Ranked(cands, task, policy, strict, view) ==
    LET in == {i \in DOMAIN cands : Eligible(cands[i], task, policy, strict, view)}
        ahead(i) == {j \in in : Better(cands, task, policy, j, i)}
    IN  [k \in 1..Cardinality(in) |->
            cands[CHOOSE i \in in : Cardinality(ahead(i)) = k - 1]]

-----------------------------------------------------------------------------
(* Select.  A choice is the target, or None when there is none, why it was   *)
(* taken, and the ranking it was taken from.                                 *)
High == 80000
Low == 50000
Margin == 8

Targets(ranked) == [i \in DOMAIN ranked |-> ranked[i].target]
Best(ranked) == IF ranked = <<>> THEN None ELSE ranked[1].target

(* Between the two thresholds the default is taken unless another wins       *)
(* clearly.                                                                  *)
PrefersDefault(default, ranked, task, policy) ==
    LET at == {i \in DOMAIN ranked : ranked[i].target = default}
        value(i) == Score[ranked[i], task.need, policy.name]
    IN  \E i \in at : (\A j \in at : i <= j) /\ value(1) - value(i) < Margin

Choice(default, ranked, task, policy) ==
    IF task.confidence < Low
    THEN IF default # None THEN [target |-> default, because |-> "unsure"]
         ELSE [target |-> Best(ranked), because |-> "best"]
    ELSE IF task.confidence < High /\ PrefersDefault(default, ranked, task, policy)
    THEN [target |-> default, because |-> "generalist"]
    ELSE [target |-> Best(ranked), because |-> "best"]

(* A pin is kept while it passes the hard filter, whatever its fit, looked   *)
(* up without the profile id its candidate names, and unless a task that     *)
(* needs tools or vision has turned complex and of another type.             *)
Drifted(pin, task) ==
    /\ task.hard.caps \cap {"tools", "vision"} # {}
    /\ pin.type # task.type
    /\ task.complexity = "complex" /\ pin.complexity # "complex"

PinHoldsUnchecked(pin, task, policy, strict, view) == ~Drifted(pin, task)
PinHolds(pin, task, policy, strict, view) ==
    /\ Admissible([target |-> pin.target, profile |-> None], task, policy, strict, view)
    /\ ~Drifted(pin, task)

(* What a sequence has at some of its places.                                *)
Only(s, places) ==
    [k \in 1..Cardinality(places) |->
        s[CHOOSE i \in places : Cardinality({j \in places : j < i}) = k - 1]]

(* AttemptPlan: the choice, then the eligible candidates, each target once;  *)
(* buildAttempts leaves out those whose provider is gone or disabled.        *)
Attempts(choice, ranked, enabled) ==
    LET all == <<choice>> \o Targets(ranked)
    IN  Only(all, {i \in DOMAIN all : /\ ProviderOf[all[i]] \in enabled
                                      /\ \A j \in 1..(i - 1) : all[j] # all[i]})
=============================================================================
