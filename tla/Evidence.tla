------------------------------ MODULE Evidence ------------------------------
(* What a search for benchmark evidence makes of its findings                *)
(* (internal/smart/external): how a published identity is matched with the   *)
(* configured one, which records contribute to a proposal, and when it must  *)
(* be reviewed.  Scores, weights and confidence are left out: they decide    *)
(* what a capability is worth, never whether it is proposed.                 *)
(*                                                                           *)
(* LoadCachedEvidence never hits: a record is as old as reported_at, and     *)
(* both extractors stamp the registry's fixed date there, long past the 24   *)
(* hours Search allows.  A search therefore always works on fresh records.   *)
EXTENDS Naturals, Sequences, FiniteSets, FiniteSetsExt

CONSTANTS MaxPerSource,  \* records of one source a capability may count
          MaxPerFamily,  \* records of one benchmark family
          Unknown        \* a field the source or the configuration leaves empty

ASSUME EvidenceAssumption == MaxPerSource \in Nat \ {0} /\ MaxPerFamily \in Nat \ {0}

(* The fields of an identity that Match compares.                            *)
Release == {"version", "release_date"}
Variant == {"variant", "reasoning_effort", "preview_stable", "quantization", "context_mode"}
IdentityField == {"id", "creator", "family", "harness"} \cup Release \cup Variant

Blank == [f \in IdentityField |-> Unknown]

Known(x, f) == x[f] # Unknown
Conflict(a, b, f) == Known(a, f) /\ Known(b, f) /\ a[f] # b[f]

(* A variant the published side asserts and the configured side does not     *)
(* claim is a difference too.                                                *)
DifferSymmetric(a, b) ==
    {f \in Release \cup {"harness"} \cup Variant : Conflict(a, b, f)}
Differ(a, b) ==
    {f \in Release \cup {"harness"} : Conflict(a, b, f)}
    \cup {f \in Variant : Known(b, f) /\ a[f] # b[f]}

BaseVsThinking(a, b) ==
    \E f \in {"variant", "reasoning_effort"} : {a[f], b[f]} = {"base", "thinking"}

Match(a, b) ==
    IF b = Blank \/ (Known(a, "id") /\ a["id"] = b["id"]) THEN "exact"
    ELSE IF \E f \in {"creator", "family"} : Conflict(a, b, f) THEN "incompatible"
    ELSE IF Differ(a, b) = {} THEN "exact"
    ELSE IF BaseVsThinking(a, b) THEN "incompatible"
    ELSE IF Differ(a, b) \cap Release # {} THEN "family_only"
    ELSE "strong_probable"

Contributes(level) == level \in {"exact", "strong_probable"}

-----------------------------------------------------------------------------
(* A record of evidence: its experiment (the canonical key), source,         *)
(* benchmark family, capability, published identity, and whether it passes   *)
(* ValidateEvidenceRecord with an approved URL.                              *)
Eligible(id, r) == r.verified /\ Contributes(Match(id, r.published))

(* The first record of an experiment stands for all of them.                 *)
Kept(id, recs) ==
    {i \in DOMAIN recs :
        /\ Eligible(id, recs[i])
        /\ \A j \in 1..(i - 1) :
              Eligible(id, recs[j]) => recs[j].experiment # recs[i].experiment}

(* applyContributionCaps: in order, a record is let in as long as neither    *)
(* its source nor its family has its full number among those let in before;  *)
(* of the sets of candidates there is one with just that in it.              *)
Room(recs, in, i) ==
    /\ Cardinality({j \in in : recs[j].source = recs[i].source}) < MaxPerSource
    /\ Cardinality({j \in in : recs[j].family = recs[i].family}) < MaxPerFamily

LetIn(recs, in, i) == Room(recs, {j \in in : j < i}, i)

InsideCaps(recs, candidates) ==
    CHOOSE in \in SUBSET candidates : \A i \in candidates : i \in in <=> LetIn(recs, in, i)

Counted(recs, kept, c) == InsideCaps(recs, {i \in kept : recs[i].capability = c})

(* buildConsensus and BuildProposal: the capabilities proposed, and whether  *)
(* any of them rests on a strong-probable match.                             *)
Capabilities(recs) == {recs[i].capability : i \in DOMAIN recs}
Contributing(id, recs) ==
    UNION {Counted(recs, Kept(id, recs), c) : c \in Capabilities(recs)}

Proposed(id, recs) == {recs[i].capability : i \in Contributing(id, recs)}
MandatoryReview(id, recs) ==
    \E i \in Contributing(id, recs) : Match(id, recs[i].published) = "strong_probable"
=============================================================================
