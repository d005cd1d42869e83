---------------------------- MODULE MCAssessment ----------------------------
(* An assessment and an external proposal of one model with a tested and     *)
(* an untested category, started, cancelled, applied, imported, overridden   *)
(* and reset by two console requests and a command.                          *)
EXTENDS Assessment, TLC

CONSTANTS a1, x1, m1, c1, c2, s1, s2, t1

MCValue == Run \cup Proposal \cup {Manual}
MCModelOf == [x \in Run \cup Proposal |-> m1]

MCIdentity == [Blank EXCEPT !["id"] = "p/m", !["creator"] = "p", !["family"] = "m"]

Of(experiment, capability, published) ==
    [experiment |-> experiment, source |-> "board", family |-> "bench",
     capability |-> capability, published |-> published, verified |-> TRUE]

MCPreview == [MCIdentity EXCEPT !["id"] = "p/m-preview", !["preview_stable"] = "preview"]
MCOther == [MCIdentity EXCEPT !["id"] = "q/m", !["creator"] = "q"]

(* Exact evidence with a mirror of it that claims a preview build, a preview *)
(* build's beyond the records a source may count, and another model's; a     *)
(* preview build's alone.                                                    *)
MCFindings ==
    {<<Of("e1", c1, MCIdentity), Of("e1", c1, MCPreview),
       Of("e3", c1, MCPreview), Of("e2", c2, MCOther)>>,
     <<Of("e3", c2, MCPreview)>>}

MCOps ==
    {[do |-> "cancel", on |-> a1, fields |-> {}],
     [do |-> "apply", on |-> a1, fields |-> {}],
     [do |-> "apply", on |-> a1, fields |-> {c2}],
     [do |-> "import", on |-> x1, fields |-> {}],
     [do |-> "put", on |-> m1, fields |-> {c1}],
     [do |-> "reset", on |-> m1, fields |-> {}]}

Symmetric == Permutations(Console)
=============================================================================
