----------------------------- MODULE MCPipeline -----------------------------
(* Conversations of a few user turns. The assistant may say the same long    *)
(* plan twice and may name the place a tool's output names; that output may  *)
(* be coloured; an Anthropic user may add a noisy remark to results, or one  *)
(* whose repeated lines are longer when they are collapsed. The window is    *)
(* small enough that two user turns with tools exceed it.                    *)
EXTENDS Pipeline

CONSTANTS ask, plan, mention, log, remark, short, main

Plain(say) == [say |-> say, noise |-> {}, mark |-> "none"]
Noisy(say, noise) == [Plain(say) EXCEPT !.noise = noise]

MCWeight == [s \in Say |-> IF s \in LongSay THEN 3 ELSE 1]
MCSaving == [s \in Say |-> IF s = short THEN -3 ELSE 3]
MCPlace == [s \in Say |-> IF s \in {mention, log} THEN main ELSE None]

MCUserTexts == {Plain(ask)}
MCAnswerTexts == {Plain(plan), Plain(mention)}
MCResultTexts == {Plain(log), Noisy(log, {"ansi"})}
MCRemarks == {Noisy(remark, Noise), Noisy(short, {"runs"})}

Everything == {"ansi_strip", "json_compact", "dedupe", "log_compact"}
Settings(enabled, mode, aggressive, flags, conversation) ==
    [enabled |-> enabled, mode |-> mode, aggressiveAllowed |-> aggressive,
     flags |-> flags, conversation |-> conversation]
MCConfigs == {Settings(TRUE, "aggressive", TRUE, Everything, TRUE),
              Settings(TRUE, "safe", FALSE, Everything, TRUE),
              Settings(TRUE, "aggressive", FALSE, {"dedupe"}, FALSE)}
=============================================================================
