----------------------------- MODULE Classifier -----------------------------
(* What the smart engine takes a request to be (internal/smart/classify.go). *)
(* A request is the set of signs its text and its tool, image and format     *)
(* fields show, and a few sizes; the regular expressions that find the signs *)
(* are left out.  Scores are in thousandths and the confidence in hundred    *)
(* thousandths, so that every comparison is exact.  The levels a type of     *)
(* task requires of each capability weigh the score only and are part of     *)
(* what SmartEngine's Fit and Score stand for.                               *)
EXTENDS Integers, FiniteSets, FiniteSetsExt

Sign == {"greeting", "summary", "extract", "write", "translate", "review", "gencode",
         "code", "debug", "arch", "math", "proof", "reason", "analysis", "explain",
         "research", "xform", "compare", "short",
         "tools", "tools required", "tools chosen", "image", "structured"}

(* tokens is ApproxTokens, context the estimate with the system prompt, and  *)
(* output MaxOutputTokens, 0 when absent.                                    *)
Request == [signs: SUBSET Sign, tokens: Nat, context: Nat, output: Nat,
            constraints: Nat, turns: Nat]

HasTools(q) == q.signs \cap {"tools", "tools required", "tools chosen"} # {}

(* The signs the scores look at, each with what it adds to which type.       *)
Shown(q) ==
    LET s == q.signs
    IN  (s \ {"tools", "xform", "greeting", "debug", "code"})
        \cup {x \in {"code and debug"} : {"code", "debug"} \subseteq s}
        \cup {x \in {"debug"} : "debug" \in s /\ "code" \notin s}
        \cup {x \in {"code"} : "code" \in s /\ "debug" \notin s}
        \cup {x \in {"mathematics"} : s \cap {"math", "proof"} # {}}
        \cup {x \in {"tools"} : HasTools(q)}
        \cup {x \in {"xform"} : x \in s /\ q.tokens < 200}
        \cup {x \in {"greeting"} : x \in s /\ q.tokens < 20}
        \cup {"nothing"}

Adds == {
    <<"nothing", "general_chat", 150>>, <<"greeting", "general_chat", 800>>,
    <<"summary", "summarization", 850>>, <<"extract", "information_extraction", 800>>,
    <<"write", "creative_writing", 750>>, <<"translate", "translation", 900>>,
    <<"review", "code_review", 900>>, <<"gencode", "coding_generation", 750>>,
    <<"code and debug", "coding_debug", 950>>, <<"debug", "coding_debug", 700>>,
    <<"code", "coding_generation", 450>>, <<"code", "code_review", 250>>,
    <<"arch", "architecture_design", 850>>, <<"mathematics", "mathematics", 850>>,
    <<"proof", "mathematics", 100>>, <<"proof", "reasoning", 500>>,
    <<"reason", "reasoning", 800>>, <<"analysis", "analysis", 750>>,
    <<"explain", "technical_explanation", 700>>, <<"research", "research_synthesis", 800>>,
    <<"tools", "tool_operation", 700>>, <<"tools required", "tool_operation", 250>>,
    <<"xform", "simple_transformation", 800>>,
    <<"compare", "analysis", 350>>, <<"compare", "research_synthesis", 200>>}

Type == {a[2] : a \in Adds}

(* Technical words alone do not make an explanation a coding task.           *)
Damped(q, t) == /\ t = "coding_generation" /\ "explain" \in q.signs
                /\ q.signs \cap {"code", "debug"} = {}

Points(q, t) ==
    LET sum == MapThenSumSet(LAMBDA a : a[3], {a \in Adds : a[2] = t /\ a[1] \in Shown(q)})
    IN  IF Damped(q, t) THEN (sum * 3) \div 10 ELSE sum

(* The types are kept in a Go map: of several that score highest the one met *)
(* first wins, and a map is walked in any order.                             *)
Highest(q) == {t \in Type : \A u \in Type : Points(q, u) <= Points(q, t)}

Complexity(q) ==
    IF "explain" \in q.signs /\ q.signs \cap {"code", "debug"} = {} /\ q.tokens < 300
    THEN "simple"
    ELSE IF q.tokens > 1500 \/ q.constraints >= 5 \/ q.signs \cap {"arch", "proof"} # {}
    THEN IF "short" \in q.signs THEN "medium" ELSE "complex"
    ELSE IF \/ q.tokens > 400 \/ q.constraints >= 2 \/ q.turns > 4
            \/ q.signs \cap {"code", "debug", "math"} # {}
    THEN "medium" ELSE "simple"

(* What a candidate must have, whatever it scores.                           *)
Hard(q) ==
    [caps |-> {c \in {"tools"} : q.signs \cap {"tools required", "tools chosen"} # {}}
              \cup {c \in {"vision"} : "image" \in q.signs}
              \cup {c \in {"structured_output"} : "structured" \in q.signs},
     context |-> q.context + 512, output |-> q.output]

Least(a, b) == IF a < b THEN a ELSE b

Confidence(q, t) ==
    LET p == Points(q, t)
        rest == {Points(q, u) : u \in Type \ {t}}
        margin == p - CHOOSE x \in rest : \A y \in rest : y <= x
        full == Least(45000 + 35 * p + 25 * margin, 100000)
        sure == IF p < 350 THEN 35000 ELSE full
    IN  IF q.tokens < 5 /\ ~HasTools(q) /\ "image" \notin q.signs
        THEN Least(sure, 55000) ELSE sure

(* Classify: every profile the request may be given.  need is the type whose *)
(* requirements it gets, type the one it is reported as.                     *)
Classify(q) ==
    {[type |-> IF Points(q, t) < 350 THEN "unknown" ELSE t, need |-> t,
      complexity |-> Complexity(q), hard |-> Hard(q), confidence |-> Confidence(q, t)] :
        t \in Highest(q)}
=============================================================================
