------------------------------ MODULE Optimizer ------------------------------
(* The token optimizer: what optimization.Engine.Process does to one request *)
(* (internal/optimization/engine.go, compact.go, outputbudget.go).           *)
(*                                                                           *)
(* A text is what it says, the removable noise it still has (terminal        *)
(* colours, white space in JSON, repeated log lines) and the mark            *)
(* deduplication left on it. A place is a file:line location; in a coloured  *)
(* text the colour code stands right before it, so that the location the     *)
(* engine reads there ends in "m" and is a different substring.              *)
(*                                                                           *)
(* First, what the gateway reads of a client's messages, and what a provider *)
(* is sent of the messages the gateway holds: the two inbound parsers (api)  *)
(* and the two outbound encoders (provider). A message is a role and blocks: *)
(*   [kind |-> "text",   id |-> 0,  text |-> t]                              *)
(*   [kind |-> "call",   id |-> n]                                           *)
(*   [kind |-> "result", id |-> n, text |-> t]                               *)
(* An Anthropic client puts the results of one answer's calls, and what the  *)
(* user says besides, into one user message; an OpenAI client sends each     *)
(* result in a message of its own.                                           *)
EXTENDS Integers, FiniteSets, Sequences, SequencesExt

CONSTANTS
    Say,         \* what a text can say
    LongSay,     \* the sayings of 64 bytes and more
    Weight,      \* [Say -> Nat]: the estimated tokens of a saying without noise
    Saving,      \* [Say -> Int]: the characters it gets shorter by when its
                 \* repeated lines are collapsed; "ok" twice gets longer
    Place,       \* [Say -> locations or None]
    None,
    Overhead,    \* the estimated tokens of a request besides its messages
    TriggerTokens, TargetTokens, RecentTurnsFull  \* config.ConversationConfig

ASSUME OptimizerAssumption ==
    /\ LongSay \subseteq Say
    /\ Weight \in [Say -> Nat] /\ Saving \in [Say -> Int]
    /\ DOMAIN Place = Say
    /\ {Overhead, TriggerTokens, TargetTokens, RecentTurnsFull} \subseteq Nat

-----------------------------------------------------------------------------
(* Messages: parsers and encoders.                                           *)

Protocol == {"openai", "anthropic"}
Said(text) == [kind |-> "text", id |-> 0, text |-> text]
Call(n) == [kind |-> "call", id |-> n]
Result(n, text) == [kind |-> "result", id |-> n, text |-> text]

\* What a sequence has at some of its places, and the blocks of a kind.
Only(s, places) ==
    [k \in 1 .. Cardinality(places) |->
        s[CHOOSE i \in places : Cardinality({j \in places : j < i}) = k - 1]]
Kinds(m, kind) == Only(m.content, {j \in DOMAIN m.content : m.content[j].kind = kind})
Holds(m, kind) == \E b \in Range(m.content) : b.kind = kind

\* The two parsers differ in where results come from, not in what they keep:
\* a message with a result takes the tool role, its text blocks with it.
Parse(m) == IF Holds(m, "result") THEN [m EXCEPT !.role = "tool"] ELSE m

\* A tool message has one text and one call id on this wire: the last ones.
MapMessageToOpenAI(m) ==
    IF m.role = "tool"
    THEN [role |-> "tool", content |-> <<Result(Last(Kinds(m, "result")).id, Last(m.content).text)>>]
    ELSE [m EXCEPT !.content = Kinds(m, "text") \o Kinds(m, "call")]

\* Of a tool message only the results are sent.
MapAnthropicMessage(m) ==
    IF m.role = "tool" THEN [role |-> "user", content |-> Kinds(m, "result")] ELSE m

Encode(upstream, msgs) ==
    [i \in DOMAIN msgs |-> IF upstream = "openai" THEN MapMessageToOpenAI(msgs[i])
                           ELSE MapAnthropicMessage(msgs[i])]

-----------------------------------------------------------------------------
(* Texts and modes.                                                          *)

Noise == {"ansi", "spaced", "runs"}
Text == [say: Say, noise: SUBSET Noise, mark: {"none", "source", "reference"}]
Mode == <<"off", "safe", "balanced", "aggressive">>
Level(mode) == CHOOSE n \in DOMAIN Mode : Mode[n] = mode
Tighter(m, n) == IF Level(n) < Level(m) THEN n ELSE m

-----------------------------------------------------------------------------
(* The mode of a request: the gateway passes no preference of the client.    *)

ServerMax(config) ==
    IF config.mode = "aggressive" /\ ~config.aggressiveAllowed THEN "balanced" ELSE config.mode

ResolveMode(config, key) ==
    IF key = None THEN ServerMax(config) ELSE Tighter(ServerMax(config), key)

-----------------------------------------------------------------------------
(* Regions of a request.                                                     *)

Blocks(msgs) == UNION {{<<i, j>> : j \in DOMAIN msgs[i].content} : i \in DOMAIN msgs}
At(msgs, p) == msgs[p[1]].content[p[2]]
Before(p, q) == p[1] < q[1] \/ (p[1] = q[1] /\ p[2] < q[2])

LastUser(msgs) == {i \in DOMAIN msgs : /\ msgs[i].role = "user"
                                       /\ \A j \in DOMAIN msgs : msgs[j].role = "user" => j <= i}

\* What no stage may change: here the text of the last user message.
ProtectedFingerprint(msgs) ==
    {Kinds(msgs[i], "text") : i \in LastUser(msgs)}

Weighed(text) == {n \in text.noise : n = "runs" => Saving[text.say] > 0}
Weigh(text) ==
    IF text.mark = "reference" THEN 1
    ELSE Weight[text.say] + Cardinality(Weighed(text)) + (IF text.mark = "source" THEN 1 ELSE 0)
Estimate(msgs) ==
    FoldLeft(LAMBDA n, m : FoldLeft(LAMBDA k, b : k + IF b.kind = "call" THEN 1 ELSE Weigh(b.text),
                                    n, m.content), 0, msgs)

\* The locations in tool messages, as they are spelled before any stage.
BuildProtected(msgs) ==
    {<<Place[At(msgs, p).text.say], "ansi" \in At(msgs, p).text.noise>> :
        p \in {q \in Blocks(msgs) : /\ msgs[q[1]].role = "tool"
                                    /\ Place[At(msgs, q).text.say] # None}}
NamesProtected(protected, text) ==
    /\ text.mark # "reference"
    /\ \E p \in protected : p[1] = Place[text.say] /\ (p[2] => "ansi" \in text.noise)

-----------------------------------------------------------------------------
(* The stages. Only text blocks are rewritten, never a tool result's block.  *)

Rewrite(msgs, roles, new(_, _)) ==
    LET block(i, j) ==
            LET b == msgs[i].content[j]
            IN  IF msgs[i].role \in roles /\ b.kind = "text"
                THEN [b EXCEPT !.text = new(<<i, j>>, b.text)] ELSE b
    IN  [i \in DOMAIN msgs |->
            [msgs[i] EXCEPT !.content = [j \in DOMAIN msgs[i].content |-> block(i, j)]]]

Quieter(msgs, noise) ==
    Rewrite(msgs, {"tool"}, LAMBDA p, t : [t EXCEPT !.noise = t.noise \ {noise}])
StripANSI(q) == [q EXCEPT !.messages = Quieter(q.messages, "ansi")]
CompactJSON(q) == [q EXCEPT !.messages = Quieter(q.messages, "spaced")]

\* What collapsing repeated lines saves over all tool messages; a text that
\* gets longer counts against one that gets shorter.
Compactable(msgs) ==
    {p \in Blocks(msgs) : /\ msgs[p[1]].role = "tool" /\ At(msgs, p).kind = "text"
                          /\ "runs" \in At(msgs, p).text.noise}
Savings(msgs) == [p \in Compactable(msgs) |-> Saving[At(msgs, p).text.say]]
Pays(msgs) == SumFunction(Savings(msgs)) > 0

\* Repeated lines that name a protected place or an error are kept. Every
\* other run is collapsed, but the action with the loss class is recorded
\* only when something was saved.
CompactLogs(q) ==
    LET quiet == Quieter(q.messages, "runs")
    IN  IF quiet = q.messages THEN q
        ELSE [q EXCEPT !.messages = quiet, !.loss = IF Pays(q.messages) THEN "selective" ELSE @]

\* The first of several equal long texts stays and is marked, as is every
\* long text that has no equal; the others become a reference.
Dedupe(q) ==
    LET msgs == q.messages
        long == {p \in Blocks(msgs) : /\ msgs[p[1]].role \in {"tool", "assistant"}
                                      /\ At(msgs, p).kind = "text"
                                      /\ At(msgs, p).text.say \in LongSay}
        repeats == {p \in long : \E f \in long : Before(f, p) /\ At(msgs, f).text = At(msgs, p).text}
    IN  [q EXCEPT
            !.messages = Rewrite(msgs, {"tool", "assistant"},
                LAMBDA p, t : IF p \in repeats THEN [t EXCEPT !.noise = {}, !.mark = "reference"]
                              ELSE IF p \in long THEN [t EXCEPT !.mark = "source"] ELSE t),
            !.loss = IF repeats = {} THEN @ ELSE "selective"]

\* A mutant: only the message with the result is protected.
ResultMessages(msgs) ==
    {i \in DOMAIN msgs : \E b \in Range(msgs[i].content) : b.kind = "result"}

\* Messages that hold a call whose result is there, or the result.
PairedMessages(msgs) ==
    LET of(kind, id) == {i \in DOMAIN msgs : \E b \in Range(msgs[i].content) : b.kind = kind /\ b.id = id}
        paired == {id \in {At(msgs, p).id : p \in Blocks(msgs)} :
                       of("call", id) # {} /\ of("result", id) # {}}
    IN  UNION {{Max(of("call", id))} \cup of("result", id) : id \in paired}

\* The sources of references are meant to be here too: they are in the result
\* of the stage that made them, which is not the one this stage is given.
ProtectedMessages(msgs, protected) ==
    LastUser(msgs) \cup PairedMessages(msgs)
        \cup {i \in DOMAIN msgs : \E b \in Range(msgs[i].content) :
                  b.kind = "text" /\ NamesProtected(protected, b.text)}

Oldest(S, n) == {i \in S : Cardinality({j \in S : j < i}) < n}
Newest(S, n) == {i \in S : Cardinality({j \in S : j > i}) < n}

Trim(q, protected) ==
    LET msgs == q.messages
        fixed == ProtectedMessages(msgs, protected)
        recent == Newest((DOMAIN msgs) \ fixed, Max({1, 2 * RecentTurnsFull}))
        left(n) == fixed \cup (recent \ Oldest(recent, n))
        enough(n) == \/ Estimate(Only(msgs, left(n))) <= TargetTokens
                     \/ Cardinality(left(n)) <= 1
                     \/ n = Cardinality(recent)
        kept == left(Min({n \in 0 .. Cardinality(recent) : enough(n)}))
    IN  IF Estimate(msgs) + Overhead < TriggerTokens \/ kept = DOMAIN msgs THEN q
        ELSE [q EXCEPT !.messages = Only(msgs, kept), !.loss = "selective"]

\* An output budget is planned only where the client set none.
OutputBudget(q, mode) ==
    IF q.max = "absent" /\ mode # "safe" THEN [q EXCEPT !.max = "planned"] ELSE q

-----------------------------------------------------------------------------
(* The pipeline.                                                             *)

\* A mutant: deduplication and log compaction run in every mode.
SupportsAnyMode(stage, config, mode) ==
    CASE stage = "conversation_window" -> config.conversation /\ mode # "safe"
      [] stage = "output_budget" -> TRUE
      [] OTHER -> stage \in config.flags

Supports(stage, config, mode) ==
    CASE stage \in {"ansi_strip", "json_compact"} -> stage \in config.flags
      [] stage \in {"dedupe", "log_compact"} -> stage \in config.flags /\ mode # "safe"
      [] stage = "conversation_window" -> config.conversation /\ mode # "safe"
      [] stage = "output_budget" -> TRUE

Optimize(stage, q, protected, mode) ==
    CASE stage = "ansi_strip" -> StripANSI(q)
      [] stage = "json_compact" -> CompactJSON(q)
      [] stage = "dedupe" -> Dedupe(q)
      [] stage = "log_compact" -> CompactLogs(q)
      [] stage = "conversation_window" -> Trim(q, protected)
      [] stage = "output_budget" -> OutputBudget(q, mode)

\* A stage works on a copy, which is dropped if the fingerprint changed.
Commit(q, copy) ==
    IF ProtectedFingerprint(copy.messages) = ProtectedFingerprint(q.messages) THEN copy ELSE q

Stage(q, stage, config, mode, protected) ==
    IF Supports(stage, config, mode) THEN Commit(q, Optimize(stage, q, protected, mode)) ELSE q

\* Process, on messages the handler parsed: the request and its loss.
Process(parsed, config, key) ==
    LET mode == ResolveMode(config, key)
        protected == BuildProtected(parsed.messages)
    IN  IF ~config.enabled \/ mode = "off" THEN parsed
        ELSE LET after(q, stage) == Stage(q, stage, config, mode, protected)
                 quiet == after(after(parsed, "ansi_strip"), "json_compact")
                 compact == after(after(quiet, "dedupe"), "log_compact")
             IN  after(after(compact, "conversation_window"), "output_budget")
=============================================================================
