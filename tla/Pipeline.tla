------------------------------- MODULE Pipeline -------------------------------
(* A conversation through the gateway: the client sends its whole history    *)
(* with every turn, the gateway parses and optimizes it and sends it to a    *)
(* provider of either protocol, to another one if that fails, and the answer *)
(* enters the client's history. Meanwhile the configuration is reloaded and  *)
(* the key edited. (internal/execution/coordinator.go, internal/optimization *)
(* and the handlers and adapters around it.)                                 *)
EXTENDS Optimizer

CONSTANTS
    Configs, KeyModes,               \* optimization settings; modes of a key, None
    UserTexts, AnswerTexts, ResultTexts, Remarks,  \* texts, Remarks beside a result
    MaxCalls,                        \* tool calls of one answer
    MaxMessages, MaxAttempts         \* bounds

Roles == {"user", "assistant", "tool"}

\* What anyone says is not marked: marks are deduplication's.
ASSUME PipelineAssumption ==
    /\ \A t \in UserTexts \cup AnswerTexts \cup ResultTexts \cup Remarks :
            t \in Text /\ t.mark = "none"
    /\ None \notin Range(Mode)
    /\ Configs \subseteq [enabled : BOOLEAN, mode : Range(Mode), aggressiveAllowed : BOOLEAN,
                          flags : SUBSET {"ansi_strip", "json_compact", "dedupe", "log_compact"},
                          conversation : BOOLEAN]
    /\ KeyModes \subseteq Range(Mode) \cup {None}
    /\ {MaxCalls, MaxMessages} \subseteq Nat /\ MaxAttempts \in Nat \ {0}

VARIABLES
    client,    \* the client's protocol
    history,   \* the messages the client holds
    phase,     \* whose turn it is
    config, key,
    request,   \* the request the gateway holds
    allowed,   \* the modes of the server and the key when it was optimized
    wire,      \* what the provider got: its protocol and messages
    attempts

vars == <<client, history, phase, config, key, request, allowed, wire, attempts>>

NoRequest == [messages |-> <<>>, max |-> "absent", loss |-> "lossless"]
NoWire == [to |-> "openai", messages |-> <<>>]
Calls(m) == {b.id : b \in {c \in Range(m.content) : c.kind = "call"}}
CallCount == Cardinality(UNION {Calls(m) : m \in Range(history)})

PipelineInit ==
    /\ client \in Protocol
    /\ history = <<>> /\ phase = "user"
    /\ config \in Configs /\ key \in KeyModes
    /\ request = NoRequest /\ allowed = {} /\ wire = NoWire /\ attempts = 0

\* The client: a user's turn, or the results of every call of the last answer.
Sends(msgs) ==
    /\ history' = history \o msgs
    /\ phase' = "arrived"
    /\ wire' = NoWire /\ request' = NoRequest /\ allowed' = {} /\ attempts' = 0
    /\ UNCHANGED <<client, config, key>>

UserSays(t) ==
    /\ phase = "user" /\ Len(history) < MaxMessages
    /\ Sends(<<[role |-> "user", content |-> <<Said(t)>>]>>)

\* Calls are answered in the order they were made.
ReturnResults(given, remark) ==
    LET calls == Kinds(Last(history), "call")
        results == [i \in DOMAIN calls |-> Result(calls[i].id, given)]
    IN  /\ phase = "tools"
        /\ IF client = "anthropic"
           THEN Sends(<<[role |-> "user", content |-> results \o remark]>>)
           ELSE /\ remark = <<>>
                /\ Sends([i \in DOMAIN results |-> [role |-> "tool", content |-> <<results[i]>>]])

Parsed == [i \in DOMAIN history |-> Parse(history[i])]

\* ChatCompletions and Messages parse, Coordinator.optimize runs the engine
\* with the key's mode; the handler's configuration is that of its snapshot.
Optimized ==
    /\ phase = "arrived"
    /\ LET parsed == [NoRequest EXCEPT !.messages = Parsed,
                                       !.max = IF client = "anthropic" THEN "client" ELSE "absent"]
       IN  request' = Process(parsed, config, key)
    /\ allowed' = {ServerMax(config)} \cup ({key} \ {None})
    /\ phase' = "planned"
    /\ UNCHANGED <<client, history, config, key, wire, attempts>>

\* Every attempt encodes the same optimized request for its provider.
Attempt(upstream) ==
    /\ phase = "planned"
    /\ wire' = [to |-> upstream, messages |-> Encode(upstream, request.messages)]
    /\ attempts' = attempts + 1
    /\ phase' = "upstream"
    /\ UNCHANGED <<client, history, config, key, request, allowed>>

\* A mutant: the attempts are not counted.
AttemptFailsForever ==
    /\ phase = "upstream"
    /\ phase' \in {"planned", "refused"}
    /\ UNCHANGED <<client, history, config, key, request, allowed, wire, attempts>>

AttemptFails ==
    /\ phase = "upstream"
    /\ phase' \in (IF attempts < MaxAttempts THEN {"planned", "refused"} ELSE {"refused"})
    /\ UNCHANGED <<client, history, config, key, request, allowed, wire, attempts>>

\* The client of a request that failed sends the same history again.
Resend == phase = "refused" /\ Sends(<<>>)

Answer(said, calls) ==
    /\ phase = "upstream" /\ Len(history) < MaxMessages
    /\ said # <<>> \/ calls > 0
    /\ history' = Append(history, [role |-> "assistant",
                                   content |-> said \o [i \in 1 .. calls |-> Call(CallCount + i)]])
    /\ phase' = IF calls = 0 THEN "user" ELSE "tools"
    /\ UNCHANGED <<client, config, key, request, allowed, wire, attempts>>

Reconfigure(c) ==
    /\ c # config /\ phase \in {"user", "planned"}
    /\ config' = c
    /\ UNCHANGED <<client, history, phase, key, request, allowed, wire, attempts>>

EditKeyMode(k) ==
    /\ k # key /\ phase \in {"tools", "planned"}
    /\ key' = k
    /\ UNCHANGED <<client, history, phase, config, request, allowed, wire, attempts>>

\* The conversation is as long as the bound lets it be.
ConversationEnds ==
    /\ Len(history) >= MaxMessages /\ phase \in {"user", "upstream"}
    /\ UNCHANGED vars

Optional(texts) == {<<>>} \cup {<<Said(t)>> : t \in texts}

PipelineNext ==
    \/ \E t \in UserTexts : UserSays(t)
    \/ \E t \in ResultTexts, remark \in Optional(Remarks) : ReturnResults(t, remark)
    \/ Optimized
    \/ \E p \in Protocol : Attempt(p)
    \/ AttemptFails
    \/ Resend
    \/ \E said \in Optional(AnswerTexts), n \in 0 .. MaxCalls : Answer(said, n)
    \/ \E c \in Configs : Reconfigure(c)
    \/ \E k \in KeyModes : EditKeyMode(k)
    \/ ConversationEnds

PipelineSpec == PipelineInit /\ [][PipelineNext]_vars

-----------------------------------------------------------------------------
(* Properties.                                                               *)

\* Every phase, request and wire is one the gateway can hold.
PipelineTypeOK ==
    /\ client \in Protocol
    /\ phase \in {"user", "tools", "arrived", "planned", "upstream", "refused"}
    /\ config \in Configs /\ key \in KeyModes
    /\ \A m \in Range(history) : m.role \in Roles /\ m.content # <<>>
    /\ request.max \in {"absent", "client", "planned"}
    /\ request.loss \in {"lossless", "selective"}
    /\ \A m \in Range(request.messages) : \A b \in Range(m.content) :
            b.kind = "text" => b.text \in Text
    /\ wire.to \in Protocol
    /\ attempts \in 0 .. MaxAttempts

Positions(msgs, b) == {p \in Blocks(msgs) : At(msgs, p) = b}

\* The encoder for OpenAI providers keeps the last block of a tool message.
Crowded(m, j) == wire.to = "openai" /\ j < Len(m.content)

\* Whatever is trimmed, rewritten and re-encoded, in every mode and on every
\* attempt: each tool result of the client reaches the provider with its text,
\* after the call it answers, unless another block followed it in its message
\* and the provider speaks the OpenAI protocol.
ResultsReachUnlessCrowded ==
    phase = "upstream" =>
        \A i \in DOMAIN history : \A j \in DOMAIN history[i].content :
            LET b == history[i].content[j]
            IN  b.kind = "result" /\ ~Crowded(history[i], j) =>
                    \E r \in Positions(wire.messages, b) :
                        \E c \in Positions(wire.messages, Call(b.id)) : Before(c, r)

\* The texts of a request, without the noise a lossless stage may remove and
\* the header deduplication puts on a retained source.
Sense(t) == [t EXCEPT !.noise = t.noise \ {"ansi", "spaced"},
                      !.mark = IF t.mark = "source" THEN "none" ELSE t.mark]
Meaning(msgs) == Rewrite(msgs, Roles, LAMBDA p, t : Sense(t))

\* What the optimizer leaves out of a request was allowed, when it was taken
\* up, by the server's mode and by the key's, and its record says so, with one
\* exception: repeated lines of tool messages collapsed where that saves
\* nothing, and then nothing else is left out. Anything else reaches the
\* provider with its meaning, whatever is reconfigured since.
LossDeclared ==
    phase \in {"planned", "upstream"} =>
        \/ Meaning(request.messages) = Meaning(Parsed)
        \/ /\ \A m \in allowed : m \in {"balanced", "aggressive"}
           /\ \/ request.loss = "selective"
              \/ /\ Meaning(request.messages) = Meaning(Quieter(Parsed, "runs"))
                 /\ ~Pays(Parsed)

\* optimization/types.go:16: "Lossless means no information was removed or
\* altered in meaning."
LosslessKeepsMeaning ==
    phase \in {"planned", "upstream"} /\ request.loss = "lossless" =>
        Meaning(request.messages) = Meaning(Parsed)

\* compact.go: conversation trimming cannot delete the source of a reference.
DuplicatesResolve ==
    \A p \in Blocks(request.messages) :
        LET b == At(request.messages, p)
        IN  b.kind = "text" /\ b.text.mark = "reference" =>
                \E s \in Blocks(request.messages) :
                    /\ Before(s, p)
                    /\ At(request.messages, s).kind = "text"
                    /\ At(request.messages, s).text.mark = "source"
                    /\ At(request.messages, s).text.say = b.text.say
=============================================================================
