------------------------------ MODULE MCRouting ------------------------------
(* Two requests on three configurations of a smart route (live, live with    *)
(* one provider left, in shadow), an alias with two targets or a smart route *)
(* that is off with its default disabled, and a direct model; one key edited *)
(* between two policies, one session, providers whose circuit or credential  *)
(* comes and goes.                                                           *)
EXTENDS Routing, TLC

CONSTANTS p1, p2, p3, t1, t2, t3, k1, s1, i1, smart, plain, odd, named, r1, r2

MCProviderOf == [t \in Target |-> CASE t = t1 -> p1 [] t = t2 -> p2 [] t = t3 -> p3]

Able(caps, privacy) == [found |-> TRUE, caps |-> caps, context |-> 8000, output |-> 100,
                        cost |-> 2, privacy |-> privacy]
Unprofiled == [found |-> FALSE, caps |-> {}, context |-> 0, output |-> 0, cost |-> 0,
               privacy |-> None]

(* t1 sees and is private, t2 is stronger and can do nothing special, t3 has *)
(* a profile under a name only.                                              *)
MCProfile ==
    [x \in Target \X (ProfileName \cup {None}) |->
        CASE x[1] = t1 -> Able({"vision", "tools"}, "local")
          [] x[1] = t2 -> Able({}, "cloud")
          [] x[1] = t3 -> IF x[2] = named THEN Able({"tools"}, "private-cloud") ELSE Unprofiled]

MCFit == [x \in [target: Target, profile: ProfileName \cup {None}] \X Type |->
            IF x[1].target = t3 /\ x[2] = "translation" THEN 40 ELSE 80]
MCScore == [x \in [target: Target, profile: ProfileName \cup {None}] \X Type \X DOMAIN Builtin |->
            CASE x[1].target = t1 -> 60
              [] x[1].target = t2 -> IF x[2] = "translation" THEN 90 ELSE 65
              [] x[1].target = t3 -> IF x[2] = "code_review" THEN 80 ELSE 20]

On(t, n) == [target |-> t, profile |-> n]
SmartRoute(mode, default) ==
    [is |-> "smart", mode |-> mode, policy |-> "balanced", default |-> default,
     candidates |-> <<On(t1, None), On(t2, None), On(t3, named), On(t1, named)>>,
     strict |-> TRUE, affinity |-> TRUE]
Plain == [is |-> "targets", targets |-> <<t2, t1>>]

MCConfig(mode, enabled, auth, other) ==
    [present |-> Provider, enabled |-> enabled, allowDirect |-> auth, authRequired |-> auth,
     alias |-> [a \in Alias |-> IF a = smart THEN SmartRoute(mode, t1) ELSE other]]
MCConfigs == {MCConfig("live", Provider, TRUE, Plain), MCConfig("live", {p2}, TRUE, Plain),
              MCConfig("shadow", {p1, p2}, FALSE, SmartRoute("off", t3))}

MCPolicies ==
    {[enabled |-> TRUE, expired |-> FALSE, aliases |-> {}, allowDirect |-> TRUE,
      models |-> {t1}, output |-> 50],
     [enabled |-> TRUE, expired |-> FALSE, aliases |-> {plain}, allowDirect |-> FALSE,
      models |-> {}, output |-> 0]}

About(signs, tokens) == [signs |-> signs, tokens |-> tokens, context |-> tokens,
                         output |-> 60, constraints |-> 0, turns |-> 1]

MCAsk(token, name, about, session, policy) ==
    [token |-> token, ip |-> i1, name |-> name, about |-> about, session |-> session,
     reclassify |-> FALSE, policy |-> policy, require |-> {}, cost |-> 0, many |-> FALSE]

(* A tie of two types, an image in a session, a task in it that t2 wins, a   *)
(* request nothing is known of, a private one, and the other kinds of name.  *)
Tied == About({"translate", "review"}, 100)
MCAsks ==
    {MCAsk(k1, smart, Tied, s1, None),
     MCAsk(k1, smart, About({"image", "translate"}, 100), s1, None),
     MCAsk(k1, smart, About({"image"}, 100), None, None),
     MCAsk(k1, smart, About({"translate"}, 100), None, "private"),
     MCAsk(k1, smart, Tied, None, "unknown"),
     MCAsk(k1, plain, Tied, None, None), MCAsk(k1, t1, Tied, None, None),
     MCAsk("bad", plain, Tied, None, None), MCAsk("none", smart, Tied, None, None)}

(* One that asks for what no candidate is known to do.                       *)
ShadowAsks ==
    MCAsks \cup {[MCAsk(k1, smart, Tied, None, None) EXCEPT !.require = {"structured_output"}]}

(* For the two questions about a pair of equal requests.                     *)
TieAsks == {MCAsk(k1, smart, Tied, None, None)}
SessionAsks == {MCAsk(k1, smart, Tied, s1, None)}

Symmetric == Permutations(Req)
=============================================================================
