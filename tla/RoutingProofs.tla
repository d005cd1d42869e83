--------------------------- MODULE RoutingProofs ---------------------------
(* What holds of Routing for every configuration, key table and request.     *)
(* RoutingInv says, place by place, what a request has been through: the     *)
(* handler it met, the row that let it in, the check of its name, and where  *)
(* its choice and its plan come from.  A ranking is an order of the eligible *)
(* candidates by counting those ahead; that every rank is taken (RanksCover) *)
(* is a pigeonhole argument, so that no induction over the list is needed.   *)
EXTENDS Routing, FiniteSetTheorems, TLAPS

-----------------------------------------------------------------------------
(* Orders. *)

Ahead(S, R, x) == {y \in S : <<y, x>> \in R}

(* In a finite set with a strict total order R, for every k up to its size   *)
(* there is a member with k - 1 before it.                                   *)
LEMMA RanksCover ==
    ASSUME NEW S, IsFiniteSet(S), NEW R,
           \A x \in S : <<x, x>> \notin R,
           \A x, y, z \in S : <<x, y>> \in R /\ <<y, z>> \in R => <<x, z>> \in R,
           \A x, y \in S : x = y \/ <<x, y>> \in R \/ <<y, x>> \in R,
           NEW k \in 1..Cardinality(S)
    PROVE  \E x \in S : Cardinality(Ahead(S, R, x)) = k - 1
<1> DEFINE n == Cardinality(S)
           ahead(x) == {y \in S : <<y, x>> \in R}
           f == [x \in S |-> Cardinality(ahead(x))]
           T == (0..(n - 1)) \ {k - 1}
<1>1. n \in Nat /\ k \in 1..n
  BY FS_CardinalityType
<1>2. ASSUME NEW x \in S
      PROVE  IsFiniteSet(ahead(x)) /\ Cardinality(ahead(x)) \in 0..(n - 1)
  <2>1. ahead(x) \in SUBSET (S \ {x})
    OBVIOUS
  <2> HIDE DEF ahead
  <2>2. IsFiniteSet(S \ {x}) /\ Cardinality(S \ {x}) = n - 1
    BY FS_RemoveElement
  <2>3. IsFiniteSet(ahead(x)) /\ Cardinality(ahead(x)) <= Cardinality(S \ {x})
    BY <2>1, <2>2, FS_Subset
  <2> HIDE DEF n
  <2> QED
    BY <1>1, <2>2, <2>3, FS_CardinalityType
<1>3. ASSUME NEW x \in S, NEW y \in S, <<x, y>> \in R
      PROVE  Cardinality(ahead(x)) # Cardinality(ahead(y))
  <2>1. ahead(x) \in SUBSET ahead(y) /\ ahead(x) # ahead(y)
    BY <1>3
  <2> HIDE DEF ahead
  <2> QED
    BY <1>2, <2>1, FS_Subset
<1> HIDE DEF ahead
<1>4. ASSUME NEW x \in S, NEW y \in S, x # y PROVE f[x] # f[y]
  BY <1>3, <1>4
<1>5. SUFFICES ASSUME \A x \in S : Cardinality(ahead(x)) # k - 1 PROVE FALSE
  BY DEF ahead, Ahead
<1>6. f \in [S -> T]
  BY <1>2, <1>5
<1>7. IsFiniteSet(T) /\ Cardinality(T) = n - 1
  <2> HIDE DEF n
  <2>1. IsFiniteSet(0..(n - 1)) /\ Cardinality(0..(n - 1)) = n
    BY <1>1, FS_Interval
  <2>2. k - 1 \in 0..(n - 1)
    BY <1>1
  <2> DEFINE I == 0..(n - 1)
             m == k - 1
  <2>3. IsFiniteSet(I) /\ Cardinality(I) = n /\ m \in I /\ T = I \ {m}
    BY <2>1, <2>2
  <2> HIDE DEF I, m, T
  <2> QED
    BY <2>3, FS_RemoveElement
<1> HIDE DEF f, T
<1>8. Cardinality(T) < Cardinality(S)
  BY <1>1, <1>7
<1>9. \E x, y \in S : x # y /\ f[x] = f[y]
  BY <1>6, <1>7, <1>8, FS_PigeonHole
<1> QED
  BY <1>4, <1>9

(* The places of a sequence that are kept: each item comes from a place of   *)
(* its own.                                                                  *)
Picks(s, places, picked) ==
    \E m \in Nat : \E at \in [1..m -> places] :
        /\ DOMAIN picked = 1..m /\ \A k \in 1..m : picked[k] = s[at[k]]
        /\ \A k, l \in 1..m : at[k] = at[l] => k = l

LEMMA OnlyPlaces ==
    ASSUME NEW s, NEW n \in Nat, NEW places \in SUBSET (1..n)
    PROVE  Picks(s, places, Only(s, places))
<1> DEFINE R == {p \in places \X places : p[1] < p[2]}
           before(i) == {j \in places : j < i}
           m == Cardinality(places)
           at == [k \in 1..m |-> CHOOSE i \in places : Cardinality(before(i)) = k - 1]
<1>1. IsFiniteSet(places)
  <2>1. IsFiniteSet(1..n)
    BY FS_Interval
  <2> QED
    BY <2>1, FS_Subset
<1>2. m \in Nat
  BY <1>1, FS_CardinalityType
<1>3. \A x, y \in places : <<x, y>> \in R <=> x < y
  OBVIOUS
<1>4. places \subseteq Int
  OBVIOUS
<1>5. ASSUME NEW i \in places PROVE before(i) = Ahead(places, R, i)
  BY <1>3 DEF Ahead
<1> HIDE DEF R
<1>6. ASSUME NEW k \in 1..m PROVE \E i \in places : Cardinality(before(i)) = k - 1
  <2>1. /\ \A x \in places : <<x, x>> \notin R
        /\ \A x, y, z \in places : <<x, y>> \in R /\ <<y, z>> \in R => <<x, z>> \in R
        /\ \A x, y \in places : x = y \/ <<x, y>> \in R \/ <<y, x>> \in R
    BY <1>3, <1>4
  <2>2. \E i \in places : Cardinality(Ahead(places, R, i)) = k - 1
    BY <1>1, <2>1, RanksCover
  <2> QED
    BY <1>5, <2>2
<1> HIDE DEF before
<1>7. \A k \in 1..m : at[k] \in places /\ Cardinality(before(at[k])) = k - 1
  BY <1>6
<1>8. \A k \in 1..m : Only(s, places)[k] = s[at[k]]
  BY DEF Only, before
<1>9. DOMAIN Only(s, places) = 1..m
  BY DEF Only
<1>10. at \in [1..m -> places]
  BY <1>7
<1> HIDE DEF at, m
<1>11. \A k, l \in 1..m : at[k] = at[l] => k = l
  BY <1>2, <1>7
<1> QED
  BY <1>2, <1>8, <1>9, <1>10, <1>11 DEF Picks

(* A ranking holds eligible candidates only.                                *)
LEMMA RankedEligible ==
    ASSUME NEW cands \in Seq(Candidate), NEW t, t.need \in Type,
           NEW policy, policy.name \in DOMAIN Builtin, NEW strict, NEW view
    PROVE  /\ \E n \in Nat : DOMAIN Ranked(cands, t, policy, strict, view) = 1..n
           /\ Ranked(cands, t, policy, strict, view) # <<>> =>
                 1 \in DOMAIN Ranked(cands, t, policy, strict, view)
           /\ \A k \in DOMAIN Ranked(cands, t, policy, strict, view) :
                 LET c == Ranked(cands, t, policy, strict, view)[k]
                 IN  c \in Candidate /\ Eligible(c, t, policy, strict, view)
<1> DEFINE in == {i \in DOMAIN cands : Eligible(cands[i], t, policy, strict, view)}
           ahead(i) == {j \in in : Better(cands, t, policy, j, i)}
           R == {p \in in \X in : Better(cands, t, policy, p[1], p[2])}
           m == Cardinality(in)
           ranked == Ranked(cands, t, policy, strict, view)
<1>1. IsFiniteSet(in)
  <2>1. Len(cands) \in Nat /\ DOMAIN cands = 1..Len(cands)
    OBVIOUS
  <2>2. IsFiniteSet(1..Len(cands))
    BY <2>1, FS_Interval
  <2>3. in \in SUBSET (1..Len(cands))
    BY <2>1
  <2> QED
    BY <2>2, <2>3, FS_Subset
<1>2. m \in Nat
  BY <1>1, FS_CardinalityType
<1>3. DOMAIN ranked = 1..m /\ \A k \in 1..m :
         ranked[k] = cands[CHOOSE i \in in : Cardinality(ahead(i)) = k - 1]
  BY DEF Ranked
<1>a. m = 0 => ranked = <<>>
  <2>1. ranked = [k \in 1..m |-> cands[CHOOSE i \in in : Cardinality(ahead(i)) = k - 1]]
    BY DEF Ranked
  <2> HIDE DEF in, ahead, m
  <2> QED
    BY <2>1
<1>4. \A i, j \in in : <<i, j>> \in R <=> Better(cands, t, policy, i, j)
  OBVIOUS
<1>5. \A i \in in : i \in Int /\ cands[i] \in Candidate
  OBVIOUS
<1>6. \A i \in in : Eligible(cands[i], t, policy, strict, view)
  OBVIOUS
<1>7. \A i \in in : ahead(i) = Ahead(in, R, i)
  BY <1>4 DEF Ahead
<1> HIDE DEF R, in
<1>8. ASSUME NEW k \in 1..m PROVE \E i \in in : Cardinality(ahead(i)) = k - 1
  <2> DEFINE value(i) == Score[cands[i], t.need, policy.name]
  <2>1. \A i \in in : value(i) \in Int
    <3>1. \A c \in Candidate : Score[c, t.need, policy.name] \in Int
      BY EngineAssumption
    <3> QED
      BY <1>5, <3>1
  <2>2. \A i, j \in in : Better(cands, t, policy, i, j) <=>
                            value(i) > value(j) \/ (value(i) = value(j) /\ i < j)
    BY DEF Better
  <2> HIDE DEF value
  <2>3. /\ \A x \in in : <<x, x>> \notin R
        /\ \A x, y, z \in in : <<x, y>> \in R /\ <<y, z>> \in R => <<x, z>> \in R
        /\ \A x, y \in in : x = y \/ <<x, y>> \in R \/ <<y, x>> \in R
    BY <1>4, <1>5, <2>1, <2>2
  <2>4. \E i \in in : Cardinality(Ahead(in, R, i)) = k - 1
    BY <1>1, <2>3, RanksCover
  <2> QED
    BY <1>7, <2>4
<1> HIDE DEF ahead, ranked
<1>9. ASSUME NEW k \in 1..m
      PROVE  ranked[k] \in Candidate /\ Eligible(ranked[k], t, policy, strict, view)
  BY <1>3, <1>5, <1>6, <1>8
<1>10. ranked # <<>> => 1 \in DOMAIN ranked
  BY <1>2, <1>3, <1>a
<1> QED
  BY <1>2, <1>3, <1>9, <1>10 DEF ranked

(* The attempts of a live plan are the choice and the ranking's targets,     *)
(* each once, of enabled providers.                                          *)
LEMMA AttemptsFrom ==
    ASSUME NEW chosen \in Target, NEW ranked, NEW n \in Nat, DOMAIN ranked = 1..n,
           \A i \in 1..n : ranked[i].target \in Target, NEW enabled
    PROVE  LET attempts == Attempts(chosen, ranked, enabled)
           IN  /\ \E m \in Nat : DOMAIN attempts = 1..m
               /\ \A k \in DOMAIN attempts :
                     /\ attempts[k] \in Target /\ ProviderOf[attempts[k]] \in enabled
                     /\ attempts[k] = chosen \/ \E i \in 1..n : attempts[k] = ranked[i].target
               /\ \A k, l \in DOMAIN attempts : attempts[k] = attempts[l] => k = l
<1> DEFINE all == <<chosen>> \o Targets(ranked)
           places == {i \in DOMAIN all : /\ ProviderOf[all[i]] \in enabled
                                         /\ \A j \in 1..(i - 1) : all[j] # all[i]}
           attempts == Attempts(chosen, ranked, enabled)
<1>1. /\ Targets(ranked) \in Seq(Target) /\ Len(Targets(ranked)) = n
      /\ \A i \in 1..n : Targets(ranked)[i] = ranked[i].target
  BY DEF Targets
<1>2. /\ DOMAIN all = 1..(n + 1) /\ all[1] = chosen
      /\ \A i \in 2..(n + 1) : all[i] = ranked[i - 1].target
  <2>1. /\ <<chosen>> \in Seq(Target) /\ Len(<<chosen>>) = 1 /\ <<chosen>>[1] = chosen
    OBVIOUS
  <2> HIDE DEF Targets
  <2>2. all \in Seq(Target) /\ Len(all) = 1 + n
    BY <1>1, <2>1
  <2>3. \A i \in 1..(n + 1) : all[i] = IF i <= 1 THEN <<chosen>>[i] ELSE Targets(ranked)[i - 1]
    BY <1>1, <2>1
  <2> HIDE DEF all
  <2>4. DOMAIN all = 1..(n + 1)
    BY <2>2
  <2>5. all[1] = chosen
    BY <2>1, <2>3
  <2>6. ASSUME NEW i \in 2..(n + 1) PROVE all[i] = ranked[i - 1].target
    <3>1. i \in 1..(n + 1) /\ ~(i <= 1) /\ i - 1 \in 1..n
      BY <2>6
    <3> QED
      BY <1>1, <2>3, <3>1
  <2> QED
    BY <2>4, <2>5, <2>6
<1>3. \A i \in 1..(n + 1) :
         /\ all[i] \in Target
         /\ all[i] = chosen \/ \E j \in 1..n : all[i] = ranked[j].target
  <2> HIDE DEF all
  <2> TAKE i \in 1..(n + 1)
  <2>1. CASE i = 1
    BY <1>2, <2>1
  <2>2. CASE i # 1
    <3>1. i \in 2..(n + 1) /\ i - 1 \in 1..n
      BY <2>2
    <3> QED
      BY <1>2, <3>1
  <2> QED
    BY <2>1, <2>2
<1>4. attempts = Only(all, places)
  BY DEF Attempts
<1>a. PICK len \in Nat : len = n + 1
  OBVIOUS
<1>5. places \in SUBSET (1..len) /\ places \subseteq 1..(n + 1) /\ \A i \in places : i \in Int
  BY <1>2, <1>a
<1>6. /\ \A i \in places : ProviderOf[all[i]] \in enabled
      /\ \A i, j \in places : j < i => all[j] # all[i]
  BY <1>5
<1> HIDE DEF all, places, attempts
<1>7. Picks(all, places, attempts)
  <2>1. \A P \in SUBSET (1..len) : Picks(all, P, Only(all, P))
    BY OnlyPlaces
  <2> QED
    BY <1>4, <1>5, <2>1
<1>b. PICK m \in Nat : \E at \in [1..m -> places] :
            /\ DOMAIN attempts = 1..m /\ \A k \in 1..m : attempts[k] = all[at[k]]
            /\ \A k, l \in 1..m : at[k] = at[l] => k = l
  BY <1>7 DEF Picks
<1>8. PICK at \in [1..m -> places] :
            /\ DOMAIN attempts = 1..m /\ \A k \in 1..m : attempts[k] = all[at[k]]
            /\ \A k, l \in 1..m : at[k] = at[l] => k = l
  BY <1>b
<1>9. ASSUME NEW k \in 1..m
      PROVE  /\ attempts[k] \in Target /\ ProviderOf[attempts[k]] \in enabled
             /\ attempts[k] = chosen \/ \E i \in 1..n : attempts[k] = ranked[i].target
  <2>1. at[k] \in places /\ at[k] \in 1..(n + 1) /\ attempts[k] = all[at[k]]
    BY <1>5, <1>8
  <2> QED
    BY <1>3, <1>6, <2>1
<1>10. ASSUME NEW k \in 1..m, NEW l \in 1..m, attempts[k] = attempts[l] PROVE k = l
  <2>1. /\ at[k] \in places /\ at[l] \in places /\ at[k] \in Int /\ at[l] \in Int
        /\ all[at[k]] = all[at[l]]
    BY <1>5, <1>8, <1>10
  <2>2. at[k] = at[l]
    BY <1>6, <2>1
  <2> QED
    BY <1>8, <2>2
<1>11. \E q \in Nat : DOMAIN attempts = 1..q
  BY <1>8
<1>12. /\ \A k \in DOMAIN attempts :
             /\ attempts[k] \in Target /\ ProviderOf[attempts[k]] \in enabled
             /\ attempts[k] = chosen \/ \E i \in 1..n : attempts[k] = ranked[i].target
       /\ \A k, l \in DOMAIN attempts : attempts[k] = attempts[l] => k = l
  BY <1>8, <1>9, <1>10
<1> QED
  BY <1>11, <1>12 DEF attempts

-----------------------------------------------------------------------------
(* What a request is taken to be. *)

(* What every profile the classifier may give a request has.                 *)
LEMMA ClassifyFacts ==
    ASSUME NEW q \in Request, NEW t \in Classify(q)
    PROVE  /\ t.type \in Type \cup {"unknown"} /\ t.need \in Type
           /\ t.complexity \in {"simple", "medium", "complex"}
           /\ t.hard = Hard(q)
           /\ DOMAIN t = {"type", "need", "complexity", "hard", "confidence"}
<1>1. PICK u \in Highest(q) :
         t = [type |-> IF Points(q, u) < 350 THEN "unknown" ELSE u, need |-> u,
              complexity |-> Complexity(q), hard |-> Hard(q), confidence |-> Confidence(q, u)]
  BY DEF Classify
<1>2. u \in Type
  BY DEF Highest
<1>3. Complexity(q) \in {"simple", "medium", "complex"}
  BY DEF Complexity
<1> HIDE DEF Type
<1> QED
  BY <1>1, <1>2, <1>3

(* What a request carries.                                                   *)
LEMMA AskFacts ==
    ASSUME NEW q \in Asks
    PROVE  /\ q.about \in Request /\ q.name \in Alias \cup Direct \cup Odd
           /\ q.session \in Session \cup {None} /\ q.ip \in Ip
           /\ q.token \in Key \cup {"none", "bad"}
           /\ q.policy \in (DOMAIN Builtin) \cup {None, "unknown"}
<1>1. q \in Ask
  BY RoutingAssumption
<1> QED
  BY <1>1 DEF Ask

(* A profile as ApplySmart passes it on: the header's capabilities added, the*)
(* output limit capped by the key.                                           *)
LEMMA ClassifiedFacts ==
    ASSUME NEW r \in Req, ask[r] \in Asks, NEW t \in Classified(r)
    PROVE  /\ t.type \in Type \cup {"unknown"} /\ t.need \in Type
           /\ t.complexity \in {"simple", "medium", "complex"}
           /\ t.hard.caps = Hard(ask[r].about).caps \cup ask[r].require
           /\ t.hard.output = Capped(ask[r].about.output, as[r])
<1> DEFINE q == ask[r].about
<1>1. q \in Request
  BY AskFacts
<1>2. Classes[q] = Classify(q)
  BY DEF Classes
<1>3. PICK u \in Classify(q) :
         t = [u EXCEPT !.hard = [caps |-> u.hard.caps \cup ask[r].require,
                                 context |-> u.hard.context,
                                 output |-> Capped(u.hard.output, as[r])]]
  BY <1>2 DEF Classified
<1>4. /\ u.type \in Type \cup {"unknown"} /\ u.need \in Type
      /\ u.complexity \in {"simple", "medium", "complex"}
      /\ u.hard = Hard(q) /\ DOMAIN u = {"type", "need", "complexity", "hard", "confidence"}
  BY <1>1, ClassifyFacts
<1> DEFINE h == Hard(q)
<1>a. u.hard = h
  BY <1>4
<1>5. h.output = q.output
  BY DEF Hard
<1> HIDE DEF h, q
<1>6. /\ t.type = u.type /\ t.need = u.need /\ t.complexity = u.complexity
      /\ t.hard.caps = h.caps \cup ask[r].require
      /\ t.hard.output = Capped(h.output, as[r])
  <2>1. /\ t.hard = [caps |-> u.hard.caps \cup ask[r].require, context |-> u.hard.context,
                      output |-> Capped(u.hard.output, as[r])]
        /\ t.type = u.type /\ t.need = u.need /\ t.complexity = u.complexity
    BY <1>3, <1>4
  <2> QED
    BY <1>a, <2>1
<1> QED
  BY <1>4, <1>5, <1>6 DEF h, q

-----------------------------------------------------------------------------
(* Configurations. *)

(* What a configuration's routes hold.                                       *)
LEMMA ConfigFacts ==
    ASSUME NEW c \in Configs
    PROVE  /\ c.enabled \subseteq c.present /\ c.present \subseteq Provider
           /\ \A a \in Alias :
                 /\ c.alias[a].is \in {"targets", "smart"}
                 /\ c.alias[a].is = "targets" => c.alias[a].targets \in Seq(Target)
                 /\ c.alias[a].is = "smart" =>
                       /\ c.alias[a].candidates \in Seq(Candidate)
                       /\ c.alias[a].default \in Target \cup {None}
                       /\ c.alias[a].policy \in DOMAIN Builtin
<1>1. c \in Config /\ c.enabled \subseteq c.present
  BY RoutingAssumption
<1>2. c.present \subseteq Provider /\ c.alias \in [Alias -> Route]
  BY <1>1 DEF Config
<1>3. ASSUME NEW a \in Alias
      PROVE  /\ c.alias[a].is \in {"targets", "smart"}
             /\ c.alias[a].is = "targets" => c.alias[a].targets \in Seq(Target)
             /\ c.alias[a].is = "smart" =>
                   /\ c.alias[a].candidates \in Seq(Candidate)
                   /\ c.alias[a].default \in Target \cup {None}
                   /\ c.alias[a].policy \in DOMAIN Builtin
  <2>1. PICK rt \in Route : rt = c.alias[a]
    BY <1>2
  <2>2. /\ rt.is \in {"targets", "smart"}
        /\ rt.is = "targets" => rt.targets \in Seq(Target)
        /\ rt.is = "smart" =>
              /\ rt.candidates \in Seq(Candidate)
              /\ rt.default \in Target \cup {None} /\ rt.policy \in DOMAIN Builtin
    BY DEF Route
  <2> QED
    BY <2>1, <2>2
<1> QED
  BY <1>1, <1>2, <1>3

(* The enabled targets of a list are some of its targets.                   *)
LEMMA EnabledTyped ==
    ASSUME NEW ts \in Seq(Target), NEW c
    PROVE  \A i \in DOMAIN Enabled(c, ts) : Enabled(c, ts)[i] \in Target
<1> DEFINE places == {i \in DOMAIN ts : IsEnabled(c, ts[i])}
           len == Len(ts)
           picked == Enabled(c, ts)
<1>1. len \in Nat /\ DOMAIN ts = 1..len /\ places \in SUBSET (1..len)
  OBVIOUS
<1>2. picked = Only(ts, places)
  BY DEF Enabled
<1>3. \A i \in places : ts[i] \in Target
  OBVIOUS
<1> HIDE DEF places, len, picked
<1>4. Picks(ts, places, picked)
  <2>1. \A P \in SUBSET (1..len) : Picks(ts, P, Only(ts, P))
    BY <1>1, OnlyPlaces
  <2> QED
    BY <1>1, <1>2, <2>1
<1>5. \A i \in DOMAIN picked : picked[i] \in Target
  BY <1>3, <1>4 DEF Picks
<1> QED
  BY <1>5 DEF picked

(* A direct model has one target.                                           *)
LEMMA EnabledOne ==
    ASSUME NEW t, NEW c
    PROVE  Enabled(c, <<t>>) \in {<<>>, <<t>>}
<1> DEFINE places == {i \in {1} : IsEnabled(c, t)}
<1>1. Enabled(c, <<t>>) = Only(<<t>>, places)
  BY DEF Enabled
<1>2. CASE IsEnabled(c, t)
  <2>1. places = {1}
    BY <1>2
  <2>2. Cardinality({1}) = 1 /\ Cardinality({j \in {1} : j < 1}) = 0
    BY FS_Singleton, FS_EmptySet
  <2>3. (CHOOSE i \in {1} : Cardinality({j \in {1} : j < i}) = 0) = 1
    BY <2>2
  <2> HIDE DEF places
  <2> DEFINE at(k) == CHOOSE i \in {1} : Cardinality({j \in {1} : j < i}) = k - 1
  <2>4. Only(<<t>>, places) = [k \in 1..1 |-> <<t>>[at(k)]]
    BY <2>1, <2>2 DEF Only
  <2>5. at(1) = 1
    <3>1. 1 - 1 = 0
      OBVIOUS
    <3> QED
      BY <2>3, <3>1
  <2> HIDE DEF at
  <2>6. [k \in 1..1 |-> <<t>>[at(k)]] = [k \in 1..1 |-> t]
    BY <2>5
  <2>7. [k \in 1..1 |-> t] = <<t>>
    OBVIOUS
  <2> QED
    BY <1>1, <2>4, <2>6, <2>7
<1>3. CASE ~IsEnabled(c, t)
  <2>1. places = {}
    BY <1>3
  <2>2. Cardinality({}) = 0
    BY FS_EmptySet
  <2> HIDE DEF places
  <2>3. Only(<<t>>, places) = <<>>
    BY <2>1, <2>2 DEF Only
  <2> QED
    BY <1>1, <2>3
<1> QED
  BY <1>2, <1>3

(* A plan made without the engine names targets; a direct model has only     *)
(* itself.                                                                   *)
LEMMA DeterministicFacts ==
    ASSUME NEW c \in Configs, NEW name \in Alias \cup Direct, ~IsSmart(c, name)
    PROVE  /\ \A i \in DOMAIN Deterministic(c, name) : Deterministic(c, name)[i] \in Target
           /\ name \in Direct => Deterministic(c, name) \in {<<>>, <<name>>}
<1>1. CASE name \in Direct
  <2>1. Deterministic(c, name) \in {<<>>, <<name>>}
    BY <1>1, EnabledOne DEF Deterministic
  <2>2. name \in Target
    BY <1>1, RoutingAssumption
  <2>3. \A i \in DOMAIN Deterministic(c, name) : Deterministic(c, name)[i] \in Target
    BY <2>1, <2>2
  <2> QED
    BY <2>1, <2>3
<1>2. CASE name \notin Direct
  <2> DEFINE rt == c.alias[name]
             out == Deterministic(c, name)
  <2>0. name \in Alias
    BY <1>2
  <2>1. CASE rt.is = "targets"
    <3>1. out = Enabled(c, rt.targets) /\ rt.targets \in Seq(Target)
      BY <1>2, <2>0, <2>1, ConfigFacts DEF Deterministic
    <3> QED
      BY <1>2, <3>1, EnabledTyped
  <2>2. CASE rt.is # "targets"
    <3>1. rt.default \in Target \cup {None}
      BY <2>0, <2>2, ConfigFacts
    <3>2. out = <<>> \/ (out = <<rt.default>> /\ rt.default # None)
      BY <1>2, <2>2 DEF Deterministic
    <3> QED
      BY <1>2, <3>1, <3>2
  <2> QED
    BY <2>1, <2>2
<1> QED
  BY <1>1, <1>2

-----------------------------------------------------------------------------
(* The inductive invariant. *)

(* A handler knows the health of exactly its configuration's providers.     *)
HandlerOK(h) == h.config \in Configs /\ h.view \in [h.config.present -> ProviderState]

(* The row a request goes under let it in.                                   *)
AuthOK(r) ==
    IF as[r] = None THEN ~via[r].config.authRequired
    ELSE as[r] \in Policies /\ ask[r].token \in Key /\ as[r].enabled /\ ~as[r].expired

(* A choice is a pin that passed the filter, the default of an unsure        *)
(* classification, or one of the ranking.                                    *)
ChosenOK(r) ==
    /\ ask[r].policy # "unknown" /\ task[r] \in Classified(r)
    /\ choice[r].target \in Target
    /\ choice[r].because = "pinned" =>
          Admissible([target |-> choice[r].target, profile |-> None], task[r], PolicyOf(r),
                     Rt(r).strict, via[r].view)
    /\ choice[r].because = "unsure" => choice[r].target = Rt(r).default
    /\ choice[r].because \notin {"pinned", "unsure"} =>
          \E i \in DOMAIN RankedFor(r, task[r]) :
             choice[r].target = RankedFor(r, task[r])[i].target

Smart(r) == IsSmart(via[r].config, ask[r].name)

RequestOK(r) ==
    /\ place[r] # "idle" => ask[r] \in Asks /\ HandlerOK(via[r])
    /\ place[r] \in {"known", "chosen", "planned"} => AuthOK(r)
    /\ place[r] \in {"chosen", "planned"} => Admitted(r)
    /\ place[r] = "chosen" => Smart(r)
    /\ (place[r] \in {"chosen", "planned"} /\ Smart(r)) => ChosenOK(r)
    /\ place[r] = "planned" =>
          /\ plan[r] # <<>>
          /\ Smart(r) => plan[r] = SmartPlan(r)
          /\ ~Smart(r) => plan[r] = Deterministic(via[r].config, ask[r].name)

RoutingInv ==
    /\ RoutingTypeOK
    /\ HandlerOK(handler)
    /\ DOMAIN task = Req /\ DOMAIN choice = Req /\ DOMAIN plan = Req
    /\ \A r \in Req : RequestOK(r)

(* What a request does not do to another.                                   *)
Keeps(r) ==
    /\ place'[r] = place[r] /\ ask'[r] = ask[r] /\ via'[r] = via[r] /\ as'[r] = as[r]
    /\ task'[r] = task[r] /\ choice'[r] = choice[r] /\ plan'[r] = plan[r]

(* What a request is judged by depends on its own entries only.              *)
LEMMA SameRoute ==
    ASSUME NEW r, ask'[r] = ask[r], via'[r] = via[r]
    PROVE  /\ Rt(r)' = Rt(r) /\ PolicyOf(r)' = PolicyOf(r) /\ Smart(r)' = Smart(r)
           /\ Deterministic(via[r].config, ask[r].name)' = Deterministic(via[r].config, ask[r].name)
           /\ \A t : RankedFor(r, t)' = RankedFor(r, t)
<1>1. Rt(r)' = Rt(r)
  BY DEF Rt
<1>2. PolicyOf(r)' = PolicyOf(r)
  BY <1>1 DEF PolicyOf
<1>3. Smart(r)' = Smart(r)
  BY DEF Smart
<1>4. Deterministic(via[r].config, ask[r].name)' = Deterministic(via[r].config, ask[r].name)
  OBVIOUS
<1>5. \A t : RankedFor(r, t)' = RankedFor(r, t)
  BY <1>1, <1>2 DEF RankedFor
<1> QED
  BY <1>1, <1>2, <1>3, <1>4, <1>5

LEMMA SameTask ==
    ASSUME NEW r, ask'[r] = ask[r], via'[r] = via[r], as'[r] = as[r]
    PROVE  AuthOK(r)' = AuthOK(r) /\ Admitted(r)' = Admitted(r) /\ Classified(r)' = Classified(r)
<1>1. AuthOK(r)' = AuthOK(r)
  BY DEF AuthOK
<1>2. Admitted(r)' = Admitted(r)
  BY DEF Admitted
<1>3. Classified(r)' = Classified(r)
  BY DEF Classified
<1> QED
  BY <1>1, <1>2, <1>3

LEMMA SameChoice ==
    ASSUME NEW r, ask'[r] = ask[r], via'[r] = via[r], as'[r] = as[r],
           task'[r] = task[r], choice'[r] = choice[r]
    PROVE  ChosenOK(r)' = ChosenOK(r) /\ SmartPlan(r)' = SmartPlan(r)
<1>1. /\ Rt(r)' = Rt(r) /\ PolicyOf(r)' = PolicyOf(r)
      /\ \A t : RankedFor(r, t)' = RankedFor(r, t)
  BY SameRoute
<1>2. Classified(r)' = Classified(r)
  BY SameTask
<1>3. RankedFor(r, task[r])' = RankedFor(r, task[r])
  BY <1>1, SameRoute DEF RankedFor
<1>4. SmartPlan(r)' = SmartPlan(r)
  BY <1>1, <1>3 DEF SmartPlan
<1>5. ChosenOK(r)' = ChosenOK(r)
  BY <1>1, <1>2, <1>3 DEF ChosenOK
<1> QED
  BY <1>4, <1>5

LEMMA RequestKeeps ==
    ASSUME NEW r, Keeps(r), RequestOK(r)
    PROVE  RequestOK(r)'
<1>1. /\ Smart(r)' = Smart(r)
      /\ Deterministic(via[r].config, ask[r].name)' = Deterministic(via[r].config, ask[r].name)
  BY SameRoute DEF Keeps
<1>2. AuthOK(r)' = AuthOK(r) /\ Admitted(r)' = Admitted(r)
  BY SameTask DEF Keeps
<1>3. ChosenOK(r)' = ChosenOK(r) /\ SmartPlan(r)' = SmartPlan(r)
  BY SameChoice DEF Keeps
<1> QED
  BY <1>1, <1>2, <1>3 DEF Keeps, RequestOK

-----------------------------------------------------------------------------
(* A step of one request keeps the invariant when what it leaves of its own  *)
(* request is as it should be.                                               *)
LEMMA OneMoves ==
    ASSUME RoutingInv, NEW r \in Req, UNCHANGED serverVars,
           failures' \in [Ip -> 0..(MaxFailures + 1)], pins' \in [Session -> Pin \cup {None}],
           place' \in [Req -> Place], ask' \in [Req -> Asks \cup {None}],
           via' \in [Req -> Handler \cup {None}], as' \in [Req -> Policies \cup {None}],
           DOMAIN task' = Req, DOMAIN choice' = Req, DOMAIN plan' = Req,
           \A s \in Req \ {r} : Keeps(s),
           choice'[r] # None => choice'[r].target \in Target,
           \A i \in (DOMAIN plan'[r]) : plan'[r][i] \in Target,
           place'[r] = "planned" => plan'[r] # <<>>,
           RequestOK(r)'
    PROVE  RoutingInv'
<1>1. ASSUME NEW s \in Req PROVE RequestOK(s)'
  <2>1. CASE s = r
    BY <2>1
  <2>2. CASE s # r
    <3>1. Keeps(s) /\ RequestOK(s)
      BY <2>2 DEF RoutingInv
    <3> QED
      BY <3>1, RequestKeeps
  <2> QED
    BY <2>1, <2>2
<1>2. ASSUME NEW s \in Req
      PROVE  /\ choice'[s] # None => choice'[s].target \in Target
             /\ \A i \in (DOMAIN plan'[s]) : plan'[s][i] \in Target
             /\ place'[s] = "planned" => plan'[s] # <<>>
  <2>1. CASE s = r
    BY <2>1
  <2>2. CASE s # r
    <3>1. Keeps(s)
      BY <2>2
    <3> QED
      BY <3>1 DEF Keeps, RoutingInv, RoutingTypeOK
  <2> QED
    BY <2>1, <2>2
<1>3. RoutingTypeOK'
  BY <1>2 DEF RoutingInv, RoutingTypeOK, serverVars
<1>4. HandlerOK(handler)'
  BY DEF RoutingInv, HandlerOK, serverVars
<1> QED
  BY <1>1, <1>3, <1>4 DEF RoutingInv

(* One lemma for each way a request leaves, enters or moves on.              *)
LEMMA ForgetKeeps ==
    ASSUME RoutingInv, NEW r \in Req, Forget(r), UNCHANGED serverVars,
           failures' \in [Ip -> 0..(MaxFailures + 1)], pins' \in [Session -> Pin \cup {None}]
    PROVE  RoutingInv'
<1>1. /\ place \in [Req -> Place] /\ ask \in [Req -> Asks \cup {None}]
      /\ via \in [Req -> Handler \cup {None}] /\ as \in [Req -> Policies \cup {None}]
      /\ DOMAIN task = Req /\ DOMAIN choice = Req /\ DOMAIN plan = Req
  BY DEF RoutingInv, RoutingTypeOK
<1>2. /\ place' \in [Req -> Place] /\ place'[r] = "idle"
      /\ ask' \in [Req -> Asks \cup {None}] /\ via' \in [Req -> Handler \cup {None}]
      /\ as' \in [Req -> Policies \cup {None}]
  BY <1>1 DEF Forget, Goto, Place
<1>3. /\ DOMAIN task' = Req /\ DOMAIN choice' = Req /\ DOMAIN plan' = Req
      /\ choice'[r] = None /\ plan'[r] = <<>>
  BY <1>1 DEF Forget
<1>4. \A s \in Req \ {r} : Keeps(s)
  BY <1>1 DEF Forget, Goto, Keeps
<1>5. RequestOK(r)'
  BY <1>2 DEF RequestOK
<1> QED
  BY <1>2, <1>3, <1>4, <1>5, OneMoves

LEMMA EntersKeeps ==
    ASSUME RoutingInv, NEW r \in Req, NEW ck \in Policies \cup {None}, Enters(r, ck),
           place[r] = "arrived", UNCHANGED serverVars,
           IF ck = None THEN ~via[r].config.authRequired
           ELSE ask[r].token \in Key /\ ck.enabled /\ ~ck.expired,
           failures' \in [Ip -> 0..(MaxFailures + 1)], pins' \in [Session -> Pin \cup {None}]
    PROVE  RoutingInv'
<1>1. /\ place \in [Req -> Place] /\ ask \in [Req -> Asks \cup {None}]
      /\ via \in [Req -> Handler \cup {None}] /\ as \in [Req -> Policies \cup {None}]
      /\ DOMAIN task = Req /\ DOMAIN choice = Req /\ DOMAIN plan = Req
  BY DEF RoutingInv, RoutingTypeOK
<1>2. /\ place' \in [Req -> Place] /\ place'[r] = "known"
      /\ ask' = ask /\ via' = via /\ task' = task /\ choice' = choice /\ plan' = plan
      /\ as' \in [Req -> Policies \cup {None}] /\ as'[r] = ck
  BY <1>1 DEF Enters, Goto, Place
<1>3. \A s \in Req \ {r} : Keeps(s)
  BY <1>1 DEF Enters, Goto, Keeps
<1>4. /\ choice'[r] # None => choice'[r].target \in Target
      /\ \A i \in (DOMAIN plan'[r]) : plan'[r][i] \in Target
  BY <1>2 DEF RoutingInv, RoutingTypeOK
<1>5. RequestOK(r)'
  <2>1. ask[r] \in Asks /\ HandlerOK(via[r])
    BY DEF RoutingInv, RequestOK
  <2>2. AuthOK(r)'
    BY <1>2 DEF AuthOK
  <2> QED
    BY <1>2, <2>1, <2>2 DEF RequestOK, HandlerOK
<1> QED
  BY <1>1, <1>2, <1>3, <1>4, <1>5, OneMoves

LEMMA ArriveKeeps ==
    ASSUME RoutingInv, NEW r \in Req, NEW q \in Asks, Arrive(r, q)
    PROVE  RoutingInv'
<1>1. /\ place \in [Req -> Place] /\ ask \in [Req -> Asks \cup {None}]
      /\ via \in [Req -> Handler \cup {None}] /\ as \in [Req -> Policies \cup {None}]
      /\ DOMAIN task = Req /\ DOMAIN choice = Req /\ DOMAIN plan = Req
      /\ handler \in Handler /\ HandlerOK(handler)
      /\ failures \in [Ip -> 0..(MaxFailures + 1)] /\ pins \in [Session -> Pin \cup {None}]
  BY DEF RoutingInv, RoutingTypeOK
<1>2. /\ place' \in [Req -> Place] /\ place'[r] = "arrived"
      /\ ask' \in [Req -> Asks \cup {None}] /\ ask'[r] = q
      /\ via' \in [Req -> Handler \cup {None}] /\ via'[r] = handler
      /\ as' = as /\ task' = task /\ choice' = choice /\ plan' = plan
      /\ failures' = failures /\ pins' = pins /\ UNCHANGED serverVars
  BY <1>1 DEF Arrive, Goto, Place
<1>3. \A s \in Req \ {r} : Keeps(s)
  BY <1>1 DEF Arrive, Goto, Keeps
<1>4. /\ choice'[r] # None => choice'[r].target \in Target
      /\ \A i \in (DOMAIN plan'[r]) : plan'[r][i] \in Target
  BY <1>2 DEF RoutingInv, RoutingTypeOK
<1>5. RequestOK(r)'
  BY <1>1, <1>2 DEF RequestOK, HandlerOK
<1> QED
  BY <1>1, <1>2, <1>3, <1>4, <1>5, OneMoves

LEMMA AuthKeeps ==
    ASSUME RoutingInv, NEW r \in Req,
           Anonymous(r) \/ Unmatched(r) \/ Matched(r) \/ LookupFails(r)
    PROVE  RoutingInv'
<1>1. /\ failures \in [Ip -> 0..(MaxFailures + 1)] /\ pins \in [Session -> Pin \cup {None}]
      /\ keys \in [Key -> Policies]
  BY DEF RoutingInv, RoutingTypeOK
<1>2. CASE Anonymous(r)
  <2>1. /\ place[r] = "arrived" /\ UNCHANGED <<serverVars, failures, pins>>
        /\ IF via[r].config.authRequired THEN Forget(r) ELSE Enters(r, None)
    BY <1>2 DEF Anonymous
  <2> QED
    BY <1>1, <2>1, ForgetKeeps, EntersKeeps
<1>3. CASE Unmatched(r)
  <2>1. /\ place[r] = "arrived" /\ UNCHANGED <<serverVars, pins>>
        /\ IF via[r].config.authRequired THEN Forget(r) ELSE Enters(r, None)
        /\ failures' = [failures EXCEPT ![ask[r].ip] = Least(@ + 1, MaxFailures + 1)]
    BY <1>3 DEF Unmatched
  <2>2. failures' \in [Ip -> 0..(MaxFailures + 1)]
    <3>1. \A n \in 0..(MaxFailures + 1) : Least(n + 1, MaxFailures + 1) \in 0..(MaxFailures + 1)
      BY RoutingAssumption DEF Least
    <3> QED
      BY <1>1, <2>1, <3>1
  <2> QED
    BY <1>1, <2>1, <2>2, ForgetKeeps, EntersKeeps
<1>4. CASE Matched(r)
  <2>1. /\ place[r] = "arrived" /\ Matches(r) /\ UNCHANGED <<serverVars, pins>>
        /\ IF keys[ask[r].token].expired THEN Forget(r) ELSE Enters(r, keys[ask[r].token])
        /\ failures' = [failures EXCEPT ![ask[r].ip] = 0]
    BY <1>4 DEF Matched
  <2>2. failures' \in [Ip -> 0..(MaxFailures + 1)]
    <3>1. 0 \in 0..(MaxFailures + 1)
      BY RoutingAssumption
    <3> QED
      BY <1>1, <2>1, <3>1
  <2>3. CASE keys[ask[r].token].expired
    BY <1>1, <2>1, <2>2, <2>3, ForgetKeeps
  <2>4. CASE ~keys[ask[r].token].expired
    <3>1. PICK ck \in Policies : ck = keys[ask[r].token]
      BY <1>1, <2>1 DEF Matches
    <3>2. ask[r].token \in Key /\ ck.enabled /\ ~ck.expired /\ ck # None /\ Enters(r, ck)
      BY <2>1, <2>4, <3>1, RoutingAssumption DEF Matches
    <3> QED
      BY <1>1, <2>1, <2>2, <3>2, EntersKeeps
  <2> QED
    BY <2>3, <2>4
<1>5. CASE LookupFails(r)
  <2>1. Forget(r) /\ UNCHANGED <<serverVars, failures, pins>>
    BY <1>5 DEF LookupFails
  <2> QED
    BY <1>1, <2>1, ForgetKeeps
<1> QED
  BY <1>2, <1>3, <1>4, <1>5

LEMMA AnsweredKeeps ==
    ASSUME RoutingInv, NEW r \in Req, Refused(r) \/ UnknownPolicy(r) \/ Served(r)
    PROVE  RoutingInv'
<1>1. failures \in [Ip -> 0..(MaxFailures + 1)] /\ pins \in [Session -> Pin \cup {None}]
  BY DEF RoutingInv, RoutingTypeOK
<1>2. Forget(r) /\ UNCHANGED <<serverVars, failures, pins>>
  BY DEF Refused, UnknownPolicy, Served
<1> QED
  BY <1>1, <1>2, ForgetKeeps

(* Resolve: the plan of a name that meets no smart route.                    *)
LEMMA ResolveKeeps ==
    ASSUME RoutingInv, NEW r \in Req, Resolve(r)
    PROVE  RoutingInv'
<1> DEFINE out == Deterministic(via[r].config, ask[r].name)
<1>1. /\ place \in [Req -> Place] /\ ask \in [Req -> Asks \cup {None}]
      /\ via \in [Req -> Handler \cup {None}] /\ as \in [Req -> Policies \cup {None}]
      /\ DOMAIN task = Req /\ DOMAIN choice = Req /\ DOMAIN plan = Req
      /\ failures \in [Ip -> 0..(MaxFailures + 1)] /\ pins \in [Session -> Pin \cup {None}]
  BY DEF RoutingInv, RoutingTypeOK
<1>2. /\ place[r] = "known" /\ Admitted(r) /\ ~Smart(r) /\ out # <<>>
      /\ plan' = [plan EXCEPT ![r] = out] /\ place' = [place EXCEPT ![r] = "planned"]
      /\ UNCHANGED <<serverVars, failures, pins, ask, via, as, task, choice>>
  BY DEF Resolve, Goto, Smart
<1>3. ask[r] \in Asks /\ HandlerOK(via[r]) /\ AuthOK(r)
  BY <1>2 DEF RoutingInv, RequestOK
<1>4. \A i \in DOMAIN out : out[i] \in Target
  <2>1. ask[r].name \in Alias \cup Direct
    BY <1>2, <1>3, AskFacts DEF Admitted
  <2> QED
    BY <1>2, <1>3, <2>1, DeterministicFacts DEF HandlerOK, Smart
<1> HIDE DEF out
<1>5. /\ place' \in [Req -> Place] /\ place'[r] = "planned" /\ plan'[r] = out
      /\ DOMAIN plan' = Req
  BY <1>1, <1>2 DEF Place
<1>6. \A s \in Req \ {r} : Keeps(s)
  BY <1>1, <1>2 DEF Keeps
<1>7. choice'[r] # None => choice'[r].target \in Target
  BY <1>2 DEF RoutingInv, RoutingTypeOK
<1>8. RequestOK(r)'
  <2>1. AuthOK(r)' /\ Admitted(r)'
    BY <1>2, <1>3, SameTask
  <2>2. Smart(r)' = Smart(r) /\ Deterministic(via[r].config, ask[r].name)' = out
    BY <1>2, SameRoute DEF out
  <2>3. ask'[r] \in Asks /\ HandlerOK(via[r])'
    BY <1>2, <1>3 DEF HandlerOK
  <2> QED
    BY <1>2, <1>5, <2>1, <2>2, <2>3 DEF RequestOK
<1> QED
  BY <1>1, <1>2, <1>4, <1>5, <1>6, <1>7, <1>8, OneMoves

(* The ranking of a request the engine is asked about.                      *)
LEMMA RankedForFacts ==
    ASSUME NEW r \in Req, ask[r] \in Asks, HandlerOK(via[r]), Smart(r),
           ask[r].policy # "unknown", NEW t \in Classified(r)
    PROVE  /\ \E n \in Nat : DOMAIN RankedFor(r, t) = 1..n
           /\ RankedFor(r, t) # <<>> => 1 \in DOMAIN RankedFor(r, t)
           /\ \A k \in DOMAIN RankedFor(r, t) :
                 /\ RankedFor(r, t)[k] \in Candidate
                 /\ Admissible(RankedFor(r, t)[k], t, PolicyOf(r), Rt(r).strict, via[r].view)
<1>1. /\ ask[r].name \in Alias /\ via[r].config \in Configs
      /\ Rt(r) = via[r].config.alias[ask[r].name] /\ Rt(r).is = "smart"
  BY DEF Smart, IsSmart, Rt, HandlerOK
<1>2. Rt(r).candidates \in Seq(Candidate) /\ Rt(r).policy \in DOMAIN Builtin
  BY <1>1, ConfigFacts
<1>3. t.need \in Type
  BY ClassifiedFacts
<1>4. PolicyOf(r).name \in DOMAIN Builtin
  <2>1. ask[r].policy \in (DOMAIN Builtin) \cup {None}
    BY AskFacts
  <2>2. PolicyOf(r).name = IF ask[r].policy = None THEN Rt(r).policy ELSE ask[r].policy
    BY DEF PolicyOf, Policy
  <2> QED
    BY <1>2, <2>1, <2>2
<1>5. /\ \E n \in Nat : DOMAIN RankedFor(r, t) = 1..n
      /\ RankedFor(r, t) # <<>> => 1 \in DOMAIN RankedFor(r, t)
      /\ \A k \in DOMAIN RankedFor(r, t) :
            /\ RankedFor(r, t)[k] \in Candidate
            /\ Eligible(RankedFor(r, t)[k], t, PolicyOf(r), Rt(r).strict, via[r].view)
  BY <1>2, <1>3, <1>4, RankedEligible DEF RankedFor
<1> QED
  BY <1>5 DEF Eligible

(* What Select returns.                                                     *)
LEMMA ChoiceFacts ==
    ASSUME RoutingInv, NEW r \in Req, ask[r] \in Asks, HandlerOK(via[r]), Smart(r),
           ask[r].policy # "unknown", NEW t \in Classified(r),
           NEW pick, pick = ChoiceFor(r, t), pick.target # None
    PROVE  /\ pick.target \in Target
           /\ pick.because = "pinned" =>
                 Admissible([target |-> pick.target, profile |-> None], t, PolicyOf(r),
                            Rt(r).strict, via[r].view)
           /\ pick.because = "unsure" => pick.target = Rt(r).default
           /\ pick.because \notin {"pinned", "unsure"} =>
                 \E i \in DOMAIN RankedFor(r, t) : pick.target = RankedFor(r, t)[i].target
<1> DEFINE ranked == RankedFor(r, t)
<1>1. /\ ranked # <<>> => 1 \in DOMAIN ranked
      /\ \A k \in DOMAIN ranked : ranked[k].target \in Target
  BY RankedForFacts DEF Candidate
<1>2. CASE IsPinned(r, t)
  <2>1. pick = [target |-> PinOf(r).target, because |-> "pinned"]
    BY <1>2 DEF ChoiceFor
  <2>2. PinOf(r) \in Pin
    <3>1. ask[r].session \in Session \cup {None} /\ PinOf(r) # None
      BY <1>2, AskFacts DEF IsPinned
    <3>2. PinOf(r) = pins[ask[r].session] /\ ask[r].session # None
      BY <3>1 DEF PinOf
    <3>3. pins \in [Session -> Pin \cup {None}]
      BY DEF RoutingInv, RoutingTypeOK
    <3> QED
      BY <3>1, <3>2, <3>3
  <2>3. PinOf(r).target \in Target
    BY <2>2 DEF Pin
  <2>4. Admissible([target |-> PinOf(r).target, profile |-> None], t, PolicyOf(r),
                   Rt(r).strict, via[r].view)
    BY <1>2 DEF IsPinned, PinHolds
  <2> QED
    BY <2>1, <2>3, <2>4
<1>3. CASE ~IsPinned(r, t)
  <2>1. pick = Choice(Rt(r).default, ranked, t, PolicyOf(r))
    BY <1>3 DEF ChoiceFor
  <2>2. Rt(r).default \in Target \cup {None}
    <3>1. ask[r].name \in Alias /\ via[r].config \in Configs /\ Rt(r).is = "smart"
      BY DEF Smart, IsSmart, Rt, HandlerOK
    <3> QED
      BY <3>1, ConfigFacts DEF Rt
  <2> HIDE DEF ranked
  <2>3. \/ pick = [target |-> Rt(r).default, because |-> "unsure"]
        \/ pick = [target |-> Best(ranked), because |-> "best"]
        \/ /\ pick = [target |-> Rt(r).default, because |-> "generalist"]
           /\ PrefersDefault(Rt(r).default, ranked, t, PolicyOf(r))
    BY <2>1 DEF Choice
  <2>4. Best(ranked) # None => \E i \in DOMAIN ranked : Best(ranked) = ranked[i].target
    BY <1>1 DEF Best
  <2>5. PrefersDefault(Rt(r).default, ranked, t, PolicyOf(r)) =>
           \E i \in DOMAIN ranked : Rt(r).default = ranked[i].target
    BY DEF PrefersDefault
  <2>6. CASE pick = [target |-> Rt(r).default, because |-> "unsure"]
    BY <2>2, <2>6
  <2>7. CASE pick = [target |-> Best(ranked), because |-> "best"]
    BY <1>1, <2>4, <2>7 DEF ranked
  <2>8. CASE /\ pick = [target |-> Rt(r).default, because |-> "generalist"]
             /\ PrefersDefault(Rt(r).default, ranked, t, PolicyOf(r))
    BY <1>1, <2>5, <2>8 DEF ranked
  <2> QED
    BY <2>3, <2>6, <2>7, <2>8
<1> QED
  BY <1>2, <1>3

(* Choose: the request has a choice, or is answered with an error.           *)
LEMMA ChooseKeeps ==
    ASSUME RoutingInv, NEW r \in Req, NEW t \in Classified(r), Choose(r, t)
    PROVE  RoutingInv'
<1> DEFINE pick == ChoiceFor(r, t)
<1>1. /\ place \in [Req -> Place] /\ ask \in [Req -> Asks \cup {None}]
      /\ via \in [Req -> Handler \cup {None}] /\ as \in [Req -> Policies \cup {None}]
      /\ DOMAIN task = Req /\ DOMAIN choice = Req /\ DOMAIN plan = Req
      /\ failures \in [Ip -> 0..(MaxFailures + 1)] /\ pins \in [Session -> Pin \cup {None}]
  BY DEF RoutingInv, RoutingTypeOK
<1>2. /\ place[r] = "known" /\ Admitted(r) /\ Smart(r) /\ ask[r].policy # "unknown"
      /\ UNCHANGED <<serverVars, failures, pins>>
      /\ \/ pick.target = None /\ Forget(r)
         \/ /\ pick.target # None /\ task' = [task EXCEPT ![r] = t]
            /\ choice' = [choice EXCEPT ![r] = pick] /\ place' = [place EXCEPT ![r] = "chosen"]
            /\ UNCHANGED <<ask, via, as, plan>>
  BY DEF Choose, MayChoose, Goto, Smart
<1>3. ask[r] \in Asks /\ HandlerOK(via[r]) /\ AuthOK(r)
  BY <1>2 DEF RoutingInv, RequestOK
<1>4. CASE pick.target = None /\ Forget(r)
  BY <1>1, <1>2, <1>4, ForgetKeeps
<1>5. CASE /\ pick.target # None /\ task' = [task EXCEPT ![r] = t]
           /\ choice' = [choice EXCEPT ![r] = pick] /\ place' = [place EXCEPT ![r] = "chosen"]
           /\ UNCHANGED <<ask, via, as, plan>>
  <2>1. /\ pick.target \in Target
        /\ pick.because = "pinned" =>
              Admissible([target |-> pick.target, profile |-> None], t, PolicyOf(r),
                         Rt(r).strict, via[r].view)
        /\ pick.because = "unsure" => pick.target = Rt(r).default
        /\ pick.because \notin {"pinned", "unsure"} =>
              \E i \in DOMAIN RankedFor(r, t) : pick.target = RankedFor(r, t)[i].target
    BY <1>2, <1>3, <1>5, ChoiceFacts
  <2> HIDE DEF pick
  <2>2. /\ place' \in [Req -> Place] /\ place'[r] = "chosen" /\ choice'[r] = pick
        /\ task'[r] = t /\ DOMAIN task' = Req /\ DOMAIN choice' = Req
    BY <1>1, <1>5 DEF Place
  <2>3. \A s \in Req \ {r} : Keeps(s)
    BY <1>1, <1>5 DEF Keeps
  <2>4. \A i \in (DOMAIN plan'[r]) : plan'[r][i] \in Target
    BY <1>5 DEF RoutingInv, RoutingTypeOK
  <2>5. AuthOK(r)' /\ Admitted(r)' /\ Classified(r)' = Classified(r)
    BY <1>2, <1>3, <1>5, SameTask
  <2>6. /\ Rt(r)' = Rt(r) /\ PolicyOf(r)' = PolicyOf(r) /\ Smart(r)'
        /\ RankedFor(r, task[r])' = RankedFor(r, t)
    <3>1. /\ Rt(r)' = Rt(r) /\ PolicyOf(r)' = PolicyOf(r) /\ Smart(r)' = Smart(r)
      BY <1>5, SameRoute
    <3>2. RankedFor(r, task[r])' = RankedFor(r, t)
      BY <1>5, <2>2, <3>1 DEF RankedFor
    <3> QED
      BY <1>2, <3>1, <3>2
  <2>7. ChosenOK(r)'
    BY <1>2, <1>5, <2>1, <2>2, <2>5, <2>6 DEF ChosenOK
  <2>8. ask'[r] \in Asks /\ HandlerOK(via[r])'
    BY <1>3, <1>5 DEF HandlerOK
  <2>9. RequestOK(r)'
    BY <2>2, <2>5, <2>6, <2>7, <2>8 DEF RequestOK
  <2>10. choice'[r].target \in Target
    BY <2>1, <2>2
  <2>11. place'[r] # "planned"
    BY <2>2
  <2>12. /\ UNCHANGED serverVars
         /\ failures' \in [Ip -> 0..(MaxFailures + 1)] /\ pins' \in [Session -> Pin \cup {None}]
         /\ ask' \in [Req -> Asks \cup {None}] /\ via' \in [Req -> Handler \cup {None}]
         /\ as' \in [Req -> Policies \cup {None}] /\ DOMAIN plan' = Req
    BY <1>1, <1>2, <1>5
  <2> QED
    BY <2>2, <2>3, <2>4, <2>9, <2>10, <2>11, <2>12, OneMoves
<1> QED
  BY <1>2, <1>4, <1>5

(* Whatever passes the hard filter, from a provider the handler knows, meets *)
(* the request's hard needs.                                                 *)
LEMMA AdmissibleSuits ==
    ASSUME NEW r \in Req, ask[r] \in Asks, HandlerOK(via[r]), Smart(r),
           ask[r].policy # "unknown", NEW t \in Classified(r), NEW c \in Candidate,
           Admissible(c, t, PolicyOf(r), Rt(r).strict, via[r].view),
           IsEnabled(via[r].config, c.target)
    PROVE  Suits(r, c.target)
<1> DEFINE q == ask[r].about
           needs == ask[r].require
                    \cup {x \in {"vision"} : "image" \in q.signs}
                    \cup {x \in {"tools"} : "tools required" \in q.signs}
           name == IF ask[r].policy = None THEN Rt(r).policy ELSE ask[r].policy
           p == ProviderOf[c.target]
           pr == Profile[c.target, c.profile]
<1>0. /\ t.hard.caps \subseteq pr.caps /\ ~Unhealthy(via[r].view, p)
      /\ PolicyOf(r).private => pr.privacy \in {"local", "private-cloud"}
  BY Zenon DEF Admissible
<1> HIDE DEF pr
<1>1. needs \subseteq t.hard.caps
  <2>1. t.hard.caps = Hard(q).caps \cup ask[r].require
    BY ClassifiedFacts
  <2>2. {x \in {"vision"} : "image" \in q.signs} \subseteq Hard(q).caps
    BY DEF Hard
  <2>3. {x \in {"tools"} : "tools required" \in q.signs} \subseteq Hard(q).caps
    BY DEF Hard
  <2> QED
    BY <2>1, <2>2, <2>3
<1>3. name = "private" => pr.privacy \in {"local", "private-cloud"}
  <2>1. PolicyOf(r).private = Builtin[name].private
    BY DEF PolicyOf, Policy
  <2>2. Builtin["private"].private
    BY DEF Builtin
  <2> QED
    BY <1>0, <2>1, <2>2
<1>4. via[r].view[p].credential /\ ~via[r].view[p].open
  <2>1. p \in DOMAIN via[r].view
    <3>1. p \in via[r].config.enabled
      BY DEF IsEnabled
    <3> QED
      BY <3>1, ConfigFacts DEF HandlerOK
  <2> QED
    BY <1>0, <2>1 DEF Unhealthy
<1>5. c.profile \in ProfileName \cup {None}
  BY DEF Candidate
<1> HIDE DEF needs, name
<1>6. \E n \in ProfileName \cup {None} :
         /\ needs \subseteq Profile[c.target, n].caps
         /\ name = "private" => Profile[c.target, n].privacy \in {"local", "private-cloud"}
  <2>1. /\ needs \subseteq Profile[c.target, c.profile].caps
        /\ name = "private" =>
              Profile[c.target, c.profile].privacy \in {"local", "private-cloud"}
    BY <1>0, <1>1, <1>3, Zenon DEF pr
  <2> QED
    BY <1>5, <2>1, Zenon
<1> QED
  BY <1>4, <1>6 DEF Suits, needs, name

(* The plan of a choice.                                                    *)
LEMMA SmartPlanFacts ==
    ASSUME NEW r \in Req, ask[r] \in Asks, HandlerOK(via[r]), Smart(r), ChosenOK(r)
    PROVE  /\ \A i \in DOMAIN SmartPlan(r) : SmartPlan(r)[i] \in Target
           /\ Rt(r).mode = "live" =>
                 /\ \A i, j \in DOMAIN SmartPlan(r) : SmartPlan(r)[i] = SmartPlan(r)[j] => i = j
                 /\ \A i \in DOMAIN SmartPlan(r) :
                       /\ IsEnabled(via[r].config, SmartPlan(r)[i])
                       /\ Suits(r, SmartPlan(r)[i]) \/
                             (choice[r].because = "unsure" /\ SmartPlan(r)[i] = Rt(r).default)
<1> DEFINE ranked == RankedFor(r, task[r])
           chosen == choice[r].target
           enabled == via[r].config.enabled
           attempts == Attempts(chosen, ranked, enabled)
<1>1. /\ ask[r].policy # "unknown" /\ task[r] \in Classified(r) /\ chosen \in Target
      /\ choice[r].because = "pinned" =>
            Admissible([target |-> chosen, profile |-> None], task[r], PolicyOf(r),
                       Rt(r).strict, via[r].view)
      /\ choice[r].because = "unsure" => chosen = Rt(r).default
      /\ choice[r].because \notin {"pinned", "unsure"} =>
            \E i \in DOMAIN ranked : chosen = ranked[i].target
  BY DEF ChosenOK
<1>2. /\ \E n \in Nat : DOMAIN ranked = 1..n
      /\ \A k \in DOMAIN ranked :
            /\ ranked[k] \in Candidate
            /\ Admissible(ranked[k], task[r], PolicyOf(r), Rt(r).strict, via[r].view)
  BY <1>1, RankedForFacts
<1>3. \A k \in DOMAIN ranked : ranked[k].target \in Target
  BY <1>2 DEF Candidate
<1>4. /\ \A k \in DOMAIN attempts :
            /\ attempts[k] \in Target /\ ProviderOf[attempts[k]] \in enabled
            /\ attempts[k] = chosen \/ \E i \in DOMAIN ranked : attempts[k] = ranked[i].target
      /\ \A k, l \in DOMAIN attempts : attempts[k] = attempts[l] => k = l
  <2>1. PICK n \in Nat : DOMAIN ranked = 1..n
    BY <1>2
  <2>2. \A i \in 1..n : ranked[i].target \in Target
    BY <1>3, <2>1
  <2> HIDE DEF ranked, chosen, enabled
  <2>3. chosen \in Target
    BY <1>1
  <2>4. /\ \A k \in DOMAIN attempts :
              /\ attempts[k] \in Target /\ ProviderOf[attempts[k]] \in enabled
              /\ attempts[k] = chosen \/ \E i \in 1..n : attempts[k] = ranked[i].target
        /\ \A k, l \in DOMAIN attempts : attempts[k] = attempts[l] => k = l
    BY <2>1, <2>2, <2>3, AttemptsFrom
  <2> HIDE DEF attempts
  <2> QED
    BY <2>1, <2>4
<1>5. ASSUME NEW i \in DOMAIN ranked, IsEnabled(via[r].config, ranked[i].target)
      PROVE  Suits(r, ranked[i].target)
  BY <1>1, <1>2, <1>5, AdmissibleSuits
<1>6. ASSUME choice[r].because # "unsure", IsEnabled(via[r].config, chosen)
      PROVE  Suits(r, chosen)
  <2>1. CASE choice[r].because = "pinned"
    <3> DEFINE c == [target |-> chosen, profile |-> None]
    <3>1. /\ c \in Candidate /\ c.target = chosen
          /\ Admissible(c, task[r], PolicyOf(r), Rt(r).strict, via[r].view)
      BY <1>1, <2>1 DEF Candidate
    <3> HIDE DEF c, chosen
    <3>2. Suits(r, c.target)
      BY <1>1, <1>6, <3>1, AdmissibleSuits
    <3> QED
      BY <3>1, <3>2
  <2>2. CASE choice[r].because # "pinned"
    BY <1>1, <1>5, <1>6, <2>2
  <2> QED
    BY <2>1, <2>2
<1>7. CASE Rt(r).mode = "live"
  <2>1. SmartPlan(r) = attempts
    BY <1>7 DEF SmartPlan
  <2> HIDE DEF attempts, ranked, chosen
  <2>2. ASSUME NEW i \in DOMAIN attempts
        PROVE  /\ IsEnabled(via[r].config, attempts[i])
               /\ Suits(r, attempts[i]) \/
                     (choice[r].because = "unsure" /\ attempts[i] = Rt(r).default)
    <3>1. IsEnabled(via[r].config, attempts[i])
      BY <1>4, <2>2 DEF IsEnabled
    <3> QED
      BY <1>1, <1>4, <1>5, <1>6, <2>2, <3>1
  <2> QED
    BY <1>4, <2>1, <2>2
<1>8. CASE Rt(r).mode # "live"
  <2>1. Rt(r).default \in Target \cup {None}
    <3>1. ask[r].name \in Alias /\ via[r].config \in Configs /\ Rt(r).is = "smart"
      BY DEF Smart, IsSmart, Rt, HandlerOK
    <3> QED
      BY <3>1, ConfigFacts DEF Rt
  <2>2. SmartPlan(r) = <<>> \/ (SmartPlan(r) = <<Rt(r).default>> /\ Rt(r).default # None)
    BY <1>8 DEF SmartPlan
  <2> QED
    BY <1>8, <2>1, <2>2
<1> QED
  BY <1>7, <1>8

(* ApplySmart: the pin is written or lost, and the plan made of the choice.  *)
LEMMA ApplySmartKeeps ==
    ASSUME RoutingInv, NEW r \in Req, ApplySmart(r)
    PROVE  RoutingInv'
<1> DEFINE out == SmartPlan(r)
<1>1. /\ place \in [Req -> Place] /\ ask \in [Req -> Asks \cup {None}]
      /\ via \in [Req -> Handler \cup {None}] /\ as \in [Req -> Policies \cup {None}]
      /\ DOMAIN task = Req /\ DOMAIN choice = Req /\ DOMAIN plan = Req
      /\ failures \in [Ip -> 0..(MaxFailures + 1)] /\ pins \in [Session -> Pin \cup {None}]
  BY DEF RoutingInv, RoutingTypeOK
<1>2. /\ place[r] = "chosen" /\ pins' \in PinsAfter(r)
      /\ UNCHANGED <<serverVars, failures>>
      /\ \/ out = <<>> /\ Forget(r)
         \/ /\ out # <<>> /\ plan' = [plan EXCEPT ![r] = out]
            /\ place' = [place EXCEPT ![r] = "planned"]
            /\ UNCHANGED <<ask, via, as, task, choice>>
  BY DEF ApplySmart, Goto
<1>3. /\ ask[r] \in Asks /\ HandlerOK(via[r]) /\ AuthOK(r) /\ Admitted(r) /\ Smart(r)
      /\ ChosenOK(r)
  BY <1>2 DEF RoutingInv, RequestOK
<1>4. pins' \in [Session -> Pin \cup {None}]
  <2> DEFINE pin == [route |-> ask[r].name, target |-> choice[r].target,
                     type |-> task[r].type, complexity |-> task[r].complexity]
  <2>1. pin \in Pin
    <3>1. ask[r].name \in Alias
      BY <1>3 DEF Smart, IsSmart
    <3>2. choice[r].target \in Target /\ task[r] \in Classified(r)
      BY <1>3 DEF ChosenOK
    <3>3. /\ task[r].type \in Type \cup {"unknown"}
          /\ task[r].complexity \in {"simple", "medium", "complex"}
      BY <1>3, <3>2, ClassifiedFacts
    <3> QED
      BY <3>1, <3>2, <3>3 DEF Pin
  <2>2. pins' = pins \/ pins' = [pins EXCEPT ![ask[r].session] = pin]
    BY <1>2 DEF PinsAfter
  <2> HIDE DEF pin
  <2> QED
    BY <1>1, <2>1, <2>2
<1>5. \A i \in DOMAIN out : out[i] \in Target
  BY <1>3, SmartPlanFacts
<1> HIDE DEF out
<1>6. CASE out = <<>> /\ Forget(r)
  BY <1>1, <1>2, <1>4, <1>6, ForgetKeeps
<1>7. CASE /\ out # <<>> /\ plan' = [plan EXCEPT ![r] = out]
           /\ place' = [place EXCEPT ![r] = "planned"]
           /\ UNCHANGED <<ask, via, as, task, choice>>
  <2>1. /\ place' \in [Req -> Place] /\ place'[r] = "planned" /\ plan'[r] = out
        /\ DOMAIN plan' = Req
    BY <1>1, <1>7 DEF Place
  <2>2. \A s \in Req \ {r} : Keeps(s)
    BY <1>1, <1>7 DEF Keeps
  <2>3. choice'[r] # None => choice'[r].target \in Target
    BY <1>7 DEF RoutingInv, RoutingTypeOK
  <2>4. RequestOK(r)'
    <3>1. AuthOK(r)' /\ Admitted(r)'
      BY <1>3, <1>7, SameTask
    <3>2. Smart(r)'
      <4>1. Smart(r)' = Smart(r)
        BY <1>7, SameRoute
      <4> QED
        BY <1>3, <4>1
    <3>3. ChosenOK(r)' /\ SmartPlan(r)' = out
      <4>1. ChosenOK(r)' = ChosenOK(r) /\ SmartPlan(r)' = SmartPlan(r)
        BY <1>7, SameChoice
      <4> QED
        BY <1>3, <4>1 DEF out
    <3>4. ask'[r] \in Asks /\ HandlerOK(via[r])'
      BY <1>3, <1>7 DEF HandlerOK
    <3> QED
      BY <1>7, <2>1, <3>1, <3>2, <3>3, <3>4 DEF RequestOK
  <2>5. \A i \in (DOMAIN plan'[r]) : plan'[r][i] \in Target
    BY <1>5, <2>1
  <2>6. plan'[r] # <<>>
    BY <1>7, <2>1
  <2>7. /\ UNCHANGED serverVars /\ failures' \in [Ip -> 0..(MaxFailures + 1)]
        /\ ask' \in [Req -> Asks \cup {None}] /\ via' \in [Req -> Handler \cup {None}]
        /\ as' \in [Req -> Policies \cup {None}]
        /\ DOMAIN task' = Req /\ DOMAIN choice' = Req
    BY <1>1, <1>2, <1>7
  <2> QED
    BY <1>4, <2>1, <2>2, <2>3, <2>4, <2>5, <2>6, <2>7, OneMoves
<1> QED
  BY <1>2, <1>6, <1>7

-----------------------------------------------------------------------------
(* What changes around the requests. *)

(* The view of a handler made now.                                          *)
LEMMA ViewTyped ==
    ASSUME NEW c \in Configs
    PROVE  LET h == [config |-> c, view |-> ViewOf(c, open, stored)]
           IN  h \in Handler /\ HandlerOK(h)
<1>1. \A p : [enabled |-> p \in c.enabled, open |-> p \in open, credential |-> p \in stored]
                \in ProviderState
  BY DEF ProviderState
<1>2. ViewOf(c, open, stored) \in [c.present -> ProviderState]
  BY <1>1 DEF ViewOf
<1>3. ViewOf(c, open, stored) \in UNION {[d.present -> ProviderState] : d \in Configs}
  BY <1>2
<1> QED
  BY <1>2, <1>3 DEF Handler, HandlerOK

(* No change moves a request.                                               *)
LEMMA RequestsStay ==
    ASSUME RoutingInv, UNCHANGED requestVars
    PROVE  /\ \A r \in Req : RequestOK(r)'
           /\ DOMAIN task' = Req /\ DOMAIN choice' = Req /\ DOMAIN plan' = Req
           /\ place' \in [Req -> Place] /\ ask' \in [Req -> Asks \cup {None}]
           /\ via' \in [Req -> Handler \cup {None}] /\ as' \in [Req -> Policies \cup {None}]
           /\ \A r \in Req :
                 /\ choice'[r] # None => choice'[r].target \in Target
                 /\ \A i \in (DOMAIN plan'[r]) : plan'[r][i] \in Target
                 /\ place'[r] = "planned" => plan'[r] # <<>>
<1>1. ASSUME NEW r \in Req PROVE RequestOK(r)'
  <2>1. Keeps(r)
    BY DEF requestVars, Keeps
  <2> QED
    BY <2>1, RequestKeeps DEF RoutingInv
<1> QED
  BY <1>1 DEF requestVars, RoutingInv, RoutingTypeOK

LEMMA ChangeKeeps ==
    ASSUME RoutingInv,
           \/ \E c \in Configs : Reload(c)
           \/ \E k \in Key, p \in Policies : EditKey(k, p)
           \/ \E p \in Unsteady : CircuitTurns(p) \/ CredentialTurns(p)
           \/ \E s \in Session : PinExpires(s)
    PROVE  RoutingInv'
<1>1. /\ config \in Configs /\ handler \in Handler /\ HandlerOK(handler)
      /\ open \subseteq Provider /\ stored \subseteq Provider
      /\ keys \in [Key -> Policies] /\ failures \in [Ip -> 0..(MaxFailures + 1)]
      /\ pins \in [Session -> Pin \cup {None}] /\ turns \in 0..MaxTurns
  BY DEF RoutingInv, RoutingTypeOK
<1>2. UNCHANGED requestVars /\ Turn
  BY DEF Reload, EditKey, CircuitTurns, CredentialTurns, PinExpires
<1>3. turns' \in 0..MaxTurns
  BY <1>1, <1>2, RoutingAssumption DEF Turn
<1>4. /\ config' \in Configs /\ handler' \in Handler /\ HandlerOK(handler')
      /\ open' \subseteq Provider /\ stored' \subseteq Provider
      /\ keys' \in [Key -> Policies] /\ failures' \in [Ip -> 0..(MaxFailures + 1)]
      /\ pins' \in [Session -> Pin \cup {None}]
  <2>1. CASE \E c \in Configs : Reload(c)
    <3>1. PICK c \in Configs : Reload(c)
      BY <2>1
    <3>2. /\ config' = c /\ handler' = [config |-> c, view |-> ViewOf(c, open, stored)]
          /\ failures' = [i \in Ip |-> 0] /\ UNCHANGED <<open, stored, keys, pins>>
      BY <3>1 DEF Reload
    <3>3. handler' \in Handler /\ HandlerOK(handler')
      BY <3>2, ViewTyped
    <3>4. failures' \in [Ip -> 0..(MaxFailures + 1)]
      BY <3>2, RoutingAssumption
    <3> QED
      BY <1>1, <3>2, <3>3, <3>4
  <2>2. CASE \E k \in Key, p \in Policies : EditKey(k, p)
    BY <1>1, <2>2 DEF EditKey
  <2>3. CASE \E p \in Unsteady : CircuitTurns(p) \/ CredentialTurns(p)
    <3>1. Unsteady \subseteq Provider
      BY RoutingAssumption
    <3> QED
      BY <1>1, <2>3, <3>1 DEF CircuitTurns, CredentialTurns, Toggle
  <2>4. CASE \E s \in Session : PinExpires(s)
    BY <1>1, <2>4 DEF PinExpires
  <2> QED
    BY <2>1, <2>2, <2>3, <2>4
<1>5. HandlerOK(handler)'
  BY <1>4 DEF HandlerOK
<1> QED
  BY <1>2, <1>3, <1>4, <1>5, RequestsStay DEF RoutingInv, RoutingTypeOK

-----------------------------------------------------------------------------
(* The invariant holds at start and in every step.                           *)
LEMMA RoutingInitInv == RoutingInit => RoutingInv
<1> SUFFICES ASSUME RoutingInit PROVE RoutingInv
  OBVIOUS
<1>1. handler \in Handler /\ HandlerOK(handler)
  BY ViewTyped DEF RoutingInit
<1>2. /\ place = [r \in Req |-> "idle"] /\ plan = [r \in Req |-> <<>>]
      /\ choice = [r \in Req |-> None] /\ DOMAIN task = Req
  BY DEF RoutingInit
<1>3. \A r \in Req : RequestOK(r)
  BY <1>2 DEF RequestOK
<1>4. place \in [Req -> Place]
  BY <1>2 DEF Place
<1>5. 0 \in 0..(MaxFailures + 1) /\ 0 \in 0..MaxTurns
  BY RoutingAssumption
<1>6. RoutingTypeOK
  BY <1>1, <1>2, <1>4, <1>5 DEF RoutingInit, RoutingTypeOK
<1> QED
  BY <1>1, <1>2, <1>3, <1>6 DEF RoutingInv

LEMMA RoutingStepInv == RoutingInv /\ [RoutingNext]_routingVars => RoutingInv'
<1> SUFFICES ASSUME RoutingInv, [RoutingNext]_routingVars PROVE RoutingInv'
  OBVIOUS
<1>1. ASSUME NEW r \in Req, RequestStep(r) PROVE RoutingInv'
  BY <1>1, ArriveKeeps, AuthKeeps, AnsweredKeeps, ResolveKeeps, ChooseKeeps, ApplySmartKeeps
     DEF RequestStep
<1>2. CASE UNCHANGED routingVars
  <2>1. UNCHANGED requestVars /\ UNCHANGED <<serverVars, failures, pins>>
    BY <1>2 DEF routingVars, requestVars, serverVars
  <2>2. RoutingTypeOK'
    BY <2>1, RequestsStay DEF RoutingInv, RoutingTypeOK, serverVars
  <2>3. HandlerOK(handler)'
    BY <2>1 DEF RoutingInv, HandlerOK, serverVars
  <2> QED
    BY <2>1, <2>2, <2>3, RequestsStay DEF RoutingInv
<1>3. ASSUME \/ \E c \in Configs : Reload(c)
             \/ \E k \in Key, p \in Policies : EditKey(k, p)
             \/ \E p \in Unsteady : CircuitTurns(p) \/ CredentialTurns(p)
             \/ \E s \in Session : PinExpires(s)
      PROVE  RoutingInv'
  BY <1>3, ChangeKeeps
<1> QED
  BY <1>1, <1>2, <1>3 DEF RoutingNext

(* Every reachable state is as the inductive invariant says: a request past  *)
(* authentication holds the row that let it in, one past the name check was  *)
(* admitted under it, and a plan is the one its handler's configuration      *)
(* gives for its choice, or for its name when no smart route is met.         *)
THEOREM AlwaysRoutingInv == RoutingSpec => []RoutingInv
BY RoutingInitInv, RoutingStepInv, PTL DEF RoutingSpec

(* Handlers, keys, counters, pins and plans stay what the code's types say,  *)
(* and no request is executed with an empty plan.                            *)
THEOREM RoutingTypeCorrect == RoutingSpec => []RoutingTypeOK
<1>1. RoutingInv => RoutingTypeOK
  BY DEF RoutingInv
<1> QED
  BY <1>1, AlwaysRoutingInv, PTL

(* The properties follow from it.                                            *)
LEMMA LivePlansSuitInv == RoutingInv => LivePlansSuit
<1> SUFFICES ASSUME RoutingInv, NEW r \in Planned, Live(r)
             PROVE  /\ \A i, j \in DOMAIN plan[r] : plan[r][i] = plan[r][j] => i = j
                    /\ \A i \in DOMAIN plan[r] :
                          /\ IsEnabled(via[r].config, plan[r][i])
                          /\ Suits(r, plan[r][i]) \/
                                (choice[r].because = "unsure" /\ plan[r][i] = Rt(r).default)
  BY DEF LivePlansSuit
<1>1. r \in Req /\ place[r] = "planned" /\ Smart(r) /\ Rt(r).mode = "live"
  BY DEF Planned, Live, Smart
<1>2. ask[r] \in Asks /\ HandlerOK(via[r]) /\ ChosenOK(r) /\ plan[r] = SmartPlan(r)
  BY <1>1 DEF RoutingInv, RequestOK
<1> QED
  BY <1>1, <1>2, SmartPlanFacts

(* A live plan meets the request's hard needs on every attempt, with any     *)
(* number of candidates, any ranking and any pin (smart/engine.go, Select and*)
(* AttemptPlan).                                                             *)
THEOREM LivePlansAlwaysSuit == RoutingSpec => []LivePlansSuit
BY LivePlansSuitInv, AlwaysRoutingInv, PTL

LEMMA WithinKeyInv == RoutingInv => WithinKey
<1> SUFFICES ASSUME RoutingInv, NEW r \in Planned
             PROVE  LET ck == as[r]
                    IN  IF ck = None THEN ~via[r].config.authRequired
                        ELSE /\ ask[r].token \in Key /\ ck.enabled /\ ~ck.expired
                             /\ \/ \E a \in Alias : a = ask[r].name /\
                                      (ck.aliases # {} => a \in ck.aliases)
                                \/ plan[r] = <<ask[r].name>> /\ ck.allowDirect
                                   /\ (ck.models # {} => ask[r].name \in ck.models)
                             /\ (ck.output > 0 /\ Live(r)) => task[r].hard.output \in 1..ck.output
  BY DEF WithinKey
<1>1. r \in Req /\ place[r] = "planned"
  BY DEF Planned
<1>2. /\ ask[r] \in Asks /\ HandlerOK(via[r]) /\ AuthOK(r) /\ Admitted(r)
      /\ plan[r] # <<>>
      /\ Smart(r) => ChosenOK(r)
      /\ ~Smart(r) => plan[r] = Deterministic(via[r].config, ask[r].name)
  BY <1>1 DEF RoutingInv, RequestOK
<1>3. CASE as[r] = None
  BY <1>2, <1>3 DEF AuthOK
<1>4. CASE as[r] # None
  <2> DEFINE ck == as[r]
             name == ask[r].name
  <2>1. ck \in Policies /\ ask[r].token \in Key /\ ck.enabled /\ ~ck.expired
    BY <1>2, <1>4 DEF AuthOK
  <2>2. Authorized(ck, name, via[r].config) /\ name \in Alias \cup Direct
    BY <1>2, AskFacts DEF Admitted
  <2>3. \/ \E a \in Alias : a = name /\ (ck.aliases # {} => a \in ck.aliases)
        \/ plan[r] = <<name>> /\ ck.allowDirect /\ (ck.models # {} => name \in ck.models)
    <3>1. CASE name \in Alias
      BY <1>4, <2>2, <3>1 DEF Authorized
    <3>2. CASE name \notin Alias
      <4>1. ck.allowDirect /\ (ck.models # {} => name \in ck.models)
        BY <1>4, <2>2, <3>2 DEF Authorized
      <4>2. ~Smart(r)
        BY <3>2 DEF Smart, IsSmart
      <4>3. plan[r] = Deterministic(via[r].config, name) /\ plan[r] # <<>>
        BY <1>2, <4>2
      <4>4. Deterministic(via[r].config, name) \in {<<>>, <<name>>}
        BY <1>2, <2>2, <3>2, <4>2, DeterministicFacts DEF HandlerOK, Smart
      <4> QED
        BY <4>1, <4>3, <4>4
    <3> QED
      BY <3>1, <3>2
  <2>4. ASSUME ck.output > 0, Live(r) PROVE task[r].hard.output \in 1..ck.output
    <3>1. task[r] \in Classified(r)
      BY <1>2, <2>4 DEF Live, Smart, ChosenOK
    <3>2. task[r].hard.output = Capped(ask[r].about.output, ck)
      BY <1>1, <1>2, <3>1, ClassifiedFacts
    <3>3. ck.output \in Nat
      BY <2>1, RoutingAssumption DEF KeyPolicy
    <3>4. ask[r].about.output \in Nat
      BY <1>2, AskFacts DEF Request
    <3> HIDE DEF ck
    <3>5. ck # None
      BY <1>4 DEF ck
    <3> QED
      BY <2>4, <3>2, <3>3, <3>4, <3>5 DEF Capped, Least
  <2> QED
    BY <1>4, <2>1, <2>3, <2>4
<1> QED
  BY <1>3, <1>4

(* A request is served within the key row that authenticated it, or without  *)
(* one on a handler that asks for none, whatever is edited or reloaded       *)
(* meanwhile.                                                                *)
THEOREM AlwaysWithinKey == RoutingSpec => []WithinKey
BY WithinKeyInv, AlwaysRoutingInv, PTL
=============================================================================
