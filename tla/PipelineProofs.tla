--------------------------- MODULE PipelineProofs ---------------------------
(***************************************************************************)
(* What holds of Pipeline for any texts, settings, modes, windows and      *)
(* conversations.  A stage either recasts the text blocks where they stand *)
(* (Recast) or leaves out whole messages (Only); in both cases a tool      *)
(* result stays behind its call (Carries), and what a request means stays  *)
(* or the loss is recorded (Makes).  Carried is what a request keeps of    *)
(* the parsed one through all six; the encoders then send the pair.        *)
(***************************************************************************)
EXTENDS Pipeline, FiniteSetTheorems, SequenceTheorems, TLAPS

-----------------------------------------------------------------------------
(* Sequences.  What is left of a sequence stands in the order it had, and  *)
(* nothing at a chosen place is missing: every rank is taken, because      *)
(* otherwise two places would share one.                                   *)
RankIn(K, i) == Cardinality({j \in K : j < i})

LEMMA Ranks ==
    ASSUME NEW n \in Nat, NEW K \in SUBSET (1 .. n)
    PROVE  /\ IsFiniteSet(K) /\ Cardinality(K) \in Nat
           /\ \A i \in K : RankIn(K, i) \in 0 .. Cardinality(K) - 1
           /\ \A i, j \in K : i < j => RankIn(K, i) < RankIn(K, j)
<1>1. IsFiniteSet(K) /\ Cardinality(K) \in Nat
  <2>1. IsFiniteSet(1 .. n)
    BY FS_Interval
  <2> QED
    BY <2>1, FS_Subset, FS_CardinalityType
<1>0. \A i \in K : i \in Int
  OBVIOUS
<1> DEFINE below(i) == {j \in K : j < i}
<1>2. ASSUME NEW i \in K
      PROVE  IsFiniteSet(below(i)) /\ Cardinality(below(i)) \in 0 .. Cardinality(K) - 1
  <2>1. below(i) \in SUBSET (K \ {i})
    OBVIOUS
  <2> HIDE DEF below
  <2>2. IsFiniteSet(K \ {i}) /\ Cardinality(K \ {i}) = Cardinality(K) - 1
    BY <1>1, FS_RemoveElement
  <2>3. IsFiniteSet(below(i)) /\ Cardinality(below(i)) <= Cardinality(K \ {i})
    BY <2>1, <2>2, FS_Subset
  <2>4. Cardinality(below(i)) \in Nat
    BY <2>3, FS_CardinalityType
  <2> QED
    BY <1>1, <2>2, <2>3, <2>4
<1>3. ASSUME NEW i \in K, NEW j \in K, i < j
      PROVE  Cardinality(below(i)) < Cardinality(below(j))
  <2>1. below(i) \in SUBSET below(j) /\ below(i) # below(j)
    <3>1. \A k \in K : k < i => k < j
      BY <1>0, <1>3
    <3>2. i \in below(j) /\ i \notin below(i)
      BY <1>0, <1>3
    <3> QED
      BY <3>1, <3>2
  <2>2. /\ IsFiniteSet(below(j)) /\ Cardinality(below(i)) \in Nat
        /\ Cardinality(below(j)) \in Nat
    <3> HIDE DEF below
    <3> QED
      BY <1>1, <1>2
  <2> HIDE DEF below
  <2>3. /\ Cardinality(below(i)) <= Cardinality(below(j))
        /\ Cardinality(below(i)) # Cardinality(below(j))
    BY <2>1, <2>2, FS_Subset
  <2> QED
    BY <2>2, <2>3
<1> QED
  BY <1>1, <1>2, <1>3 DEF RankIn

LEMMA RankTaken ==
    ASSUME NEW n \in Nat, NEW K \in SUBSET (1 .. n), NEW k \in 1 .. Cardinality(K)
    PROVE  \E i \in K : RankIn(K, i) = k - 1
<1> DEFINE m == Cardinality(K)
           f == [i \in K |-> RankIn(K, i)]
           I == 0 .. m - 1
<1>1. IsFiniteSet(K) /\ m \in Nat /\ k \in 1 .. m
  BY Ranks
<1>2. \A i \in K : RankIn(K, i) \in I
  BY Ranks
<1>3. \A i, j \in K : i # j => f[i] # f[j]
  <2>1. \A i, j \in K : i < j => RankIn(K, i) < RankIn(K, j)
    BY Ranks
  <2> QED
    BY <1>2, <2>1
<1> HIDE DEF m
<1>4. IsFiniteSet(I) /\ Cardinality(I) = m /\ k - 1 \in I
  <2>1. IsFiniteSet(0 .. m - 1) /\ Cardinality(0 .. m - 1) = m
    BY <1>1, FS_Interval
  <2> QED
    BY <1>1, <2>1
<1> DEFINE gap == k - 1
<1> HIDE DEF I, gap
<1>5. IsFiniteSet(I \ {gap}) /\ Cardinality(I \ {gap}) = m - 1
  BY <1>4, FS_RemoveElement DEF gap
<1>6. SUFFICES ASSUME \A i \in K : RankIn(K, i) # gap PROVE FALSE
  BY DEF gap
<1>7. f \in [K -> I \ {gap}]
  BY <1>2, <1>6
<1> HIDE DEF f
<1>8. Cardinality(I \ {gap}) < Cardinality(K)
  BY <1>1, <1>5 DEF m
<1>9. \E i, j \in K : i # j /\ f[i] = f[j]
  BY <1>1, <1>5, <1>7, <1>8, FS_PigeonHole
<1> QED
  BY <1>3, <1>9

\* The m chosen places in their order, and what is left of s at them.
Keeps(s, K, m, at) ==
    /\ m = Cardinality(K) /\ at \in [1 .. m -> K]
    /\ Only(s, K) = [k \in 1 .. m |-> s[at[k]]]
    /\ \A i \in K : \E k \in 1 .. m : at[k] = i
    /\ \A k, l \in 1 .. m : k < l => at[k] < at[l]

LEMMA OnlyKeeps ==
    ASSUME NEW s, NEW n \in Nat, NEW K \in SUBSET (1 .. n)
    PROVE  \E m \in Nat : \E at : Keeps(s, K, m, at)
<1> DEFINE m == Cardinality(K)
           at == [k \in 1 .. m |-> CHOOSE i \in K : RankIn(K, i) = k - 1]
<1>1. /\ m \in Nat
      /\ \A i \in K : RankIn(K, i) \in 0 .. m - 1
      /\ \A i, j \in K : i < j => RankIn(K, i) < RankIn(K, j)
  BY Ranks
<1>2. \A k \in 1 .. m : at[k] \in K /\ RankIn(K, at[k]) = k - 1
  BY RankTaken
<1>3. Only(s, K) = [k \in 1 .. m |-> s[at[k]]]
  BY DEF Only, RankIn
<1>4. at \in [1 .. m -> K]
  BY <1>2
<1> HIDE DEF m, at
<1>5. \A i, j \in K : i \in Int /\ j \in Int
  OBVIOUS
<1>6. ASSUME NEW i \in K PROVE \E k \in 1 .. m : at[k] = i
  <2>1. RankIn(K, i) + 1 \in 1 .. m
    BY <1>1
  <2>2. PICK k \in 1 .. m : k = RankIn(K, i) + 1
    BY <2>1
  <2>3. at[k] \in K /\ RankIn(K, at[k]) = RankIn(K, i)
    BY <1>1, <1>2, <2>2
  <2>4. \A j \in K : RankIn(K, j) = RankIn(K, i) => j = i
    BY <1>1, <1>5
  <2> QED
    BY <2>3, <2>4
<1>7. ASSUME NEW k \in 1 .. m, NEW l \in 1 .. m, k < l PROVE at[k] < at[l]
  <2>1. /\ at[k] \in K /\ at[l] \in K
        /\ RankIn(K, at[k]) = k - 1 /\ RankIn(K, at[l]) = l - 1
    BY <1>2
  <2>2. k - 1 < l - 1 /\ RankIn(K, at[k]) # RankIn(K, at[l])
    BY <1>1, <1>7, <2>1
  <2>3. ~(RankIn(K, at[l]) < RankIn(K, at[k]))
    BY <1>1, <2>1, <2>2
  <2>4. ~(at[l] < at[k]) /\ at[k] # at[l]
    BY <1>1, <2>1, <2>2, <2>3
  <2>5. at[k] \in Int /\ at[l] \in Int
    BY <1>5, <2>1
  <2> QED
    BY <2>4, <2>5
<1>8. Keeps(s, K, m, at)
  BY <1>3, <1>4, <1>6, <1>7 DEF m, Keeps
<1> QED
  BY <1>1, <1>8

-----------------------------------------------------------------------------
(* Messages and requests. *)
Block == [kind : {"text"}, id : {0}, text : Text]
             \cup [kind : {"call"}, id : Nat]
             \cup [kind : {"result"}, id : Nat, text : Text]
Message == [role : Roles, content : Seq(Block)]
Request == [messages : Seq(Message), max : {"absent", "client", "planned"},
            loss : {"lossless", "selective"}]

LEMMA MessageFacts ==
    ASSUME NEW a \in Seq(Message)
    PROVE  /\ Len(a) \in Nat /\ DOMAIN a = 1 .. Len(a)
           /\ \A i \in DOMAIN a :
                 /\ a[i] \in Message /\ a[i].role \in Roles /\ a[i].content \in Seq(Block)
                 /\ Len(a[i].content) \in Nat
                 /\ DOMAIN a[i].content = 1 .. Len(a[i].content)
                 /\ \A j \in DOMAIN a[i].content : a[i].content[j] \in Block
<1>1. \A i \in DOMAIN a : a[i] \in Message
  OBVIOUS
<1>2. \A m \in Message : m.role \in Roles /\ m.content \in Seq(Block)
  BY DEF Message
<1> QED
  BY <1>1, <1>2

LEMMA BlockFacts ==
    ASSUME NEW b \in Block
    PROVE  /\ b.kind \in {"text", "call", "result"} /\ b.id \in Nat
           /\ b.kind = "text" => b.text \in Text /\ b = Said(b.text)
           /\ b.kind = "call" => b = Call(b.id)
           /\ b.kind = "result" => b.text \in Text /\ b = Result(b.id, b.text)
  BY DEF Block, Said, Call, Result

\* The blocks b that stand where a's blocks do: calls and results are a's.
Recast(a, b) ==
    /\ b \in Seq(Message) /\ DOMAIN b = DOMAIN a
    /\ \A i \in DOMAIN a :
          /\ b[i].role = a[i].role
          /\ DOMAIN b[i].content = DOMAIN a[i].content
          /\ \A j \in DOMAIN a[i].content :
                /\ b[i].content[j].kind = a[i].content[j].kind
                /\ a[i].content[j].kind # "text" => b[i].content[j] = a[i].content[j]

\* Texts rewritten to f of their place.
Rewritten(a, roles, f) ==
    [i \in DOMAIN a |-> [role |-> a[i].role,
                         content |-> [j \in DOMAIN a[i].content |->
        IF a[i].role \in roles /\ a[i].content[j].kind = "text"
        THEN Said(f[<<i, j>>]) ELSE a[i].content[j]]]]

LEMMA RewrittenRecasts ==
    ASSUME NEW a \in Seq(Message), NEW roles, NEW f,
           \A i \in DOMAIN a : \A j \in DOMAIN a[i].content :
               a[i].role \in roles /\ a[i].content[j].kind = "text" => f[<<i, j>>] \in Text
    PROVE  Recast(a, Rewritten(a, roles, f))
<1> DEFINE b == Rewritten(a, roles, f)
           new(i, j) == IF a[i].role \in roles /\ a[i].content[j].kind = "text"
                        THEN Said(f[<<i, j>>]) ELSE a[i].content[j]
<1>1. \A t \in Text : Said(t) \in Block /\ Said(t).kind = "text"
  BY DEF Said, Block
<1>2. \A i \in DOMAIN a : \A j \in DOMAIN a[i].content :
          /\ new(i, j) \in Block /\ new(i, j).kind = a[i].content[j].kind
          /\ a[i].content[j].kind # "text" => new(i, j) = a[i].content[j]
  BY <1>1, MessageFacts
<1> HIDE DEF new
<1>3. b = [i \in DOMAIN a |-> [role |-> a[i].role,
                               content |-> [j \in DOMAIN a[i].content |-> new(i, j)]]]
  BY DEF Rewritten, new
<1> HIDE DEF b
<1>4. ASSUME NEW i \in DOMAIN a
      PROVE  /\ b[i] \in Message /\ b[i].role = a[i].role
             /\ b[i].content = [j \in DOMAIN a[i].content |-> new(i, j)]
  <2>1. b[i] = [role |-> a[i].role, content |-> [j \in DOMAIN a[i].content |-> new(i, j)]]
    BY <1>3
  <2>2. PICK n \in Nat : DOMAIN a[i].content = 1 .. n
    BY MessageFacts
  <2>3. [j \in 1 .. n |-> new(i, j)] \in Seq(Block)
    BY <1>2, <2>2
  <2>4. a[i].role \in Roles
    BY MessageFacts
  <2> QED
    BY <2>1, <2>2, <2>3, <2>4 DEF Message
<1>5. b \in Seq(Message) /\ DOMAIN b = DOMAIN a
  <2>1. PICK n \in Nat : DOMAIN a = 1 .. n
    BY MessageFacts
  <2>2. DOMAIN b = 1 .. n /\ b = [i \in 1 .. n |-> b[i]]
    BY <1>3, <2>1
  <2>3. \A i \in 1 .. n : b[i] \in Message
    BY <1>4, <2>1
  <2> QED
    BY <2>1, <2>2, <2>3
<1>6. ASSUME NEW i \in DOMAIN a
      PROVE  /\ b[i].role = a[i].role
             /\ DOMAIN b[i].content = DOMAIN a[i].content
             /\ \A j \in DOMAIN a[i].content :
                   /\ b[i].content[j].kind = a[i].content[j].kind
                   /\ a[i].content[j].kind # "text" => b[i].content[j] = a[i].content[j]
  <2>1. b[i].role = a[i].role /\ DOMAIN b[i].content = DOMAIN a[i].content
    BY <1>4
  <2>2. \A j \in DOMAIN a[i].content : b[i].content[j] = new(i, j)
    BY <1>4
  <2> QED
    BY <1>2, <2>1, <2>2
<1>7. Recast(a, b)
  BY <1>5, <1>6 DEF Recast
<1> QED
  BY <1>7 DEF b

LEMMA TextReplaced ==
    ASSUME NEW b \in Block, b.kind = "text", NEW v
    PROVE  [b EXCEPT !.text = v] = Said(v)
  BY DEF Block, Said

LEMMA ContentReplaced ==
    ASSUME NEW m \in Message, NEW v
    PROVE  [m EXCEPT !.content = v] = [role |-> m.role, content |-> v]
  BY DEF Message

LEMMA PlaceOfBlock ==
    ASSUME NEW a, NEW i \in DOMAIN a, NEW j \in DOMAIN a[i].content
    PROVE  <<i, j>> \in Blocks(a) /\ At(a, <<i, j>>) = a[i].content[j]
  BY DEF Blocks, At

\* Quieter, and what a text means, as functions of the place.
Hushed(t, noise) == [t EXCEPT !.noise = t.noise \ {noise}]
Quiet(a, noise) == [p \in Blocks(a) |-> Hushed(At(a, p).text, noise)]

LEMMA QuieterIs ==
    ASSUME NEW a \in Seq(Message), NEW noise
    PROVE  Quieter(a, noise) = Rewritten(a, {"tool"}, Quiet(a, noise))
<1> DEFINE new(i, j) == IF a[i].role \in {"tool"} /\ a[i].content[j].kind = "text"
                        THEN [a[i].content[j] EXCEPT !.text =
                                  [a[i].content[j].text EXCEPT !.noise = a[i].content[j].text.noise \ {noise}]]
                        ELSE a[i].content[j]
           old(i, j) == IF a[i].role \in {"tool"} /\ a[i].content[j].kind = "text"
                        THEN Said(Quiet(a, noise)[<<i, j>>]) ELSE a[i].content[j]
<1>1. ASSUME NEW i \in DOMAIN a, NEW j \in DOMAIN a[i].content
      PROVE  new(i, j) = old(i, j)
  <2> DEFINE b == a[i].content[j]
             v == Hushed(b.text, noise)
  <2>1. b \in Block
    BY MessageFacts
  <2>2. Quiet(a, noise)[<<i, j>>] = v
    BY PlaceOfBlock DEF Quiet
  <2>3. b.kind = "text" => [b EXCEPT !.text = v] = Said(v)
    <3> HIDE DEF b, v
    <3> QED
      BY <2>1, TextReplaced
  <2> QED
    BY <2>2, <2>3 DEF Hushed
<1>2. Quieter(a, noise) = [i \in DOMAIN a |->
          [a[i] EXCEPT !.content = [j \in DOMAIN a[i].content |-> new(i, j)]]]
  BY DEF Quieter, Rewrite
<1>3. Rewritten(a, {"tool"}, Quiet(a, noise)) = [i \in DOMAIN a |->
          [role |-> a[i].role, content |-> [j \in DOMAIN a[i].content |-> old(i, j)]]]
  BY DEF Rewritten
<1> HIDE DEF new, old
<1>4. ASSUME NEW i \in DOMAIN a
      PROVE  [a[i] EXCEPT !.content = [j \in DOMAIN a[i].content |-> new(i, j)]]
             = [role |-> a[i].role, content |-> [j \in DOMAIN a[i].content |-> old(i, j)]]
  <2>1. [j \in DOMAIN a[i].content |-> new(i, j)] = [j \in DOMAIN a[i].content |-> old(i, j)]
    BY <1>1
  <2>2. a[i] \in Message
    BY MessageFacts
  <2> QED
    BY <2>1, <2>2, ContentReplaced
<1> QED
  BY <1>2, <1>3, <1>4

SenseOf(a) == [p \in Blocks(a) |-> Sense(At(a, p).text)]

LEMMA MeaningIs ==
    ASSUME NEW a \in Seq(Message)
    PROVE  Meaning(a) = Rewritten(a, Roles, SenseOf(a))
<1> DEFINE new(i, j) == IF a[i].role \in Roles /\ a[i].content[j].kind = "text"
                        THEN [a[i].content[j] EXCEPT !.text = Sense(a[i].content[j].text)]
                        ELSE a[i].content[j]
           old(i, j) == IF a[i].role \in Roles /\ a[i].content[j].kind = "text"
                        THEN Said(SenseOf(a)[<<i, j>>]) ELSE a[i].content[j]
<1>1. ASSUME NEW i \in DOMAIN a, NEW j \in DOMAIN a[i].content
      PROVE  new(i, j) = old(i, j)
  <2>1. a[i].content[j] \in Block
    BY MessageFacts
  <2>2. SenseOf(a)[<<i, j>>] = Sense(a[i].content[j].text)
    BY PlaceOfBlock DEF SenseOf
  <2> QED
    BY <2>1, <2>2, TextReplaced
<1>2. Meaning(a) = [i \in DOMAIN a |->
          [a[i] EXCEPT !.content = [j \in DOMAIN a[i].content |-> new(i, j)]]]
  BY DEF Meaning, Rewrite
<1>3. Rewritten(a, Roles, SenseOf(a)) = [i \in DOMAIN a |->
          [role |-> a[i].role, content |-> [j \in DOMAIN a[i].content |-> old(i, j)]]]
  BY DEF Rewritten
<1> HIDE DEF new, old
<1>4. ASSUME NEW i \in DOMAIN a
      PROVE  [a[i] EXCEPT !.content = [j \in DOMAIN a[i].content |-> new(i, j)]]
             = [role |-> a[i].role, content |-> [j \in DOMAIN a[i].content |-> old(i, j)]]
  <2>1. [j \in DOMAIN a[i].content |-> new(i, j)] = [j \in DOMAIN a[i].content |-> old(i, j)]
    BY <1>1
  <2>2. a[i] \in Message
    BY MessageFacts
  <2> QED
    BY <2>1, <2>2, ContentReplaced
<1> QED
  BY <1>2, <1>3, <1>4

\* Texts of equal sense, place by place; messages whose meaning, with repeated
\* lines and without, and whose savings from collapsing those are the same.
SameSense(a, b) ==
    \A i \in DOMAIN a : \A j \in DOMAIN a[i].content :
        a[i].content[j].kind = "text" => Sense(b[i].content[j].text) = Sense(a[i].content[j].text)
Alike(a, b) ==
    /\ Meaning(b) = Meaning(a) /\ Savings(b) = Savings(a)
    /\ Meaning(Quieter(b, "runs")) = Meaning(Quieter(a, "runs"))

\* What texts mean, block by block, is what messages mean.
LEMMA SameMeaning ==
    ASSUME NEW a \in Seq(Message), NEW b, Recast(a, b), SameSense(a, b)
    PROVE  Meaning(b) = Meaning(a)
<1> DEFINE as(i, j) == IF a[i].role \in Roles /\ a[i].content[j].kind = "text"
                       THEN Said(SenseOf(a)[<<i, j>>]) ELSE a[i].content[j]
           bs(i, j) == IF b[i].role \in Roles /\ b[i].content[j].kind = "text"
                       THEN Said(SenseOf(b)[<<i, j>>]) ELSE b[i].content[j]
<1>1. b \in Seq(Message) /\ DOMAIN b = DOMAIN a
  BY DEF Recast
<1>2. \A i \in DOMAIN a : /\ b[i].role = a[i].role
                          /\ DOMAIN b[i].content = DOMAIN a[i].content
  BY DEF Recast
<1>3. ASSUME NEW i \in DOMAIN a, NEW j \in DOMAIN a[i].content
      PROVE  bs(i, j) = as(i, j)
  <2>1. /\ b[i].content[j].kind = a[i].content[j].kind
        /\ a[i].content[j].kind # "text" => b[i].content[j] = a[i].content[j]
    BY DEF Recast
  <2>2. /\ SenseOf(a)[<<i, j>>] = Sense(a[i].content[j].text)
        /\ SenseOf(b)[<<i, j>>] = Sense(b[i].content[j].text)
    BY <1>1, <1>2, PlaceOfBlock DEF SenseOf
  <2>3. a[i].content[j].kind = "text"
            => Sense(b[i].content[j].text) = Sense(a[i].content[j].text)
    BY DEF SameSense
  <2>4. CASE a[i].content[j].kind = "text"
    <3>1. SenseOf(a)[<<i, j>>] = SenseOf(b)[<<i, j>>]
      BY <2>2, <2>3, <2>4
    <3>2. b[i].role = a[i].role /\ b[i].content[j].kind = "text"
      BY <1>2, <2>1, <2>4
    <3>3. CASE a[i].role \in Roles
      <4>1. as(i, j) = Said(SenseOf(a)[<<i, j>>])
        BY <2>4, <3>3
      <4>2. bs(i, j) = Said(SenseOf(b)[<<i, j>>])
        BY <3>2, <3>3
      <4> QED
        BY <3>1, <4>1, <4>2
    <3>4. CASE a[i].role \notin Roles
      <4>1. a[i].role \in Roles
        BY MessageFacts
      <4> QED
        BY <3>4, <4>1
    <3> QED
      BY <3>3, <3>4
  <2>5. CASE a[i].content[j].kind # "text"
    BY <2>1, <2>5
  <2> QED
    BY <2>4, <2>5
<1>4. Meaning(a) = [i \in DOMAIN a |-> [role |-> a[i].role,
                        content |-> [j \in DOMAIN a[i].content |-> as(i, j)]]]
  BY MeaningIs DEF Rewritten
<1>5. Meaning(b) = [i \in DOMAIN b |-> [role |-> b[i].role,
                        content |-> [j \in DOMAIN b[i].content |-> bs(i, j)]]]
  BY <1>1, MeaningIs DEF Rewritten
<1> HIDE DEF as, bs
<1>6. ASSUME NEW i \in DOMAIN a
      PROVE  [role |-> a[i].role, content |-> [j \in DOMAIN a[i].content |-> as(i, j)]]
             = [role |-> b[i].role, content |-> [j \in DOMAIN b[i].content |-> bs(i, j)]]
  <2>1. [j \in DOMAIN a[i].content |-> as(i, j)] = [j \in DOMAIN b[i].content |-> bs(i, j)]
    BY <1>2, <1>3
  <2> QED
    BY <1>2, <2>1
<1> QED
  BY <1>1, <1>4, <1>5, <1>6

\* The text of a rewritten block.
LEMMA RewrittenText ==
    ASSUME NEW a, NEW roles, NEW f, NEW i \in DOMAIN a, NEW j \in DOMAIN a[i].content,
           a[i].content[j].kind = "text"
    PROVE  Rewritten(a, roles, f)[i].content[j].text =
               IF a[i].role \in roles THEN f[<<i, j>>] ELSE a[i].content[j].text
  BY DEF Rewritten, Said

Unmarked(a) == \A i \in DOMAIN a : \A j \in DOMAIN a[i].content :
                   a[i].content[j].kind = "text" => a[i].content[j].text.mark = "none"

LEMMA QuieterRecasts ==
    ASSUME NEW a \in Seq(Message), NEW noise
    PROVE  /\ Recast(a, Quieter(a, noise))
           /\ Unmarked(a) => Unmarked(Quieter(a, noise))
           /\ noise \in {"ansi", "spaced"} => SameSense(a, Quieter(a, noise))
           /\ \A i \in DOMAIN a : \A j \in DOMAIN a[i].content :
                 a[i].content[j].kind = "text" =>
                     Quieter(a, noise)[i].content[j].text =
                         IF a[i].role = "tool" THEN Hushed(a[i].content[j].text, noise)
                         ELSE a[i].content[j].text
<1> DEFINE f == Quiet(a, noise)
           b == Quieter(a, noise)
<1>1. b = Rewritten(a, {"tool"}, f)
  BY QuieterIs
<1>2. \A t \in Text : /\ Hushed(t, noise) \in Text /\ Hushed(t, noise).mark = t.mark
                      /\ noise \in {"ansi", "spaced"} => Sense(Hushed(t, noise)) = Sense(t)
  BY DEF Text, Sense, Hushed
<1>3. ASSUME NEW i \in DOMAIN a, NEW j \in DOMAIN a[i].content, a[i].content[j].kind = "text"
      PROVE  a[i].content[j].text \in Text /\ f[<<i, j>>] = Hushed(a[i].content[j].text, noise)
  <2>1. a[i].content[j] \in Block
    BY MessageFacts
  <2>2. a[i].content[j].text \in Text
    BY <1>3, <2>1, BlockFacts
  <2>3. f[<<i, j>>] = Hushed(a[i].content[j].text, noise)
    BY PlaceOfBlock DEF Quiet
  <2> QED
    BY <2>2, <2>3
<1> HIDE DEF f, b
<1>4. Recast(a, b)
  <2>1. Recast(a, Rewritten(a, {"tool"}, f))
    <3>1. \A i \in DOMAIN a : \A j \in DOMAIN a[i].content :
              a[i].role \in {"tool"} /\ a[i].content[j].kind = "text" => f[<<i, j>>] \in Text
      BY <1>2, <1>3
    <3> QED
      BY <3>1, RewrittenRecasts
  <2> QED
    BY <1>1, <2>1
<1>5. ASSUME NEW i \in DOMAIN a, NEW j \in DOMAIN a[i].content, a[i].content[j].kind = "text"
      PROVE  b[i].content[j].text = IF a[i].role = "tool" THEN Hushed(a[i].content[j].text, noise)
                                    ELSE a[i].content[j].text
  <2>1. b[i].content[j].text =
            IF a[i].role \in {"tool"} THEN f[<<i, j>>] ELSE a[i].content[j].text
    BY <1>1, <1>5, RewrittenText
  <2>2. f[<<i, j>>] = Hushed(a[i].content[j].text, noise)
    BY <1>3, <1>5
  <2> QED
    BY <2>1, <2>2
<1>6. Unmarked(a) => Unmarked(b)
  <2> SUFFICES ASSUME Unmarked(a), NEW i \in DOMAIN b, NEW j \in DOMAIN b[i].content,
                      b[i].content[j].kind = "text"
               PROVE  b[i].content[j].text.mark = "none"
    BY DEF Unmarked
  <2>1. i \in DOMAIN a /\ j \in DOMAIN a[i].content /\ a[i].content[j].kind = "text"
    BY <1>4 DEF Recast
  <2>2. a[i].content[j].text.mark = "none" /\ a[i].content[j].text \in Text
    BY <1>3, <2>1 DEF Unmarked
  <2> QED
    BY <1>2, <1>5, <2>1, <2>2
<1>7. noise \in {"ansi", "spaced"} => SameSense(a, b)
  <2> SUFFICES ASSUME noise \in {"ansi", "spaced"} PROVE SameSense(a, b)
    OBVIOUS
  <2>1. ASSUME NEW i \in DOMAIN a, NEW j \in DOMAIN a[i].content, a[i].content[j].kind = "text"
        PROVE  Sense(b[i].content[j].text) = Sense(a[i].content[j].text)
    BY <1>2, <1>3, <1>5, <2>1
  <2> QED
    BY <2>1 DEF SameSense
<1> QED
  BY <1>4, <1>5, <1>6, <1>7 DEF b

LEMMA SenseFacts ==
    ASSUME NEW t \in Text, NEW u \in Text, Sense(u) = Sense(t)
    PROVE  /\ u.say = t.say /\ ("runs" \in u.noise <=> "runs" \in t.noise)
           /\ Sense(Hushed(u, "runs")) = Sense(Hushed(t, "runs"))
<1> DEFINE plain(mark) == IF mark = "source" THEN "none" ELSE mark
<1>1. \A v \in Text : /\ Sense(v) \in Text /\ Sense(v).say = v.say
                      /\ Sense(v).noise = v.noise \ {"ansi", "spaced"}
                      /\ Sense(v).mark = plain(v.mark)
  BY DEF Text, Sense
<1>2. \A v \in Text : /\ Hushed(v, "runs") \in Text /\ Hushed(v, "runs").say = v.say
                      /\ Hushed(v, "runs").noise = v.noise \ {"runs"}
                      /\ Hushed(v, "runs").mark = v.mark
  BY DEF Text, Hushed
<1>3. /\ u.say = t.say /\ plain(u.mark) = plain(t.mark)
      /\ u.noise \ {"ansi", "spaced"} = t.noise \ {"ansi", "spaced"}
  BY <1>1
<1>4. "runs" \in u.noise <=> "runs" \in t.noise
  <2>1. \A v \in Text : "runs" \in v.noise <=> "runs" \in v.noise \ {"ansi", "spaced"}
    OBVIOUS
  <2> QED
    BY <1>3, <2>1
<1> HIDE DEF plain
<1>5. \A v, w \in Text : v.say = w.say /\ v.noise = w.noise /\ v.mark = w.mark => v = w
  BY DEF Text
<1>6. Sense(Hushed(u, "runs")) = Sense(Hushed(t, "runs"))
  <2>1. /\ Sense(Hushed(u, "runs")) \in Text /\ Sense(Hushed(t, "runs")) \in Text
        /\ Sense(Hushed(u, "runs")).say = u.say /\ Sense(Hushed(t, "runs")).say = t.say
        /\ Sense(Hushed(u, "runs")).mark = plain(u.mark)
        /\ Sense(Hushed(t, "runs")).mark = plain(t.mark)
        /\ Sense(Hushed(u, "runs")).noise = (u.noise \ {"runs"}) \ {"ansi", "spaced"}
        /\ Sense(Hushed(t, "runs")).noise = (t.noise \ {"runs"}) \ {"ansi", "spaced"}
    BY <1>1, <1>2
  <2>2. (u.noise \ {"runs"}) \ {"ansi", "spaced"} = (t.noise \ {"runs"}) \ {"ansi", "spaced"}
    BY <1>3
  <2> QED
    BY <1>3, <1>5, <2>1, <2>2
<1> QED
  BY <1>3, <1>4, <1>6

\* A stage that keeps the sense of every text keeps all that is Alike.
LEMMA AlikeRecast ==
    ASSUME NEW a \in Seq(Message), NEW b, Recast(a, b), SameSense(a, b)
    PROVE  Alike(a, b)
<1> DEFINE as == Quieter(a, "runs")
           bs == Quieter(b, "runs")
<1>1. /\ b \in Seq(Message) /\ DOMAIN b = DOMAIN a
      /\ \A i \in DOMAIN a : /\ b[i].role = a[i].role
                             /\ DOMAIN b[i].content = DOMAIN a[i].content
      /\ \A i \in DOMAIN a : \A j \in DOMAIN a[i].content :
             b[i].content[j].kind = a[i].content[j].kind
  BY DEF Recast
<1>2. Meaning(b) = Meaning(a)
  BY SameMeaning
<1>3. ASSUME NEW i \in DOMAIN a, NEW j \in DOMAIN a[i].content, a[i].content[j].kind = "text"
      PROVE  /\ a[i].content[j].text \in Text /\ b[i].content[j].text \in Text
             /\ b[i].content[j].text.say = a[i].content[j].text.say
             /\ "runs" \in b[i].content[j].text.noise <=> "runs" \in a[i].content[j].text.noise
             /\ Sense(Hushed(b[i].content[j].text, "runs")) = Sense(Hushed(a[i].content[j].text, "runs"))
  <2>1. a[i].content[j] \in Block /\ b[i].content[j] \in Block
    BY <1>1, MessageFacts
  <2>2. a[i].content[j].text \in Text /\ b[i].content[j].text \in Text
    BY <1>1, <1>3, <2>1, BlockFacts
  <2>3. Sense(b[i].content[j].text) = Sense(a[i].content[j].text)
    BY <1>3 DEF SameSense
  <2> QED
    BY <2>2, <2>3, SenseFacts
<1>4. /\ Recast(a, as) /\ Recast(b, bs)
      /\ \A i \in DOMAIN a : \A j \in DOMAIN a[i].content :
             a[i].content[j].kind = "text" =>
                 as[i].content[j].text = IF a[i].role = "tool" THEN Hushed(a[i].content[j].text, "runs")
                                         ELSE a[i].content[j].text
      /\ \A i \in DOMAIN b : \A j \in DOMAIN b[i].content :
             b[i].content[j].kind = "text" =>
                 bs[i].content[j].text = IF b[i].role = "tool" THEN Hushed(b[i].content[j].text, "runs")
                                         ELSE b[i].content[j].text
  BY <1>1, QuieterRecasts
<1> HIDE DEF as, bs
<1>5. Recast(as, bs)
  <2>1. /\ bs \in Seq(Message) /\ DOMAIN as = DOMAIN a /\ DOMAIN bs = DOMAIN a
    BY <1>1, <1>4 DEF Recast
  <2>2. ASSUME NEW i \in DOMAIN a
        PROVE  /\ bs[i].role = as[i].role /\ DOMAIN as[i].content = DOMAIN a[i].content
               /\ DOMAIN bs[i].content = DOMAIN a[i].content
    <3>1. as[i].role = a[i].role /\ DOMAIN as[i].content = DOMAIN a[i].content
      BY <1>4 DEF Recast
    <3>2. bs[i].role = b[i].role /\ DOMAIN bs[i].content = DOMAIN b[i].content
      BY <1>1, <1>4 DEF Recast
    <3> QED
      BY <1>1, <3>1, <3>2
  <2>3. ASSUME NEW i \in DOMAIN a, NEW j \in DOMAIN a[i].content
        PROVE  /\ as[i].content[j].kind = a[i].content[j].kind
               /\ bs[i].content[j].kind = as[i].content[j].kind
               /\ as[i].content[j].kind # "text" => bs[i].content[j] = as[i].content[j]
    <3>1. /\ as[i].content[j].kind = a[i].content[j].kind
          /\ a[i].content[j].kind # "text" => as[i].content[j] = a[i].content[j]
      BY <1>4 DEF Recast
    <3>2. /\ b[i].content[j].kind = a[i].content[j].kind
          /\ a[i].content[j].kind # "text" => b[i].content[j] = a[i].content[j]
      BY DEF Recast
    <3>3. i \in DOMAIN b /\ j \in DOMAIN b[i].content
      BY <1>1
    <3>4. /\ bs[i].content[j].kind = b[i].content[j].kind
          /\ b[i].content[j].kind # "text" => bs[i].content[j] = b[i].content[j]
      BY <1>4, <3>3 DEF Recast
    <3> QED
      BY <3>1, <3>2, <3>4
  <2> QED
    BY <2>1, <2>2, <2>3 DEF Recast
<1>6. SameSense(as, bs)
  <2> SUFFICES ASSUME NEW i \in DOMAIN as, NEW j \in DOMAIN as[i].content,
                      as[i].content[j].kind = "text"
               PROVE  Sense(bs[i].content[j].text) = Sense(as[i].content[j].text)
    BY DEF SameSense
  <2>1. /\ i \in DOMAIN a /\ j \in DOMAIN a[i].content /\ a[i].content[j].kind = "text"
    <3>1. i \in DOMAIN a
      BY <1>4 DEF Recast
    <3>2. j \in DOMAIN a[i].content
      BY <1>4, <3>1 DEF Recast
    <3>3. as[i].content[j].kind = a[i].content[j].kind
      BY <1>4, <3>1, <3>2 DEF Recast
    <3> QED
      BY <3>1, <3>2, <3>3
  <2>2. /\ i \in DOMAIN b /\ j \in DOMAIN b[i].content /\ b[i].content[j].kind = "text"
        /\ b[i].role = a[i].role
    BY <1>1, <2>1
  <2>3. Sense(b[i].content[j].text) = Sense(a[i].content[j].text)
    BY <2>1 DEF SameSense
  <2>4. Sense(Hushed(b[i].content[j].text, "runs")) = Sense(Hushed(a[i].content[j].text, "runs"))
    BY <1>3, <2>1
  <2>5. CASE a[i].role = "tool"
    BY <1>4, <2>1, <2>2, <2>4, <2>5
  <2>6. CASE a[i].role # "tool"
    BY <1>4, <2>1, <2>2, <2>3, <2>6
  <2> QED
    BY <2>5, <2>6
<1>7. Meaning(bs) = Meaning(as)
  <2>1. as \in Seq(Message)
    BY <1>4 DEF Recast
  <2> QED
    BY <1>5, <1>6, <2>1, SameMeaning
<1>8. Savings(b) = Savings(a)
  <2>1. Blocks(b) = Blocks(a)
    BY <1>1 DEF Blocks
  <2>2. ASSUME NEW p \in Blocks(a)
        PROVE  /\ b[p[1]].role = a[p[1]].role /\ At(b, p).kind = At(a, p).kind
               /\ At(a, p).kind = "text" =>
                     /\ At(b, p).text.say = At(a, p).text.say
                     /\ "runs" \in At(b, p).text.noise <=> "runs" \in At(a, p).text.noise
    <3>1. PICK i \in DOMAIN a : p \in {<<i, j>> : j \in DOMAIN a[i].content}
      BY DEF Blocks
    <3>2. PICK j \in DOMAIN a[i].content : p = <<i, j>>
      BY <3>1
    <3>3. p[1] = i /\ At(a, p) = a[i].content[j] /\ At(b, p) = b[i].content[j]
      BY <3>2 DEF At
    <3> QED
      BY <1>1, <1>3, <3>3
  <2>3. Compactable(b) = Compactable(a)
    BY <2>1, <2>2 DEF Compactable
  <2>4. \A p \in Compactable(a) : At(b, p).text.say = At(a, p).text.say
    BY <2>2 DEF Compactable
  <2> QED
    BY <2>3, <2>4 DEF Savings
<1> QED
  BY <1>2, <1>7, <1>8 DEF Alike, as, bs

-----------------------------------------------------------------------------
(* Deduplication: the long texts, and those that repeat an earlier one. *)
LongPlaces(a) == {p \in Blocks(a) : /\ a[p[1]].role \in {"tool", "assistant"}
                                    /\ At(a, p).kind = "text"
                                    /\ At(a, p).text.say \in LongSay}
Repeats(a) == {p \in LongPlaces(a) :
                   \E f \in LongPlaces(a) : Before(f, p) /\ At(a, f).text = At(a, p).text}
Marked(t, p, repeats, long) ==
    IF p \in repeats THEN [t EXCEPT !.noise = {}, !.mark = "reference"]
    ELSE IF p \in long THEN [t EXCEPT !.mark = "source"] ELSE t
Deduped(a) == [p \in Blocks(a) |-> Marked(At(a, p).text, p, Repeats(a), LongPlaces(a))]

LEMMA DedupeIs ==
    ASSUME NEW q \in Request
    PROVE  Dedupe(q) = [q EXCEPT
               !.messages = Rewritten(q.messages, {"tool", "assistant"}, Deduped(q.messages)),
               !.loss = IF Repeats(q.messages) = {} THEN q.loss ELSE "selective"]
<1> DEFINE a == q.messages
           long == LongPlaces(a)
           repeats == Repeats(a)
           both == {"tool", "assistant"}
           new(i, j) == IF a[i].role \in both /\ a[i].content[j].kind = "text"
                        THEN [a[i].content[j] EXCEPT !.text =
                                  IF <<i, j>> \in repeats
                                  THEN [a[i].content[j].text EXCEPT !.noise = {}, !.mark = "reference"]
                                  ELSE IF <<i, j>> \in long
                                  THEN [a[i].content[j].text EXCEPT !.mark = "source"]
                                  ELSE a[i].content[j].text]
                        ELSE a[i].content[j]
           old(i, j) == IF a[i].role \in both /\ a[i].content[j].kind = "text"
                        THEN Said(Deduped(a)[<<i, j>>]) ELSE a[i].content[j]
           rewriting == [i \in DOMAIN a |->
               [a[i] EXCEPT !.content = [j \in DOMAIN a[i].content |-> new(i, j)]]]
<1>0. a \in Seq(Message)
  BY DEF Request
<1>1. ASSUME NEW i \in DOMAIN a, NEW j \in DOMAIN a[i].content
      PROVE  new(i, j) = old(i, j)
  <2> DEFINE b == a[i].content[j]
             v == Marked(b.text, <<i, j>>, repeats, long)
  <2>1. b \in Block
    BY <1>0, MessageFacts
  <2>2. Deduped(a)[<<i, j>>] = v
    BY PlaceOfBlock DEF Deduped
  <2>3. b.kind = "text" => [b EXCEPT !.text = v] = Said(v)
    <3> HIDE DEF b, v
    <3> QED
      BY <2>1, TextReplaced
  <2>4. new(i, j) = IF a[i].role \in both /\ b.kind = "text" THEN [b EXCEPT !.text = v] ELSE b
    BY DEF Marked
  <2>5. old(i, j) = IF a[i].role \in both /\ b.kind = "text" THEN Said(v) ELSE b
    BY <2>2
  <2> HIDE DEF new, old, b, v
  <2> QED
    BY <2>3, <2>4, <2>5
<1>2. Dedupe(q) = [q EXCEPT !.messages = rewriting,
                            !.loss = IF repeats = {} THEN q.loss ELSE "selective"]
  BY DEF Dedupe, Rewrite, Repeats, LongPlaces
<1>3. Rewritten(a, both, Deduped(a)) = [i \in DOMAIN a |->
          [role |-> a[i].role, content |-> [j \in DOMAIN a[i].content |-> old(i, j)]]]
  BY DEF Rewritten
<1>4. ASSUME NEW i \in DOMAIN a
      PROVE  [a[i] EXCEPT !.content = [j \in DOMAIN a[i].content |-> new(i, j)]]
             = [role |-> a[i].role, content |-> [j \in DOMAIN a[i].content |-> old(i, j)]]
  <2> HIDE DEF new, old
  <2>1. [j \in DOMAIN a[i].content |-> new(i, j)] = [j \in DOMAIN a[i].content |-> old(i, j)]
    BY <1>1
  <2>2. a[i] \in Message
    BY <1>0, MessageFacts
  <2> QED
    BY <2>1, <2>2, ContentReplaced
<1>5. rewriting = Rewritten(a, both, Deduped(a))
  <2> HIDE DEF new, old
  <2> QED
    BY <1>3, <1>4
<1> HIDE DEF rewriting
<1> QED
  BY <1>2, <1>5

LEMMA DedupeRecasts ==
    ASSUME NEW q \in Request
    PROVE  /\ Dedupe(q) \in Request /\ Recast(q.messages, Dedupe(q).messages)
           /\ Dedupe(q).loss \in {q.loss, "selective"}
           /\ \/ Dedupe(q).loss = "selective"
              \/ Unmarked(q.messages) => SameSense(q.messages, Dedupe(q).messages)
<1> DEFINE a == q.messages
           f == Deduped(a)
           b == Rewritten(a, {"tool", "assistant"}, f)
           r == Dedupe(q)
<1>0. a \in Seq(Message) /\ q.loss \in {"lossless", "selective"}
  BY DEF Request
<1>1. \A t \in Text : [t EXCEPT !.noise = {}, !.mark = "reference"] \in Text
                      /\ [t EXCEPT !.mark = "source"] \in Text
  BY DEF Text
<1>2. \A t \in Text : t.mark = "none" => Sense([t EXCEPT !.mark = "source"]) = Sense(t)
  BY DEF Text, Sense
<1>3. ASSUME NEW i \in DOMAIN a, NEW j \in DOMAIN a[i].content, a[i].content[j].kind = "text"
      PROVE  /\ a[i].content[j].text \in Text
             /\ f[<<i, j>>] = Marked(a[i].content[j].text, <<i, j>>, Repeats(a), LongPlaces(a))
             /\ f[<<i, j>>] \in Text
  <2>1. a[i].content[j] \in Block
    BY <1>0, MessageFacts
  <2>2. a[i].content[j].text \in Text
    BY <1>3, <2>1, BlockFacts
  <2>3. f[<<i, j>>] = Marked(a[i].content[j].text, <<i, j>>, Repeats(a), LongPlaces(a))
    BY PlaceOfBlock DEF Deduped
  <2>4. f[<<i, j>>] \in Text
    BY <1>1, <2>2, <2>3 DEF Marked
  <2> QED
    BY <2>2, <2>3, <2>4
<1>4. r = [q EXCEPT !.messages = b, !.loss = IF Repeats(a) = {} THEN q.loss ELSE "selective"]
  BY DedupeIs
<1> HIDE DEF f
<1>5. Recast(a, b)
  <2>1. \A i \in DOMAIN a : \A j \in DOMAIN a[i].content :
            a[i].role \in {"tool", "assistant"} /\ a[i].content[j].kind = "text"
                => f[<<i, j>>] \in Text
    BY <1>3
  <2> QED
    BY <1>0, <2>1, RewrittenRecasts
<1>6. ASSUME Repeats(a) = {}, Unmarked(a) PROVE SameSense(a, b)
  <2>1. ASSUME NEW i \in DOMAIN a, NEW j \in DOMAIN a[i].content, a[i].content[j].kind = "text"
        PROVE  Sense(b[i].content[j].text) = Sense(a[i].content[j].text)
    <3> DEFINE t == a[i].content[j].text
    <3>1. t.mark = "none" /\ t \in Text
      BY <1>3, <1>6, <2>1 DEF Unmarked
    <3>2. f[<<i, j>>] \in {t, [t EXCEPT !.mark = "source"]}
      BY <1>3, <1>6, <2>1 DEF Marked
    <3>3. b[i].content[j].text \in {t, f[<<i, j>>]}
      BY <2>1, RewrittenText
    <3> HIDE DEF t, b
    <3>4. Sense(b[i].content[j].text) = Sense(t)
      BY <1>2, <3>1, <3>2, <3>3
    <3> QED
      BY <3>4 DEF t
  <2> HIDE DEF b
  <2> QED
    BY <2>1 DEF SameSense
<1> HIDE DEF b
<1>7. r \in Request /\ r.messages = b
      /\ r.loss = IF Repeats(a) = {} THEN q.loss ELSE "selective"
  <2>1. b \in Seq(Message)
    BY <1>5 DEF Recast
  <2> HIDE DEF r, a
  <2> QED
    BY <1>4, <2>1 DEF Request
<1> HIDE DEF r
<1>8. /\ r \in Request /\ Recast(a, r.messages) /\ r.loss \in {q.loss, "selective"}
      /\ r.loss = "selective" \/ (Unmarked(a) => SameSense(a, r.messages))
  BY <1>0, <1>5, <1>6, <1>7
<1> QED
  BY <1>8 DEF r

-----------------------------------------------------------------------------
(* What the stages carry: the result b stands in a tool message (as its    *)
(* last block, if it was), and its call in an earlier message; one message *)
(* holds the call.                                                         *)
HoldsBlock(m, b) == \E l \in DOMAIN m.content : m.content[l] = b
Arrives(a, b, last) ==
    \E i \in DOMAIN a : \E j \in DOMAIN a[i].content :
        /\ a[i].role = "tool" /\ a[i].content[j] = b
        /\ last => j = Len(a[i].content)
        /\ \E k \in DOMAIN a : k < i /\ a[k].role # "tool" /\ HoldsBlock(a[k], Call(b.id))
OneCaller(a) ==
    \A i, k \in DOMAIN a : \A j \in DOMAIN a[i].content : \A l \in DOMAIN a[k].content :
        /\ a[i].content[j].kind = "call" /\ a[k].content[l].kind = "call"
        /\ a[i].content[j].id = a[k].content[l].id
        => i = k
Carries(a, b) ==
    /\ OneCaller(a) => OneCaller(b)
    /\ OneCaller(a) => \A r \in Block : \A last \in BOOLEAN :
           r.kind = "result" /\ Arrives(a, r, last) => Arrives(b, r, last)

LEMMA RecastCarries ==
    ASSUME NEW a \in Seq(Message), NEW b, Recast(a, b)
    PROVE  Carries(a, b)
<1>0. /\ b \in Seq(Message) /\ DOMAIN b = DOMAIN a
      /\ \A i \in DOMAIN a : b[i].role = a[i].role /\ DOMAIN b[i].content = DOMAIN a[i].content
      /\ \A i \in DOMAIN a : \A j \in DOMAIN a[i].content :
             /\ b[i].content[j].kind = a[i].content[j].kind
             /\ a[i].content[j].kind # "text" => b[i].content[j] = a[i].content[j]
  BY DEF Recast
<1>1. OneCaller(a) => OneCaller(b)
  <2> SUFFICES ASSUME OneCaller(a), NEW i \in DOMAIN b, NEW k \in DOMAIN b,
                      NEW j \in DOMAIN b[i].content, NEW l \in DOMAIN b[k].content,
                      b[i].content[j].kind = "call", b[k].content[l].kind = "call",
                      b[i].content[j].id = b[k].content[l].id
               PROVE  i = k
    BY DEF OneCaller
  <2>1. /\ i \in DOMAIN a /\ k \in DOMAIN a
        /\ j \in DOMAIN a[i].content /\ l \in DOMAIN a[k].content
    BY <1>0
  <2>2. b[i].content[j] = a[i].content[j] /\ b[k].content[l] = a[k].content[l]
    BY <1>0, <2>1
  <2> QED
    BY <2>1, <2>2 DEF OneCaller
<1>2. ASSUME NEW r \in Block, NEW last \in BOOLEAN, r.kind = "result", Arrives(a, r, last)
      PROVE  Arrives(b, r, last)
  <2>1. PICK i \in DOMAIN a : \E j \in DOMAIN a[i].content :
            /\ a[i].role = "tool" /\ a[i].content[j] = r
            /\ last => j = Len(a[i].content)
            /\ \E k \in DOMAIN a : k < i /\ a[k].role # "tool" /\ HoldsBlock(a[k], Call(r.id))
    BY <1>2 DEF Arrives
  <2>2. PICK j \in DOMAIN a[i].content :
            /\ a[i].role = "tool" /\ a[i].content[j] = r
            /\ last => j = Len(a[i].content)
    BY <2>1
  <2>3. PICK k \in DOMAIN a : k < i /\ a[k].role # "tool" /\ HoldsBlock(a[k], Call(r.id))
    BY <2>1
  <2>4. PICK l \in DOMAIN a[k].content : a[k].content[l] = Call(r.id)
    BY <2>3 DEF HoldsBlock
  <2>5. Len(b[i].content) = Len(a[i].content)
    <3>1. /\ Len(a[i].content) \in Nat /\ DOMAIN a[i].content = 1 .. Len(a[i].content)
          /\ Len(b[i].content) \in Nat /\ DOMAIN b[i].content = 1 .. Len(b[i].content)
      BY <1>0, MessageFacts
    <3>2. DOMAIN a[i].content = DOMAIN b[i].content
      BY <1>0
    <3> QED
      BY <3>1, <3>2
  <2>6. b[i].content[j] = r /\ b[k].content[l] = Call(r.id)
    <3>1. Call(r.id).kind = "call"
      BY DEF Call
    <3> QED
      BY <1>0, <1>2, <2>2, <2>4, <3>1
  <2>7. HoldsBlock(b[k], Call(r.id))
    BY <1>0, <2>6 DEF HoldsBlock
  <2>8. /\ i \in DOMAIN b /\ j \in DOMAIN b[i].content /\ k \in DOMAIN b
        /\ b[i].role = "tool" /\ b[k].role # "tool"
    BY <1>0, <2>2, <2>3
  <2> QED
    BY <2>2, <2>3, <2>5, <2>6, <2>7, <2>8 DEF Arrives
<1> QED
  BY <1>1, <1>2 DEF Carries

\* The messages of a kind of block of one id, and which of them are kept.
Of(a, kind, id) ==
    {i \in DOMAIN a : \E b \in Range(a[i].content) : b.kind = kind /\ b.id = id}

LEMMA PairsKept ==
    ASSUME NEW a \in Seq(Message), OneCaller(a)
    PROVE  /\ PairedMessages(a) \subseteq DOMAIN a
           /\ \A id \in Nat : Of(a, "call", id) # {} /\ Of(a, "result", id) # {}
                  => Of(a, "call", id) \cup Of(a, "result", id) \subseteq PairedMessages(a)
<1> DEFINE paired == {id \in {At(a, p).id : p \in Blocks(a)} :
                          Of(a, "call", id) # {} /\ Of(a, "result", id) # {}}
<1>1. PairedMessages(a) =
          UNION {{Max(Of(a, "call", id))} \cup Of(a, "result", id) : id \in paired}
  BY DEF PairedMessages, Of
<1>2. ASSUME NEW id, Of(a, "call", id) # {}
      PROVE  Of(a, "call", id) = {Max(Of(a, "call", id))}
  <2>1. PICK i \in DOMAIN a : i \in Of(a, "call", id)
    BY <1>2 DEF Of
  <2>2. ASSUME NEW k \in Of(a, "call", id), NEW l \in Of(a, "call", id) PROVE k = l
    <3>1. PICK x \in DOMAIN a[k].content : a[k].content[x].kind = "call" /\ a[k].content[x].id = id
      BY DEF Of, Range
    <3>2. PICK y \in DOMAIN a[l].content : a[l].content[y].kind = "call" /\ a[l].content[y].id = id
      BY DEF Of, Range
    <3>3. k \in DOMAIN a /\ l \in DOMAIN a
      BY DEF Of
    <3> QED
      BY <3>1, <3>2, <3>3 DEF OneCaller
  <2>3. Of(a, "call", id) = {i}
    BY <2>1, <2>2
  <2>4. Max({i}) = i
    <3>1. i \in Int
      BY MessageFacts
    <3> QED
      BY <3>1 DEF Max
  <2> QED
    BY <2>3, <2>4
<1>3. ASSUME NEW id \in Nat, Of(a, "call", id) # {}, Of(a, "result", id) # {}
      PROVE  id \in paired
  <2>1. PICK i \in DOMAIN a : \E b \in Range(a[i].content) : b.kind = "call" /\ b.id = id
    BY <1>3 DEF Of
  <2>2. PICK j \in DOMAIN a[i].content : a[i].content[j].id = id
    BY <2>1 DEF Range
  <2>3. <<i, j>> \in Blocks(a) /\ At(a, <<i, j>>).id = id
    BY <2>2, PlaceOfBlock
  <2> QED
    BY <1>3, <2>3
<1>4. ASSUME NEW id \in paired
      PROVE  {Max(Of(a, "call", id))} \cup Of(a, "result", id) \subseteq DOMAIN a
  <2>1. Of(a, "call", id) \subseteq DOMAIN a /\ Of(a, "result", id) \subseteq DOMAIN a
    BY DEF Of
  <2>2. Of(a, "call", id) # {}
    OBVIOUS
  <2> QED
    BY <1>2, <2>1, <2>2
<1> HIDE DEF paired
<1>5. ASSUME NEW id \in Nat, Of(a, "call", id) # {}, Of(a, "result", id) # {}
      PROVE  Of(a, "call", id) \cup Of(a, "result", id) \subseteq PairedMessages(a)
  <2>1. {Max(Of(a, "call", id))} \cup Of(a, "result", id) \subseteq PairedMessages(a)
    BY <1>1, <1>3, <1>5
  <2>2. Of(a, "call", id) = {Max(Of(a, "call", id))}
    BY <1>2, <1>5
  <2> QED
    BY <2>1, <2>2
<1> QED
  BY <1>1, <1>4, <1>5

LEMMA PairKept ==
    ASSUME NEW a \in Seq(Message), OneCaller(a), NEW r \in Block, r.kind = "result",
           NEW i \in DOMAIN a, HoldsBlock(a[i], r),
           NEW k \in DOMAIN a, HoldsBlock(a[k], Call(r.id))
    PROVE  i \in PairedMessages(a) /\ k \in PairedMessages(a)
<1>1. r.id \in Nat /\ Call(r.id).kind = "call" /\ Call(r.id).id = r.id
  BY BlockFacts DEF Call
<1>2. i \in Of(a, "result", r.id) /\ k \in Of(a, "call", r.id)
  BY <1>1 DEF Of, Range, HoldsBlock
<1>3. Of(a, "call", r.id) \cup Of(a, "result", r.id) \subseteq PairedMessages(a)
  BY <1>1, <1>2, PairsKept
<1> QED
  BY <1>2, <1>3

\* The message with a result and the one with its call are kept together.
LEMMA OnlyCarries ==
    ASSUME NEW a \in Seq(Message), NEW K \in SUBSET DOMAIN a,
           OneCaller(a) => PairedMessages(a) \subseteq K
    PROVE  Only(a, K) \in Seq(Message) /\ Carries(a, Only(a, K))
<1> DEFINE b == Only(a, K)
<1>0. Len(a) \in Nat /\ DOMAIN a = 1 .. Len(a) /\ \A i \in DOMAIN a : a[i] \in Message
  BY MessageFacts
<1>1. PICK m \in Nat : \E at : Keeps(a, K, m, at)
  <2>1. Len(a) \in Nat /\ K \in SUBSET (1 .. Len(a))
    BY <1>0
  <2> QED
    BY <2>1, OnlyKeeps
<1>2. PICK at \in [1 .. m -> K] :
          /\ b = [k \in 1 .. m |-> a[at[k]]]
          /\ \A i \in K : \E k \in 1 .. m : at[k] = i
          /\ \A k, l \in 1 .. m : k < l => at[k] < at[l]
  BY <1>1 DEF Keeps
<1> HIDE DEF b
<1>3. /\ DOMAIN b = 1 .. m
      /\ \A k \in 1 .. m : at[k] \in DOMAIN a /\ at[k] \in K /\ b[k] = a[at[k]]
  BY <1>2
<1>4. b \in Seq(Message)
  BY <1>0, <1>2, <1>3
<1>5. \A k, l \in 1 .. m : at[k] = at[l] => k = l
  <2> SUFFICES ASSUME NEW k \in 1 .. m, NEW l \in 1 .. m, at[k] = at[l] PROVE k = l
    OBVIOUS
  <2>1. at[k] \in Int /\ at[l] \in Int
    BY <1>0, <1>3
  <2>2. ~(k < l) /\ ~(l < k)
    BY <1>2, <2>1
  <2> QED
    BY <2>2
<1>6. ASSUME OneCaller(a) PROVE OneCaller(b)
  <2> SUFFICES ASSUME NEW i \in DOMAIN b, NEW k \in DOMAIN b,
                      NEW j \in DOMAIN b[i].content, NEW l \in DOMAIN b[k].content,
                      b[i].content[j].kind = "call", b[k].content[l].kind = "call",
                      b[i].content[j].id = b[k].content[l].id
               PROVE  i = k
    BY DEF OneCaller
  <2>1. /\ at[i] \in DOMAIN a /\ at[k] \in DOMAIN a /\ b[i] = a[at[i]] /\ b[k] = a[at[k]]
    BY <1>3
  <2>2. at[i] = at[k]
    BY <1>6, <2>1 DEF OneCaller
  <2> QED
    BY <1>3, <1>5, <2>2
<1>7. ASSUME OneCaller(a), NEW r \in Block, NEW last \in BOOLEAN, r.kind = "result",
             Arrives(a, r, last)
      PROVE  Arrives(b, r, last)
  <2>1. PICK i \in DOMAIN a : \E j \in DOMAIN a[i].content :
            /\ a[i].role = "tool" /\ a[i].content[j] = r
            /\ last => j = Len(a[i].content)
            /\ \E k \in DOMAIN a : k < i /\ a[k].role # "tool" /\ HoldsBlock(a[k], Call(r.id))
    BY <1>7 DEF Arrives
  <2>2. PICK j \in DOMAIN a[i].content :
            /\ a[i].role = "tool" /\ a[i].content[j] = r
            /\ last => j = Len(a[i].content)
    BY <2>1
  <2>3. PICK k \in DOMAIN a : k < i /\ a[k].role # "tool" /\ HoldsBlock(a[k], Call(r.id))
    BY <2>1
  <2>4. i \in K /\ k \in K
    <3>1. HoldsBlock(a[i], r)
      BY <2>2 DEF HoldsBlock
    <3>2. i \in PairedMessages(a) /\ k \in PairedMessages(a)
      BY <1>7, <2>3, <3>1, PairKept
    <3> QED
      BY <1>7, <3>2
  <2>5. PICK x \in 1 .. m : at[x] = i
    BY <1>2, <2>4
  <2>6. PICK y \in 1 .. m : at[y] = k
    BY <1>2, <2>4
  <2>7. b[x] = a[i] /\ b[y] = a[k]
    BY <1>3, <2>5, <2>6
  <2>8. y < x
    <3>1. ~(x < y)
      <4>1. i \in Int /\ k \in Int /\ ~(i < k)
        BY <1>0, <2>3
      <4> QED
        BY <1>2, <2>5, <2>6, <4>1
    <3>2. x # y
      BY <1>0, <2>3, <2>5, <2>6
    <3> QED
      BY <3>1, <3>2
  <2>9. x \in DOMAIN b /\ y \in DOMAIN b
    BY <1>3
  <2> QED
    BY <2>2, <2>3, <2>7, <2>8, <2>9 DEF Arrives
<1>8. Carries(a, b)
  BY <1>6, <1>7 DEF Carries
<1> QED
  BY <1>4, <1>8 DEF b

-----------------------------------------------------------------------------
(* The stages: what a stage returns for q in a mode, seen from the messages *)
(* P the handler parsed. The stages before log compaction keep P's meaning, *)
(* also without repeated lines, and what collapsing those saves.            *)
Carried(P, q, mode) ==
    /\ q \in Request /\ OneCaller(q.messages)
    /\ \A r \in Block : \A last \in BOOLEAN :
           r.kind = "result" /\ Arrives(P, r, last) => Arrives(q.messages, r, last)
    /\ q.loss = "selective" => mode # "safe"
Faithful(P, q) == q.loss = "selective" \/ Alike(P, q.messages)
Declares(P, q, mode) ==
    \/ Meaning(q.messages) = Meaning(P)
    \/ /\ mode \notin {"off", "safe"}
       /\ \/ q.loss = "selective"
          \/ Meaning(q.messages) = Meaning(Quieter(P, "runs")) /\ ~Pays(P)

\* The request a stage made of q; before log compaction, and after it.
Makes(q, r) == r \in Request /\ Carries(q.messages, r.messages)
Faithfully(q, r) == r.loss = "selective" \/ (r.loss = q.loss /\ Alike(q.messages, r.messages))
Plainly(q, r) == r.loss = "selective" \/ (r.loss = q.loss /\ r.messages = q.messages)

LEMMA MadeIsCarried ==
    ASSUME NEW P, NEW mode, NEW q, Carried(P, q, mode), NEW r, Makes(q, r),
           r.loss = q.loss \/ mode # "safe"
    PROVE  Carried(P, r, mode)
  BY DEF Carried, Makes, Carries

LEMMA MadeIsFaithful ==
    ASSUME NEW P, NEW q, Faithful(P, q), NEW r, Faithfully(q, r)
    PROVE  Faithful(P, r)
  BY DEF Faithful, Faithfully, Alike

LEMMA MakesNothing ==
    ASSUME NEW q \in Request
    PROVE  Makes(q, q) /\ Plainly(q, q) /\ Faithfully(q, q)
  BY DEF Makes, Carries, Plainly, Faithfully, Alike

LEMMA QuietStage ==
    ASSUME NEW q \in Request, NEW noise
    PROVE  /\ [q EXCEPT !.messages = Quieter(q.messages, noise)] \in Request
           /\ Carries(q.messages, Quieter(q.messages, noise))
           /\ Recast(q.messages, Quieter(q.messages, noise))
<1>1. q.messages \in Seq(Message)
  BY DEF Request
<1>2. Recast(q.messages, Quieter(q.messages, noise))
  BY <1>1, QuieterRecasts
<1>3. Carries(q.messages, Quieter(q.messages, noise))
  BY <1>1, <1>2, RecastCarries
<1>4. Quieter(q.messages, noise) \in Seq(Message)
  BY <1>2 DEF Recast
<1> QED
  BY <1>2, <1>3, <1>4 DEF Request

LEMMA LosslessStages ==
    ASSUME NEW q \in Request
    PROVE  \A r \in {StripANSI(q), CompactJSON(q)} :
               /\ Makes(q, r) /\ Faithfully(q, r) /\ r.loss = q.loss
               /\ Unmarked(q.messages) => Unmarked(r.messages)
<1>1. ASSUME NEW noise \in {"ansi", "spaced"}, NEW r,
             r = [q EXCEPT !.messages = Quieter(q.messages, noise)]
      PROVE  /\ Makes(q, r) /\ Faithfully(q, r) /\ r.loss = q.loss
             /\ Unmarked(q.messages) => Unmarked(r.messages)
  <2>1. q.messages \in Seq(Message)
    BY DEF Request
  <2>2. r \in Request /\ Carries(q.messages, Quieter(q.messages, noise))
    BY <1>1, QuietStage
  <2>3. r.messages = Quieter(q.messages, noise) /\ r.loss = q.loss
    BY <1>1 DEF Request
  <2>4. /\ Recast(q.messages, Quieter(q.messages, noise))
        /\ SameSense(q.messages, Quieter(q.messages, noise))
        /\ Unmarked(q.messages) => Unmarked(Quieter(q.messages, noise))
    BY <2>1, QuieterRecasts
  <2>5. Alike(q.messages, r.messages)
    BY <2>1, <2>3, <2>4, AlikeRecast
  <2> QED
    BY <2>2, <2>3, <2>4, <2>5 DEF Makes, Faithfully
<1> QED
  BY <1>1 DEF StripANSI, CompactJSON

LEMMA DedupeStage ==
    ASSUME NEW q \in Request
    PROVE  /\ Makes(q, Dedupe(q))
           /\ Unmarked(q.messages) => Faithfully(q, Dedupe(q))
<1>1. q.messages \in Seq(Message)
  BY DEF Request
<1>2. /\ Dedupe(q) \in Request /\ Recast(q.messages, Dedupe(q).messages)
      /\ Dedupe(q).loss \in {q.loss, "selective"}
      /\ \/ Dedupe(q).loss = "selective"
         \/ Unmarked(q.messages) => SameSense(q.messages, Dedupe(q).messages)
  BY DedupeRecasts
<1>3. Carries(q.messages, Dedupe(q).messages)
  BY <1>1, <1>2, RecastCarries
<1>4. SameSense(q.messages, Dedupe(q).messages) => Alike(q.messages, Dedupe(q).messages)
  BY <1>1, <1>2, AlikeRecast
<1> QED
  BY <1>2, <1>3, <1>4 DEF Makes, Faithfully

\* Without a recorded loss, repeated lines are collapsed where it saves nothing.
LEMMA CompactLogsStage ==
    ASSUME NEW q \in Request
    PROVE  /\ Makes(q, CompactLogs(q))
           /\ \/ Plainly(q, CompactLogs(q))
              \/ /\ CompactLogs(q).loss = q.loss
                 /\ CompactLogs(q).messages = Quieter(q.messages, "runs")
                 /\ ~Pays(q.messages)
<1> DEFINE r == CompactLogs(q)
           quiet == Quieter(q.messages, "runs")
           loss == IF Pays(q.messages) THEN "selective" ELSE q.loss
           s == [q EXCEPT !.messages = quiet, !.loss = loss]
<1>1. r = IF quiet = q.messages THEN q ELSE s
  BY DEF CompactLogs
<1>2. [q EXCEPT !.messages = quiet] \in Request /\ Carries(q.messages, quiet)
  BY QuietStage
<1>3. loss \in {"lossless", "selective"} /\ loss \in {q.loss, "selective"}
      /\ (loss = "selective" \/ (loss = q.loss /\ ~Pays(q.messages)))
  BY DEF Request
<1> HIDE DEF r, quiet, loss
<1>4. quiet \in Seq(Message)
  <2>1. [q EXCEPT !.messages = quiet].messages = quiet
    BY DEF Request
  <2>2. [q EXCEPT !.messages = quiet].messages \in Seq(Message)
    BY <1>2 DEF Request
  <2> QED
    BY <2>1, <2>2
<1>5. s \in Request /\ s.messages = quiet /\ s.loss = loss
  BY <1>3, <1>4 DEF Request
<1> HIDE DEF s
<1>6. CASE r = q
  BY <1>6, MakesNothing DEF r
<1>7. CASE r = s
  <2>1. Makes(q, r)
    BY <1>2, <1>5, <1>7 DEF Makes
  <2>2. r.loss = "selective" \/ (r.loss = q.loss /\ r.messages = quiet /\ ~Pays(q.messages))
    BY <1>3, <1>5, <1>7
  <2> QED
    BY <2>1, <2>2 DEF r, quiet, Plainly
<1> QED
  BY <1>1, <1>6, <1>7

LEMMA TrimStage ==
    ASSUME NEW q \in Request, NEW protected, OneCaller(q.messages)
    PROVE  Makes(q, Trim(q, protected)) /\ Plainly(q, Trim(q, protected))
<1> DEFINE msgs == q.messages
           fixed == ProtectedMessages(msgs, protected)
           recent == Newest((DOMAIN msgs) \ fixed, Max({1, 2 * RecentTurnsFull}))
           left(n) == fixed \cup (recent \ Oldest(recent, n))
           enough(n) == \/ Estimate(Only(msgs, left(n))) <= TargetTokens
                        \/ Cardinality(left(n)) <= 1
                        \/ n = Cardinality(recent)
           stop == Min({n \in 0 .. Cardinality(recent) : enough(n)})
           kept == left(stop)
           r == Trim(q, protected)
<1>0. msgs \in Seq(Message)
  BY DEF Request
<1>1. r = IF Estimate(msgs) + Overhead < TriggerTokens \/ kept = DOMAIN msgs THEN q
          ELSE [q EXCEPT !.messages = Only(msgs, kept), !.loss = "selective"]
  BY DEF Trim
<1>2. PairedMessages(msgs) \subseteq kept
  BY DEF ProtectedMessages
<1>3. kept \in SUBSET DOMAIN msgs
  <2>1. fixed \subseteq DOMAIN msgs
    <3>1. PairedMessages(msgs) \subseteq DOMAIN msgs
      BY <1>0, PairsKept
    <3>2. LastUser(msgs) \subseteq DOMAIN msgs
      BY DEF LastUser
    <3> QED
      BY <3>1, <3>2 DEF ProtectedMessages
  <2>2. recent \subseteq DOMAIN msgs
    BY DEF Newest
  <2> QED
    BY <2>1, <2>2
<1> HIDE DEF kept
<1>4. Only(msgs, kept) \in Seq(Message) /\ Carries(msgs, Only(msgs, kept))
  BY <1>0, <1>2, <1>3, OnlyCarries
<1> DEFINE s == [q EXCEPT !.messages = Only(msgs, kept), !.loss = "selective"]
<1>5. s \in Request /\ s.messages = Only(msgs, kept) /\ s.loss = "selective"
  BY <1>4 DEF Request
<1>6. r \in {q, s}
  BY <1>1
<1> HIDE DEF r, s
<1>7. Makes(q, s) /\ Plainly(q, s)
  BY <1>4, <1>5 DEF Makes, Plainly
<1>8. Makes(q, r) /\ Plainly(q, r)
  BY <1>6, <1>7, MakesNothing
<1> QED
  BY <1>8 DEF r

LEMMA OutputBudgetStage ==
    ASSUME NEW q \in Request, NEW mode
    PROVE  /\ Makes(q, OutputBudget(q, mode)) /\ Plainly(q, OutputBudget(q, mode))
           /\ OutputBudget(q, mode).loss = q.loss
<1>1. \A s \in {q, [q EXCEPT !.max = "planned"]} :
          s \in Request /\ s.messages = q.messages /\ s.loss = q.loss
  BY DEF Request
<1>2. OutputBudget(q, mode) \in {q, [q EXCEPT !.max = "planned"]}
  BY DEF OutputBudget
<1>3. /\ OutputBudget(q, mode) \in Request
      /\ OutputBudget(q, mode).messages = q.messages /\ OutputBudget(q, mode).loss = q.loss
  BY <1>1, <1>2
<1>4. Carries(q.messages, q.messages)
  BY DEF Carries
<1> QED
  BY <1>3, <1>4 DEF Makes, Plainly

LEMMA StageIsCarried ==
    ASSUME NEW P, NEW mode, NEW q, Carried(P, q, mode), NEW server, NEW protected,
           NEW stage \in {"ansi_strip", "json_compact", "dedupe", "log_compact",
                          "conversation_window", "output_budget"}
    PROVE  Carried(P, Stage(q, stage, server, mode, protected), mode)
<1> DEFINE copy == Optimize(stage, q, protected, mode)
           r == Stage(q, stage, server, mode, protected)
<1>0. q \in Request /\ OneCaller(q.messages)
  BY DEF Carried
<1>1. /\ r \in {q, copy}
      /\ r = q \/ Supports(stage, server, mode)
  BY DEF Stage, Commit
<1>2. Makes(q, copy)
  <2>1. CASE stage \in {"ansi_strip", "json_compact"}
    <3>1. copy \in {StripANSI(q), CompactJSON(q)}
      BY <2>1 DEF Optimize
    <3> QED
      BY <1>0, <3>1, LosslessStages
  <2>2. CASE stage = "dedupe"
    <3>1. copy = Dedupe(q)
      BY <2>2 DEF Optimize
    <3> QED
      BY <1>0, <3>1, DedupeStage
  <2>3. CASE stage = "log_compact"
    <3>1. copy = CompactLogs(q)
      BY <2>3 DEF Optimize
    <3> QED
      BY <1>0, <3>1, CompactLogsStage
  <2>4. CASE stage = "conversation_window"
    <3>1. copy = Trim(q, protected)
      BY <2>4 DEF Optimize
    <3> QED
      BY <1>0, <3>1, TrimStage
  <2>5. CASE stage = "output_budget"
    <3>1. copy = OutputBudget(q, mode)
      BY <2>5 DEF Optimize
    <3> QED
      BY <1>0, <3>1, OutputBudgetStage
  <2> QED
    BY <2>1, <2>2, <2>3, <2>4, <2>5
<1>3. Supports(stage, server, mode) => copy.loss = q.loss \/ mode # "safe"
  <2>1. CASE stage \in {"ansi_strip", "json_compact"}
    <3>1. copy \in {StripANSI(q), CompactJSON(q)}
      BY <2>1 DEF Optimize
    <3> QED
      BY <1>0, <3>1, LosslessStages
  <2>2. CASE stage \in {"dedupe", "log_compact", "conversation_window"}
    BY <2>2 DEF Supports
  <2>3. CASE stage = "output_budget"
    <3>1. copy = OutputBudget(q, mode)
      BY <2>3 DEF Optimize
    <3> QED
      BY <1>0, <3>1, OutputBudgetStage
  <2> QED
    BY <2>1, <2>2, <2>3
<1> HIDE DEF copy, r
<1>4. Carried(P, r, mode)
  <2>1. CASE r = q
    BY <2>1
  <2>2. CASE r = copy /\ Supports(stage, server, mode)
    BY <1>2, <1>3, <2>2, MadeIsCarried
  <2> QED
    BY <1>1, <2>1, <2>2
<1> QED
  BY <1>4 DEF r

\* The first three stages are faithful to what was parsed.
LEMMA StageIsFaithful ==
    ASSUME NEW P, NEW mode, NEW q \in Request, Unmarked(q.messages), Faithful(P, q),
           NEW server, NEW protected,
           NEW stage \in {"ansi_strip", "json_compact", "dedupe"}
    PROVE  /\ Faithful(P, Stage(q, stage, server, mode, protected))
           /\ stage # "dedupe" => Unmarked(Stage(q, stage, server, mode, protected).messages)
<1> DEFINE copy == Optimize(stage, q, protected, mode)
           r == Stage(q, stage, server, mode, protected)
<1>1. r \in {q, copy}
  BY DEF Stage, Commit
<1>2. copy \in {StripANSI(q), CompactJSON(q), Dedupe(q)}
      /\ (stage # "dedupe" => copy \in {StripANSI(q), CompactJSON(q)})
  BY DEF Optimize
<1> HIDE DEF copy, r
<1>3. Faithfully(q, copy)
  BY <1>2, LosslessStages, DedupeStage
<1>4. stage # "dedupe" => Unmarked(copy.messages)
  BY <1>2, LosslessStages
<1>5. Faithful(P, r)
  BY <1>1, <1>3, MadeIsFaithful
<1>6. stage # "dedupe" => Unmarked(r.messages)
  BY <1>1, <1>4
<1> QED
  BY <1>5, <1>6 DEF r

\* Log compaction declares what it does, or repeated lines are all it took.
LEMMA LogsDeclared ==
    ASSUME NEW P, NEW mode, mode # "off", NEW q, Carried(P, q, mode), Faithful(P, q),
           NEW server, NEW protected
    PROVE  Declares(P, Stage(q, "log_compact", server, mode, protected), mode)
<1> DEFINE copy == CompactLogs(q)
           r == Stage(q, "log_compact", server, mode, protected)
<1>1. r = q \/ (r = copy /\ mode # "safe")
  <2>1. Optimize("log_compact", q, protected, mode) = copy
    BY DEF Optimize
  <2>2. Supports("log_compact", server, mode) => mode # "safe"
    BY DEF Supports
  <2> HIDE DEF copy
  <2> QED
    BY <2>1, <2>2 DEF Stage, Commit
<1>2. q \in Request /\ (q.loss = "selective" => mode # "safe")
  BY DEF Carried
<1>3. \/ copy.loss = "selective" \/ (copy.loss = q.loss /\ copy.messages = q.messages)
      \/ copy.loss = q.loss /\ copy.messages = Quieter(q.messages, "runs") /\ ~Pays(q.messages)
  BY <1>2, CompactLogsStage DEF Plainly
<1>4. q.loss = "selective"
      \/ (/\ Meaning(q.messages) = Meaning(P)
          /\ Meaning(Quieter(q.messages, "runs")) = Meaning(Quieter(P, "runs"))
          /\ Pays(q.messages) <=> Pays(P))
  BY DEF Faithful, Alike, Pays
<1> HIDE DEF copy, r
<1>5. CASE r = q
  BY <1>2, <1>4, <1>5 DEF r, Declares
<1>6. CASE r = copy /\ mode # "safe"
  <2>1. CASE copy.loss = "selective"
    BY <1>6, <2>1 DEF r, Declares
  <2>2. CASE copy.loss = q.loss /\ copy.messages = q.messages
    BY <1>4, <1>6, <2>2 DEF r, Declares
  <2>3. CASE copy.loss = q.loss /\ copy.messages = Quieter(q.messages, "runs") /\ ~Pays(q.messages)
    BY <1>4, <1>6, <2>3 DEF r, Declares
  <2> QED
    BY <1>3, <2>1, <2>2, <2>3
<1> QED
  BY <1>1, <1>5, <1>6

\* What comes after it is declared, or takes nothing.
LEMMA LateStageDeclares ==
    ASSUME NEW P, NEW mode, mode # "off", NEW q, Carried(P, q, mode), Declares(P, q, mode),
           NEW server, NEW protected, NEW stage \in {"conversation_window", "output_budget"}
    PROVE  Declares(P, Stage(q, stage, server, mode, protected), mode)
<1> DEFINE copy == Optimize(stage, q, protected, mode)
           r == Stage(q, stage, server, mode, protected)
<1>0. q \in Request /\ OneCaller(q.messages)
  BY DEF Carried
<1>1. Carried(P, r, mode)
  BY StageIsCarried
<1>2. r \in {q, copy}
  BY DEF Stage, Commit
<1>3. copy = Trim(q, protected) \/ copy = OutputBudget(q, mode)
  BY DEF Optimize
<1> HIDE DEF copy, r
<1>4. Plainly(q, copy)
  BY <1>0, <1>3, TrimStage, OutputBudgetStage
<1>5. Plainly(q, r)
  BY <1>0, <1>2, <1>4, MakesNothing
<1>6. CASE r.loss = "selective"
  <2>1. mode # "safe"
    BY <1>1, <1>6 DEF Carried
  <2>2. Declares(P, r, mode)
    BY <1>6, <2>1 DEF Declares
  <2> QED
    BY <2>2 DEF r
<1>7. CASE r.loss = q.loss /\ r.messages = q.messages
  <2>1. Declares(P, r, mode)
    BY <1>7 DEF Declares
  <2> QED
    BY <2>1 DEF r
<1> QED
  BY <1>5, <1>6, <1>7 DEF Plainly

\* The request the engine returns is one the six stages carried.
LEMMA ProcessCarries ==
    ASSUME NEW p \in Request, p.loss = "lossless", Unmarked(p.messages), OneCaller(p.messages),
           NEW server, NEW ceiling
    PROVE  /\ Carried(p.messages, Process(p, server, ceiling), ResolveMode(server, ceiling))
           /\ Declares(p.messages, Process(p, server, ceiling), ResolveMode(server, ceiling))
<1> DEFINE mode == ResolveMode(server, ceiling)
           protected == BuildProtected(p.messages)
           P == p.messages
           after(q, stage) == Stage(q, stage, server, mode, protected)
           q1 == after(p, "ansi_strip")
           q2 == after(q1, "json_compact")
           q3 == after(q2, "dedupe")
           q4 == after(q3, "log_compact")
           q5 == after(q4, "conversation_window")
           q6 == after(q5, "output_budget")
<1>1. Process(p, server, ceiling) = IF ~server.enabled \/ mode = "off" THEN p ELSE q6
  BY DEF Process
<1> HIDE DEF mode, protected
<1>2. Carried(P, p, mode) /\ Faithful(P, p) /\ Unmarked(p.messages) /\ Declares(P, p, mode)
  BY DEF Carried, Faithful, Alike, Declares
<1>3. CASE mode # "off"
  <2> HIDE DEF P
  <2>1. Carried(P, q1, mode) /\ Faithful(P, q1) /\ Unmarked(q1.messages)
    <3>1. Carried(P, q1, mode)
      BY <1>2, StageIsCarried
    <3>2. Faithful(P, q1) /\ Unmarked(q1.messages)
      BY <1>2, StageIsFaithful
    <3> QED
      BY <3>1, <3>2
  <2> HIDE DEF q1
  <2>2. Carried(P, q2, mode) /\ Faithful(P, q2) /\ Unmarked(q2.messages)
    <3>1. q1 \in Request
      BY <2>1 DEF Carried
    <3>2. Carried(P, q2, mode)
      BY <2>1, StageIsCarried
    <3>3. Faithful(P, q2) /\ Unmarked(q2.messages)
      BY <2>1, <3>1, StageIsFaithful
    <3> QED
      BY <3>2, <3>3
  <2> HIDE DEF q2
  <2>3. Carried(P, q3, mode) /\ Faithful(P, q3)
    <3>1. q2 \in Request
      BY <2>2 DEF Carried
    <3>2. Carried(P, q3, mode)
      BY <2>2, StageIsCarried
    <3>3. Faithful(P, q3)
      BY <2>2, <3>1, StageIsFaithful
    <3> QED
      BY <3>2, <3>3
  <2> HIDE DEF q3
  <2>4. Carried(P, q4, mode) /\ Declares(P, q4, mode)
    <3>1. Carried(P, q4, mode)
      BY <2>3, StageIsCarried
    <3>2. Declares(P, q4, mode)
      BY <1>3, <2>3, LogsDeclared
    <3> QED
      BY <3>1, <3>2
  <2> HIDE DEF q4
  <2>5. Carried(P, q5, mode) /\ Declares(P, q5, mode)
    <3>1. Carried(P, q5, mode)
      BY <2>4, StageIsCarried
    <3>2. Declares(P, q5, mode)
      BY <1>3, <2>4, LateStageDeclares
    <3> QED
      BY <3>1, <3>2
  <2> HIDE DEF q5
  <2>6. Carried(P, q6, mode) /\ Declares(P, q6, mode)
    <3>1. Carried(P, q6, mode)
      BY <2>5, StageIsCarried
    <3>2. Declares(P, q6, mode)
      BY <1>3, <2>5, LateStageDeclares
    <3> QED
      BY <3>1, <3>2
  <2> HIDE DEF q6
  <2>7. Carried(P, Process(p, server, ceiling), mode)
        /\ Declares(P, Process(p, server, ceiling), mode)
    BY <1>1, <1>2, <2>6
  <2> QED
    BY <2>7 DEF P, mode
<1>4. CASE mode = "off"
  <2>1. Process(p, server, ceiling) = p
    BY <1>1, <1>4
  <2> QED
    BY <1>2, <2>1 DEF mode
<1> QED
  BY <1>3, <1>4

-----------------------------------------------------------------------------
(* Modes: the resolved one is the tighter of what the server and the key   *)
(* allow, so a lossy one is allowed by both.                               *)
LEMMA ModeLevels ==
    /\ Range(Mode) = {"off", "safe", "balanced", "aggressive"}
    /\ Level("off") = 1 /\ Level("safe") = 2 /\ Level("balanced") = 3 /\ Level("aggressive") = 4
<1>1. Range(Mode) = {"off", "safe", "balanced", "aggressive"}
  <2>1. DOMAIN Mode = {1, 2, 3, 4}
    BY DEF Mode
  <2>2. Mode[1] = "off" /\ Mode[2] = "safe" /\ Mode[3] = "balanced" /\ Mode[4] = "aggressive"
    BY DEF Mode
  <2>3. Range(Mode) = {Mode[1], Mode[2], Mode[3], Mode[4]}
    BY <2>1 DEF Range
  <2> QED
    BY <2>2, <2>3
<1>2. /\ DOMAIN Mode = 1 .. 4
      /\ Mode[1] = "off" /\ Mode[2] = "safe" /\ Mode[3] = "balanced" /\ Mode[4] = "aggressive"
  BY DEF Mode
<1> HIDE DEF Mode
<1>3. \A n \in 1 .. 4 : n = 1 \/ n = 2 \/ n = 3 \/ n = 4
  OBVIOUS
<1>4. /\ \A n \in 1 .. 4 : Mode[n] = "off" => n = 1
      /\ \A n \in 1 .. 4 : Mode[n] = "safe" => n = 2
      /\ \A n \in 1 .. 4 : Mode[n] = "balanced" => n = 3
      /\ \A n \in 1 .. 4 : Mode[n] = "aggressive" => n = 4
  BY <1>2, <1>3
<1> QED
  BY <1>1, <1>2, <1>4 DEF Level

LEMMA LossyModes ==
    ASSUME NEW server \in Configs, NEW ceiling \in KeyModes,
           ResolveMode(server, ceiling) \notin {"off", "safe"}
    PROVE  \A m \in {ServerMax(server)} \cup ({ceiling} \ {None}) : m \in {"balanced", "aggressive"}
<1>1. ServerMax(server) \in {"off", "safe", "balanced", "aggressive"}
  <2>1. server.mode \in {"off", "safe", "balanced", "aggressive"}
    BY PipelineAssumption, ModeLevels
  <2> QED
    BY <2>1 DEF ServerMax
<1>2. ceiling # None => ceiling \in {"off", "safe", "balanced", "aggressive"}
  BY PipelineAssumption, ModeLevels
<1>3. CASE ceiling = None
  BY <1>1, <1>3 DEF ResolveMode
<1>4. CASE ceiling # None
  <2>1. ResolveMode(server, ceiling) = Tighter(ServerMax(server), ceiling)
    BY <1>4 DEF ResolveMode
  <2>2. Tighter(ServerMax(server), ceiling) \notin {"off", "safe"}
    BY <2>1
  <2>3. ceiling \in {"balanced", "aggressive"}
    BY <1>1, <1>2, <1>4, <2>2, ModeLevels DEF Tighter
  <2>4. ServerMax(server) \in {"balanced", "aggressive"}
    BY <1>1, <1>2, <1>4, <2>2, ModeLevels DEF Tighter
  <2> QED
    BY <2>3, <2>4
<1> QED
  BY <1>3, <1>4

-----------------------------------------------------------------------------
(* The wire.  An encoder keeps every result and every call; the one for    *)
(* OpenAI takes the last result of a tool message, with the last text.     *)
LEMMA KindsKept ==
    ASSUME NEW m \in Message, NEW kind
    PROVE  /\ Kinds(m, kind) \in Seq(Block)
           /\ \A k \in DOMAIN Kinds(m, kind) :
                  \E j \in DOMAIN m.content : /\ Kinds(m, kind)[k] = m.content[j]
                                              /\ m.content[j].kind = kind
           /\ \A j \in DOMAIN m.content : m.content[j].kind = kind
                  => m.content[j] \in Range(Kinds(m, kind))
           /\ Len(m.content) \in DOMAIN m.content /\ m.content[Len(m.content)].kind = kind
                  => Last(Kinds(m, kind)) = m.content[Len(m.content)]
<1> DEFINE s == m.content
           K == {j \in DOMAIN s : s[j].kind = kind}
           b == Kinds(m, kind)
<1>0. /\ s \in Seq(Block) /\ Len(s) \in Nat /\ DOMAIN s = 1 .. Len(s)
      /\ \A j \in DOMAIN s : s[j] \in Block
  BY DEF Message
<1>1. b = Only(s, K)
  BY DEF Kinds
<1>2. K \in SUBSET (1 .. Len(s)) /\ \A j \in K : j \in DOMAIN s /\ s[j].kind = kind
  BY <1>0
<1>3. \A j \in DOMAIN s : s[j].kind = kind => j \in K
  OBVIOUS
<1> HIDE DEF s, K, b
<1>4. PICK n \in Nat : \E at : Keeps(s, K, n, at)
  BY <1>0, <1>2, OnlyKeeps
<1>5. PICK at \in [1 .. n -> K] :
          /\ b = [k \in 1 .. n |-> s[at[k]]]
          /\ \A i \in K : \E k \in 1 .. n : at[k] = i
          /\ \A k, l \in 1 .. n : k < l => at[k] < at[l]
  BY <1>1, <1>4 DEF Keeps
<1>6. /\ DOMAIN b = 1 .. n
      /\ \A k \in 1 .. n : /\ at[k] \in K /\ at[k] \in DOMAIN s
                           /\ b[k] = s[at[k]] /\ s[at[k]].kind = kind /\ s[at[k]] \in Block
  BY <1>0, <1>2, <1>5
<1>7. b \in Seq(Block) /\ Len(b) = n
  BY <1>5, <1>6
<1>8. \A k \in DOMAIN b : \E j \in DOMAIN s : b[k] = s[j] /\ s[j].kind = kind
  BY <1>6
<1>9. ASSUME NEW j \in DOMAIN s, s[j].kind = kind
      PROVE  /\ \E k \in DOMAIN b : b[k] = s[j]
             /\ j = Len(s) => Last(b) = s[j]
  <2>1. j \in K
    BY <1>3, <1>9
  <2>2. PICK k \in 1 .. n : at[k] = j
    BY <1>5, <2>1
  <2>3. ASSUME j = Len(s) PROVE k = n
    <3>1. at[n] \in K /\ n \in 1 .. n
      BY <1>6
    <3>2. at[n] <= j /\ at[n] \in Int /\ j \in Int
      BY <1>0, <1>2, <2>1, <2>3, <3>1
    <3>3. ~(k < n)
      BY <1>5, <2>2, <3>1, <3>2
    <3> QED
      BY <3>3
  <2>4. j = Len(s) => Last(b) = s[j]
    <3>1. Last(b) = b[n]
      BY <1>7 DEF Last
    <3> QED
      BY <1>6, <2>2, <2>3, <3>1
  <2> QED
    BY <1>6, <2>2, <2>4
<1>10. \A j \in DOMAIN s : s[j].kind = kind => s[j] \in Range(b)
  BY <1>9 DEF Range
<1>11. Len(s) \in DOMAIN s /\ s[Len(s)].kind = kind => Last(b) = s[Len(s)]
  BY <1>9
<1> QED
  BY <1>7, <1>8, <1>10, <1>11 DEF s, b

LEMMA KindsHave ==
    ASSUME NEW m \in Message, NEW kind, NEW j \in DOMAIN m.content, m.content[j].kind = kind
    PROVE  \E k \in DOMAIN Kinds(m, kind) : Kinds(m, kind)[k] = m.content[j]
<1>1. m.content[j] \in Range(Kinds(m, kind))
  BY KindsKept
<1> QED
  BY <1>1 DEF Range

LEMMA ResultOnWire ==
    ASSUME NEW a \in Seq(Message), NEW b \in Block, b.kind = "result", NEW last \in BOOLEAN,
           Arrives(a, b, last), NEW upstream \in Protocol, upstream = "openai" => last
    PROVE  \E r \in Positions(Encode(upstream, a), b) :
               \E c \in Positions(Encode(upstream, a), Call(b.id)) : Before(c, r)
<1> DEFINE w == Encode(upstream, a)
<1>1. PICK i \in DOMAIN a : \E j \in DOMAIN a[i].content :
          /\ a[i].role = "tool" /\ a[i].content[j] = b
          /\ last => j = Len(a[i].content)
          /\ \E k \in DOMAIN a : k < i /\ a[k].role # "tool" /\ HoldsBlock(a[k], Call(b.id))
  BY DEF Arrives
<1>2. PICK j \in DOMAIN a[i].content :
          /\ a[i].role = "tool" /\ a[i].content[j] = b
          /\ last => j = Len(a[i].content)
  BY <1>1
<1>3. PICK k \in DOMAIN a : k < i /\ a[k].role # "tool" /\ HoldsBlock(a[k], Call(b.id))
  BY <1>1
<1>4. PICK l \in DOMAIN a[k].content : a[k].content[l] = Call(b.id)
  BY <1>3 DEF HoldsBlock
<1>5. /\ a[i] \in Message /\ a[k] \in Message /\ i \in Nat /\ k \in Nat
      /\ a[k].content \in Seq(Block)
  BY MessageFacts
<1>6. /\ DOMAIN w = DOMAIN a
      /\ \A n \in DOMAIN a : w[n] = IF upstream = "openai" THEN MapMessageToOpenAI(a[n])
                                    ELSE MapAnthropicMessage(a[n])
  BY DEF Encode
<1> HIDE DEF w
<1>7. PICK x \in DOMAIN w[i].content : w[i].content[x] = b
  <2>1. CASE upstream = "openai"
    <3>1. Last(Kinds(a[i], "result")) = b
      <4>1. j = Len(a[i].content) /\ a[i].content[j].kind = "result"
        BY <1>2, <2>1
      <4>2. Last(Kinds(a[i], "result")) = a[i].content[Len(a[i].content)]
        BY <1>5, <4>1, KindsKept
      <4> QED
        BY <1>2, <4>1, <4>2
    <3>2. Last(a[i].content) = b
      BY <1>2, <2>1 DEF Last
    <3>3. w[i].content = <<Result(b.id, b.text)>>
      BY <1>2, <1>6, <2>1, <3>1, <3>2 DEF MapMessageToOpenAI
    <3>4. b = Result(b.id, b.text)
      BY BlockFacts
    <3>5. 1 \in DOMAIN w[i].content /\ w[i].content[1] = Result(b.id, b.text)
      BY <3>3
    <3> QED
      BY <3>4, <3>5
  <2>2. CASE upstream = "anthropic"
    <3>1. w[i].content = Kinds(a[i], "result")
      BY <1>2, <1>6, <2>2 DEF MapAnthropicMessage
    <3>2. \E x \in DOMAIN Kinds(a[i], "result") : Kinds(a[i], "result")[x] = b
      <4>1. a[i].content[j].kind = "result"
        BY <1>2
      <4>2. \E x \in DOMAIN Kinds(a[i], "result") : Kinds(a[i], "result")[x] = a[i].content[j]
        BY <1>5, <4>1, KindsHave
      <4> QED
        BY <1>2, <4>2
    <3> QED
      BY <3>1, <3>2
  <2> QED
    BY <2>1, <2>2 DEF Protocol
<1>8. PICK y \in DOMAIN w[k].content : w[k].content[y] = Call(b.id)
  <2>0. Call(b.id).kind = "call"
    BY DEF Call
  <2>1. CASE upstream = "openai"
    <3> DEFINE texts == Kinds(a[k], "text")
               calls == Kinds(a[k], "call")
    <3>1. w[k].content = texts \o calls
      <4>1. w[k] = [a[k] EXCEPT !.content = texts \o calls]
        BY <1>3, <1>6, <2>1 DEF MapMessageToOpenAI
      <4> HIDE DEF texts, calls
      <4> QED
        BY <1>5, <4>1, ContentReplaced
    <3>2. texts \in Seq(Block) /\ calls \in Seq(Block)
      BY <1>5, KindsKept
    <3>3. PICK z \in DOMAIN calls : calls[z] = Call(b.id)
      <4>1. a[k].content[l].kind = "call"
        BY <1>4, <2>0
      <4>2. \E z \in DOMAIN Kinds(a[k], "call") : Kinds(a[k], "call")[z] = a[k].content[l]
        BY <1>5, <4>1, KindsHave
      <4> QED
        BY <1>4, <4>2
    <3> HIDE DEF texts, calls
    <3>4. /\ Len(texts) + z \in DOMAIN (texts \o calls)
          /\ (texts \o calls)[Len(texts) + z] = calls[z]
      BY <3>2
    <3> QED
      BY <3>1, <3>3, <3>4
  <2>2. CASE upstream = "anthropic"
    <3>1. w[k] = a[k]
      BY <1>3, <1>6, <2>2 DEF MapAnthropicMessage
    <3> QED
      BY <1>4, <3>1
  <2> QED
    BY <2>1, <2>2 DEF Protocol
<1>9. /\ <<i, x>> \in Positions(w, b) /\ <<k, y>> \in Positions(w, Call(b.id))
  BY <1>6, <1>7, <1>8, PlaceOfBlock DEF Positions
<1>10. Before(<<k, y>>, <<i, x>>)
  BY <1>3 DEF Before
<1>11. \E r \in Positions(w, b) : \E c \in Positions(w, Call(b.id)) : Before(c, r)
  BY <1>9, <1>10
<1> QED
  BY <1>11 DEF w

-----------------------------------------------------------------------------
(* The inductive invariant.  A client's history: calls are the assistant's, *)
(* numbered through, each in one message; a result comes after its call.   *)
CallIds(h) == UNION {Calls(m) : m \in Range(h)}
HistoryOK(h) ==
    /\ h \in Seq(Message) /\ Unmarked(h) /\ OneCaller(h)
    /\ \A i \in DOMAIN h :
          /\ h[i].content # <<>>
          /\ \A j \in DOMAIN h[i].content :
                /\ h[i].content[j].kind = "call" => h[i].role = "assistant"
                /\ h[i].content[j].kind = "result" =>
                      /\ h[i].role # "assistant"
                      /\ \E k \in DOMAIN h :
                            k < i /\ HoldsBlock(h[k], Call(h[i].content[j].id))
    /\ \E n \in Nat : CallIds(h) = 1 .. n

\* Every result of the history is in the request, the last block of its
\* message as the last block of its message.
Reach(msgs, h) ==
    \A i \in DOMAIN h : \A j \in DOMAIN h[i].content : \A last \in BOOLEAN :
        h[i].content[j].kind = "result" /\ (last => j = Len(h[i].content))
            => Arrives(msgs, h[i].content[j], last)

\* What LossDeclared says of a request, the history and the modes allowed.
Declared(q, h, modes) ==
    LET P == [i \in DOMAIN h |-> Parse(h[i])]
    IN  \/ Meaning(q.messages) = Meaning(P)
        \/ /\ \A m \in modes : m \in {"balanced", "aggressive"}
           /\ \/ q.loss = "selective"
              \/ /\ Meaning(q.messages) = Meaning(Quieter(P, "runs"))
                 /\ ~Pays(P)

PipelineInv ==
    /\ client \in Protocol /\ config \in Configs /\ key \in KeyModes
    /\ phase \in {"user", "tools", "arrived", "planned", "upstream", "refused"}
    /\ HistoryOK(history)
    /\ phase = "tools" => Len(history) > 0 /\ Holds(Last(history), "call")
    /\ request \in Request
    /\ phase \in {"planned", "upstream"} =>
          Reach(request.messages, history) /\ Declared(request, history, allowed)
    /\ wire.to \in Protocol
    /\ phase = "upstream" => wire.messages = Encode(wire.to, request.messages)
    /\ attempts \in 0 .. MaxAttempts
    /\ phase = "arrived" => attempts = 0
    /\ phase = "planned" => attempts < MaxAttempts

\* Parsing gives a message with a result the tool role, and keeps its blocks.
LEMMA ParsedHistory ==
    ASSUME NEW h, HistoryOK(h), NEW P, P = [i \in DOMAIN h |-> Parse(h[i])]
    PROVE  P \in Seq(Message) /\ Unmarked(P) /\ OneCaller(P) /\ Reach(P, h)
<1>0. /\ h \in Seq(Message) /\ Unmarked(h) /\ OneCaller(h)
      /\ \A i \in DOMAIN h : \A j \in DOMAIN h[i].content :
             /\ h[i].content[j].kind = "call" => h[i].role = "assistant"
             /\ h[i].content[j].kind = "result" =>
                   /\ h[i].role # "assistant"
                   /\ \E k \in DOMAIN h :
                         k < i /\ HoldsBlock(h[k], Call(h[i].content[j].id))
  BY DEF HistoryOK
<1>1. ASSUME NEW i \in DOMAIN h
      PROVE  /\ P[i] \in Message /\ P[i].content = h[i].content
             /\ P[i].role \in {"tool", h[i].role}
             /\ Holds(h[i], "result") => P[i].role = "tool"
             /\ ~Holds(h[i], "result") => P[i].role = h[i].role
  <2>1. h[i] \in Message
    BY <1>0, MessageFacts
  <2>2. P[i] = IF Holds(h[i], "result") THEN [h[i] EXCEPT !.role = "tool"] ELSE h[i]
    BY DEF Parse
  <2> QED
    BY <2>1, <2>2 DEF Message, Roles
<1>2. P \in Seq(Message) /\ DOMAIN P = DOMAIN h
  <2>1. PICK n \in Nat : DOMAIN h = 1 .. n
    BY <1>0, MessageFacts
  <2>2. P = [i \in 1 .. n |-> Parse(h[i])] /\ \A i \in 1 .. n : P[i] \in Message
    BY <1>1, <2>1
  <2>3. \A i \in 1 .. n : Parse(h[i]) \in Message
    BY <2>2
  <2> QED
    BY <2>1, <2>2, <2>3
<1>3. Unmarked(P) /\ OneCaller(P)
  <2>1. \A i \in DOMAIN P : i \in DOMAIN h /\ P[i].content = h[i].content
    BY <1>1, <1>2
  <2>2. Unmarked(P)
    BY <1>0, <2>1 DEF Unmarked
  <2>3. OneCaller(P)
    <3> SUFFICES ASSUME NEW i \in DOMAIN P, NEW k \in DOMAIN P,
                        NEW j \in DOMAIN P[i].content, NEW l \in DOMAIN P[k].content,
                        P[i].content[j].kind = "call", P[k].content[l].kind = "call",
                        P[i].content[j].id = P[k].content[l].id
                 PROVE  i = k
      BY DEF OneCaller
    <3>1. /\ i \in DOMAIN h /\ P[i].content = h[i].content
          /\ k \in DOMAIN h /\ P[k].content = h[k].content
      BY <2>1
    <3> QED
      BY <1>0, <3>1 DEF OneCaller
  <2> QED
    BY <2>2, <2>3
<1>4. ASSUME NEW i \in DOMAIN h, NEW j \in DOMAIN h[i].content, NEW last \in BOOLEAN,
             h[i].content[j].kind = "result", last => j = Len(h[i].content)
      PROVE  Arrives(P, h[i].content[j], last)
  <2>1. PICK k \in DOMAIN h : k < i /\ HoldsBlock(h[k], Call(h[i].content[j].id))
    BY <1>0, <1>4
  <2>2. PICK l \in DOMAIN h[k].content : h[k].content[l] = Call(h[i].content[j].id)
    BY <2>1 DEF HoldsBlock
  <2>3. h[k].role = "assistant"
    <3>1. h[k].content[l].kind = "call"
      BY <2>2 DEF Call
    <3> QED
      BY <1>0, <3>1
  <2>4. ~Holds(h[k], "result")
    BY <1>0, <2>3 DEF Holds, Range
  <2>5. P[k].role # "tool"
    BY <1>1, <2>3, <2>4
  <2>6. P[i].role = "tool"
    <3>1. Holds(h[i], "result")
      BY <1>4 DEF Holds, Range
    <3> QED
      BY <1>1, <3>1
  <2>7. HoldsBlock(P[k], Call(h[i].content[j].id))
    BY <1>1, <2>1 DEF HoldsBlock
  <2>8. P[i].content = h[i].content /\ i \in DOMAIN P /\ k \in DOMAIN P
    BY <1>1, <1>2
  <2> QED
    BY <1>4, <2>1, <2>5, <2>6, <2>7, <2>8 DEF Arrives
<1>5. Reach(P, h)
  BY <1>4 DEF Reach
<1> QED
  BY <1>2, <1>3, <1>5

\* What history becomes when g is said after h.
LEMMA Extended ==
    ASSUME NEW h \in Seq(Message), NEW g \in Seq(Message), NEW e, e = h \o g
    PROVE  /\ e \in Seq(Message)
           /\ \A i \in DOMAIN h : i \in DOMAIN e /\ e[i] = h[i] /\ i \in Int
           /\ \A i \in DOMAIN e : i \in Int /\ (i \notin DOMAIN h =>
                  /\ i - Len(h) \in DOMAIN g /\ e[i] = g[i - Len(h)]
                  /\ \A k \in DOMAIN h : k < i)
           /\ \A k \in DOMAIN g : Len(h) + k \in DOMAIN e /\ e[Len(h) + k] = g[k]
           /\ Len(h) \in Nat
<1>1. /\ Len(h) \in Nat /\ DOMAIN h = 1 .. Len(h)
      /\ Len(g) \in Nat /\ DOMAIN g = 1 .. Len(g)
      /\ e \in Seq(Message) /\ DOMAIN e = 1 .. Len(h) + Len(g)
  OBVIOUS
<1>2. /\ \A i \in 1 .. Len(h) : e[i] = h[i]
      /\ \A k \in 1 .. Len(g) : e[Len(h) + k] = g[k]
  OBVIOUS
<1>3. ASSUME NEW i \in DOMAIN e, i \notin DOMAIN h
      PROVE  /\ i - Len(h) \in DOMAIN g /\ e[i] = g[i - Len(h)]
             /\ \A k \in DOMAIN h : k < i
  <2>1. i - Len(h) \in 1 .. Len(g) /\ Len(h) + (i - Len(h)) = i
    BY <1>1, <1>3
  <2>2. e[Len(h) + (i - Len(h))] = g[i - Len(h)]
    BY <1>2, <2>1
  <2> QED
    BY <1>1, <1>3, <2>1, <2>2
<1> QED
  BY <1>1, <1>2, <1>3

LEMMA IdCalled ==
    ASSUME NEW h, NEW i \in DOMAIN h, NEW j \in DOMAIN h[i].content, h[i].content[j].kind = "call"
    PROVE  h[i].content[j].id \in CallIds(h)
<1>1. h[i].content[j].id \in Calls(h[i])
  BY DEF Calls, Range
<1> QED
  BY <1>1 DEF CallIds, Range

LEMMA HistoryExtends ==
    ASSUME NEW h, HistoryOK(h), NEW g \in Seq(Message), Unmarked(g), OneCaller(g),
           \A k \in DOMAIN g :
               /\ g[k].content # <<>>
               /\ \A j \in DOMAIN g[k].content :
                     /\ g[k].content[j].kind = "call" => g[k].role = "assistant"
                     /\ g[k].content[j].kind = "result" =>
                           /\ g[k].role # "assistant"
                           /\ \E l \in DOMAIN h : HoldsBlock(h[l], Call(g[k].content[j].id)),
           NEW n \in Nat, CallIds(h) = 1 .. n,
           NEW c \in Nat, CallIds(g) = n + 1 .. n + c
    PROVE  HistoryOK(h \o g)
<1> DEFINE e == h \o g
           N == Len(h)
<1>0. /\ h \in Seq(Message) /\ Unmarked(h) /\ OneCaller(h)
      /\ \A i \in DOMAIN h :
            /\ h[i].content # <<>>
            /\ \A j \in DOMAIN h[i].content :
                  /\ h[i].content[j].kind = "call" => h[i].role = "assistant"
                  /\ h[i].content[j].kind = "result" =>
                        /\ h[i].role # "assistant"
                        /\ \E k \in DOMAIN h :
                              k < i /\ HoldsBlock(h[k], Call(h[i].content[j].id))
  BY DEF HistoryOK
<1>1. /\ e \in Seq(Message)
      /\ \A i \in DOMAIN h : i \in DOMAIN e /\ e[i] = h[i] /\ i \in Int
      /\ \A i \in DOMAIN e : i \in Int /\ (i \notin DOMAIN h =>
             /\ i - N \in DOMAIN g /\ e[i] = g[i - N]
             /\ \A k \in DOMAIN h : k < i)
      /\ \A k \in DOMAIN g : N + k \in DOMAIN e /\ e[N + k] = g[k]
      /\ N \in Nat
  BY <1>0, Extended
<1> HIDE DEF e, N
<1>2. Unmarked(e)
  <2> SUFFICES ASSUME NEW i \in DOMAIN e, NEW j \in DOMAIN e[i].content,
                      e[i].content[j].kind = "text"
               PROVE  e[i].content[j].text.mark = "none"
    BY DEF Unmarked
  <2>1. CASE i \in DOMAIN h
    BY <1>0, <1>1, <2>1 DEF Unmarked
  <2>2. CASE i \notin DOMAIN h
    BY <1>1, <2>2 DEF Unmarked
  <2> QED
    BY <2>1, <2>2
<1>3. OneCaller(e)
  <2> SUFFICES ASSUME NEW i \in DOMAIN e, NEW k \in DOMAIN e,
                      NEW j \in DOMAIN e[i].content, NEW l \in DOMAIN e[k].content,
                      e[i].content[j].kind = "call", e[k].content[l].kind = "call",
                      e[i].content[j].id = e[k].content[l].id
               PROVE  i = k
    BY DEF OneCaller
  <2>1. /\ i \in DOMAIN h => e[i].content[j].id \in 1 .. n
        /\ k \in DOMAIN h => e[k].content[l].id \in 1 .. n
    BY <1>1, IdCalled
  <2>2. /\ i \notin DOMAIN h => e[i].content[j].id \in n + 1 .. n + c
        /\ k \notin DOMAIN h => e[k].content[l].id \in n + 1 .. n + c
    BY <1>1, IdCalled
  <2>3. CASE i \in DOMAIN h /\ k \in DOMAIN h
    BY <1>0, <1>1, <2>3 DEF OneCaller
  <2>4. CASE i \notin DOMAIN h /\ k \notin DOMAIN h
    <3>1. /\ i - N \in DOMAIN g /\ e[i] = g[i - N]
          /\ k - N \in DOMAIN g /\ e[k] = g[k - N]
      BY <1>1, <2>4
    <3>2. i - N = k - N
      BY <3>1 DEF OneCaller
    <3> QED
      BY <1>1, <3>2
  <2>5. (i \in DOMAIN h) = (k \in DOMAIN h)
    <3>1. \A x \in 1 .. n : x \notin n + 1 .. n + c
      OBVIOUS
    <3> QED
      BY <2>1, <2>2, <3>1
  <2> QED
    BY <2>3, <2>4, <2>5
<1>4. ASSUME NEW i \in DOMAIN e
      PROVE  /\ e[i].content # <<>>
             /\ \A j \in DOMAIN e[i].content :
                   /\ e[i].content[j].kind = "call" => e[i].role = "assistant"
                   /\ e[i].content[j].kind = "result" =>
                         /\ e[i].role # "assistant"
                         /\ \E k \in DOMAIN e :
                               k < i /\ HoldsBlock(e[k], Call(e[i].content[j].id))
  <2>1. CASE i \in DOMAIN h
    <3>1. e[i] = h[i]
      BY <1>1, <2>1
    <3>2. ASSUME NEW j \in DOMAIN h[i].content, h[i].content[j].kind = "result"
          PROVE  \E k \in DOMAIN e : k < i /\ HoldsBlock(e[k], Call(h[i].content[j].id))
      <4>1. PICK k \in DOMAIN h : k < i /\ HoldsBlock(h[k], Call(h[i].content[j].id))
        BY <1>0, <2>1, <3>2
      <4> QED
        BY <1>1, <4>1
    <3> QED
      BY <1>0, <2>1, <3>1, <3>2
  <2>2. CASE i \notin DOMAIN h
    <3>1. PICK x \in DOMAIN g : e[i] = g[x]
      BY <1>1, <2>2
    <3>2. ASSUME NEW j \in DOMAIN g[x].content, g[x].content[j].kind = "result"
          PROVE  \E k \in DOMAIN e : k < i /\ HoldsBlock(e[k], Call(g[x].content[j].id))
      <4>1. PICK k \in DOMAIN h : HoldsBlock(h[k], Call(g[x].content[j].id))
        BY <3>2
      <4> QED
        BY <1>1, <2>2, <4>1
    <3> QED
      BY <3>1, <3>2
  <2> QED
    BY <2>1, <2>2
<1>5. CallIds(e) = 1 .. (n + c)
  <2>1. Range(e) = Range(h) \cup Range(g)
    <3>1. Range(e) \subseteq Range(h) \cup Range(g)
      BY <1>1 DEF Range
    <3>2. Range(h) \cup Range(g) \subseteq Range(e)
      BY <1>1 DEF Range
    <3> QED
      BY <3>1, <3>2
  <2>2. CallIds(e) = CallIds(h) \cup CallIds(g)
    BY <2>1 DEF CallIds
  <2> QED
    BY <2>2
<1>6. HistoryOK(e)
  <2>1. n + c \in Nat
    OBVIOUS
  <2> QED
    BY <1>1, <1>2, <1>3, <1>4, <1>5, <2>1 DEF HistoryOK
<1> QED
  BY <1>6 DEF e

LEMMA NoCallsExtend ==
    ASSUME NEW h, HistoryOK(h), NEW g \in Seq(Message), Unmarked(g),
           \A k \in DOMAIN g :
               /\ g[k].content # <<>>
               /\ \A j \in DOMAIN g[k].content :
                     /\ g[k].content[j].kind # "call"
                     /\ g[k].content[j].kind = "result" =>
                           /\ g[k].role # "assistant"
                           /\ \E l \in DOMAIN h : HoldsBlock(h[l], Call(g[k].content[j].id))
    PROVE  HistoryOK(h \o g)
<1>1. OneCaller(g)
  BY DEF OneCaller
<1>2. PICK n \in Nat : CallIds(h) = 1 .. n
  BY DEF HistoryOK
<1>3. CallIds(g) = {}
  BY DEF CallIds, Calls, Range
<1>4. CallIds(g) = n + 1 .. n + 0
  BY <1>3
<1>5. 0 \in Nat
  OBVIOUS
<1> QED
  BY <1>1, <1>2, <1>4, <1>5, HistoryExtends

LEMMA SendsOK ==
    ASSUME PipelineInv, NEW msgs, Sends(msgs), HistoryOK(history \o msgs)
    PROVE  PipelineInv'
<1>1. /\ history' = history \o msgs /\ phase' = "arrived"
      /\ wire' = NoWire /\ request' = NoRequest /\ attempts' = 0
      /\ client' = client /\ config' = config /\ key' = key
  BY DEF Sends
<1>2. NoRequest \in Request /\ NoWire.to \in Protocol
  BY DEF NoRequest, NoWire, Request, Protocol
<1>3. 0 \in 0 .. MaxAttempts
  BY PipelineAssumption
<1>4. HistoryOK(history)'
  BY <1>1
<1> QED
  BY <1>1, <1>2, <1>3, <1>4 DEF PipelineInv

LEMMA SaidFacts ==
    ASSUME NEW t \in UserTexts \cup AnswerTexts \cup ResultTexts \cup Remarks
    PROVE  t \in Text /\ t.mark = "none" /\ Said(t) \in Block
           /\ Said(t).kind = "text" /\ Said(t).text = t
<1>1. t \in Text /\ t.mark = "none"
  BY PipelineAssumption
<1> QED
  BY <1>1 DEF Said, Block

LEMMA UserSaysOK ==
    ASSUME PipelineInv, NEW t \in UserTexts, UserSays(t)
    PROVE  PipelineInv'
<1> DEFINE m == [role |-> "user", content |-> <<Said(t)>>]
           g == <<m>>
<1>1. Sends(g) /\ HistoryOK(history)
  BY DEF UserSays, PipelineInv
<1>2. Said(t) \in Block /\ Said(t).kind = "text" /\ Said(t).text.mark = "none"
  BY SaidFacts
<1>3. /\ m \in Message /\ m.content # <<>>
      /\ \A j \in DOMAIN m.content : m.content[j] = Said(t)
  <2>1. <<Said(t)>> \in Seq(Block)
    BY <1>2
  <2> QED
    BY <2>1 DEF Message, Roles
<1> HIDE DEF m
<1>4. g \in Seq(Message) /\ \A k \in DOMAIN g : g[k] = m
  BY <1>3
<1> HIDE DEF g
<1>5. Unmarked(g)
  BY <1>2, <1>3, <1>4 DEF Unmarked
<1>6. \A k \in DOMAIN g : /\ g[k].content # <<>>
                          /\ \A j \in DOMAIN g[k].content : g[k].content[j].kind = "text"
  BY <1>2, <1>3, <1>4
<1>7. HistoryOK(history \o g)
  BY <1>1, <1>4, <1>5, <1>6, NoCallsExtend
<1> QED
  BY <1>1, <1>7, SendsOK

LEMMA ResendOK ==
    ASSUME PipelineInv, Resend
    PROVE  PipelineInv'
<1>1. Sends(<<>>) /\ HistoryOK(history)
  BY DEF Resend, PipelineInv
<1>2. history \in Seq(Message)
  BY <1>1 DEF HistoryOK
<1>3. history \o <<>> = history
  BY <1>2
<1> QED
  BY <1>1, <1>3, SendsOK

\* The calls of the last message, and a result for each of them.
LEMMA ReturnResultsOK ==
    ASSUME PipelineInv, NEW given \in ResultTexts, NEW remark \in Optional(Remarks),
           ReturnResults(given, remark)
    PROVE  PipelineInv'
<1> DEFINE last == Last(history)
           calls == Kinds(last, "call")
           results == [i \in DOMAIN calls |-> Result(calls[i].id, given)]
<1>1. /\ HistoryOK(history) /\ history \in Seq(Message) /\ phase = "tools"
      /\ Len(history) > 0 /\ Holds(last, "call")
  BY DEF ReturnResults, PipelineInv, HistoryOK
<1>2. Len(history) \in DOMAIN history /\ last = history[Len(history)] /\ last \in Message
  <2>1. Len(history) \in DOMAIN history
    BY <1>1
  <2>2. last = history[Len(history)]
    BY DEF Last
  <2> QED
    BY <1>1, <2>1, <2>2, MessageFacts
<1> HIDE DEF last
<1>3. calls \in Seq(Block)
  BY <1>2, KindsKept
<1>4. \A k \in DOMAIN calls : /\ calls[k].id \in Nat
                              /\ HoldsBlock(last, Call(calls[k].id))
  <2> TAKE k \in DOMAIN calls
  <2>1. PICK j \in DOMAIN last.content : calls[k] = last.content[j] /\ last.content[j].kind = "call"
    BY <1>2, KindsKept
  <2>2. calls[k] \in Block /\ calls[k].kind = "call"
    BY <1>3, <2>1
  <2>3. calls[k] = Call(calls[k].id) /\ calls[k].id \in Nat
    BY <2>2, BlockFacts
  <2> QED
    BY <2>1, <2>3 DEF HoldsBlock
<1>5. PICK n \in Nat : DOMAIN calls = 1 .. n /\ n > 0
  <2>1. PICK j \in DOMAIN last.content : last.content[j].kind = "call"
    BY <1>1 DEF Holds, Range
  <2>2. \E k \in DOMAIN calls : calls[k] = last.content[j]
    BY <1>2, <2>1, KindsHave
  <2>3. Len(calls) \in Nat /\ DOMAIN calls = 1 .. Len(calls)
    BY <1>3
  <2>4. Len(calls) > 0
    BY <2>2, <2>3
  <2> QED
    BY <2>3, <2>4
<1>6. given \in Text
  BY SaidFacts
<1>7. ASSUME NEW k \in 1 .. n
      PROVE  /\ results[k] \in Block /\ results[k].kind = "result"
             /\ \E l \in DOMAIN history : HoldsBlock(history[l], Call(results[k].id))
  <2>1. results[k] = Result(calls[k].id, given) /\ calls[k].id \in Nat
    BY <1>4, <1>5
  <2>2. results[k] \in Block /\ results[k].kind = "result" /\ results[k].id = calls[k].id
    BY <1>6, <2>1 DEF Result, Block
  <2> QED
    BY <1>2, <1>4, <1>5, <2>2
<1>8. results \in Seq(Block) /\ DOMAIN results = 1 .. n /\ Len(results) = n
  <2>1. /\ results = [i \in 1 .. n |-> Result(calls[i].id, given)]
        /\ \A k \in 1 .. n : results[k] \in Block
    BY <1>5, <1>7
  <2> HIDE DEF results
  <2> QED
    BY <2>1
<1>9. CASE client = "anthropic"
  <2> DEFINE m == [role |-> "user", content |-> results \o remark]
             g == <<m>>
  <2>1. Sends(g)
    BY <1>9 DEF ReturnResults, last
  <2>2. /\ remark \in Seq(Block)
        /\ \A j \in DOMAIN remark : remark[j].kind = "text" /\ remark[j].text.mark = "none"
    <3>1. CASE remark = <<>>
      BY <3>1
    <3>2. CASE remark # <<>>
      <4>1. PICK t \in Remarks : remark = <<Said(t)>>
        BY <3>2 DEF Optional
      <4>2. Said(t) \in Block /\ Said(t).kind = "text" /\ Said(t).text.mark = "none"
        BY SaidFacts
      <4> QED
        BY <4>1, <4>2
    <3> QED
      BY <3>1, <3>2
  <2> HIDE DEF results, calls
  <2>3. ASSUME NEW j \in DOMAIN m.content
        PROVE  \/ \E k \in 1 .. n : m.content[j] = results[k]
               \/ \E k \in DOMAIN remark : m.content[j] = remark[k]
    <3>1. m.content = results \o remark
      OBVIOUS
    <3> HIDE DEF m
    <3>2. /\ j \in 1 .. n + Len(remark) /\ n + Len(remark) \in Nat
      BY <1>8, <2>2, <2>3, <3>1
    <3>3. CASE j \in 1 .. n
      <4>1. m.content[j] = results[j]
        BY <1>8, <2>2, <3>1, <3>3
      <4> QED
        BY <3>3, <4>1
    <3>4. CASE j \notin 1 .. n
      <4>1. j - n \in DOMAIN remark /\ m.content[j] = remark[j - n]
        BY <1>8, <2>2, <3>1, <3>2, <3>4
      <4> QED
        BY <4>1
    <3> QED
      BY <3>3, <3>4
  <2>4. m \in Message /\ m.content # <<>> /\ m.role = "user"
    <3>1. results \o remark \in Seq(Block) /\ results \o remark # <<>>
      BY <1>5, <1>8, <2>2
    <3> QED
      BY <3>1 DEF Message, Roles
  <2> HIDE DEF m
  <2>5. g \in Seq(Message) /\ \A k \in DOMAIN g : g[k] = m
    BY <2>4
  <2> HIDE DEF g
  <2>6. ASSUME NEW j \in DOMAIN m.content
        PROVE  /\ m.content[j].kind # "call"
               /\ m.content[j].kind = "text" => m.content[j].text.mark = "none"
               /\ m.content[j].kind = "result" =>
                     \E l \in DOMAIN history : HoldsBlock(history[l], Call(m.content[j].id))
    <3>1. CASE \E k \in 1 .. n : m.content[j] = results[k]
      BY <1>7, <3>1
    <3>2. CASE \E k \in DOMAIN remark : m.content[j] = remark[k]
      BY <2>2, <3>2
    <3> QED
      BY <2>3, <3>1, <3>2
  <2>7. Unmarked(g)
    BY <2>5, <2>6 DEF Unmarked
  <2>8. \A k \in DOMAIN g :
            /\ g[k].content # <<>>
            /\ \A j \in DOMAIN g[k].content :
                  /\ g[k].content[j].kind # "call"
                  /\ g[k].content[j].kind = "result" =>
                        /\ g[k].role # "assistant"
                        /\ \E l \in DOMAIN history : HoldsBlock(history[l], Call(g[k].content[j].id))
    BY <2>4, <2>5, <2>6
  <2>9. HistoryOK(history \o g)
    BY <1>1, <2>5, <2>7, <2>8, NoCallsExtend
  <2> QED
    BY <2>1, <2>9, SendsOK
<1>10. CASE client # "anthropic"
  <2> DEFINE g == [i \in DOMAIN results |-> [role |-> "tool", content |-> <<results[i]>>]]
  <2>1. Sends(g)
    BY <1>10 DEF ReturnResults, last
  <2> HIDE DEF results, calls
  <2>2. ASSUME NEW k \in 1 .. n
        PROVE  /\ g[k] \in Message /\ g[k].role = "tool" /\ g[k].content # <<>>
               /\ \A j \in DOMAIN g[k].content : g[k].content[j] = results[k]
    <3>1. g[k] = [role |-> "tool", content |-> <<results[k]>>]
      BY <1>8
    <3>2. <<results[k]>> \in Seq(Block)
      BY <1>7
    <3> HIDE DEF g
    <3>3. g[k].role = "tool" /\ g[k].content = <<results[k]>>
      BY <3>1
    <3>4. g[k] \in Message
      BY <3>1, <3>2 DEF Message, Roles
    <3>5. <<results[k]>> # <<>> /\ \A j \in DOMAIN <<results[k]>> : <<results[k]>>[j] = results[k]
      OBVIOUS
    <3> QED
      BY <3>3, <3>4, <3>5
  <2>3. g = [i \in 1 .. n |-> g[i]] /\ DOMAIN g = 1 .. n
    BY <1>8
  <2> HIDE DEF g
  <2>4. g \in Seq(Message)
    BY <2>2, <2>3
  <2>5. Unmarked(g)
    <3> SUFFICES ASSUME NEW k \in DOMAIN g, NEW j \in DOMAIN g[k].content,
                        g[k].content[j].kind = "text"
                 PROVE  FALSE
      BY DEF Unmarked
    <3> QED
      BY <1>7, <2>2, <2>3
  <2>6. \A k \in DOMAIN g :
            /\ g[k].content # <<>>
            /\ \A j \in DOMAIN g[k].content :
                  /\ g[k].content[j].kind # "call"
                  /\ g[k].content[j].kind = "result" =>
                        /\ g[k].role # "assistant"
                        /\ \E l \in DOMAIN history : HoldsBlock(history[l], Call(g[k].content[j].id))
    BY <1>7, <2>2, <2>3
  <2>7. HistoryOK(history \o g)
    BY <1>1, <2>4, <2>5, <2>6, NoCallsExtend
  <2> QED
    BY <2>1, <2>7, SendsOK
<1> QED
  BY <1>9, <1>10

\* The answer's calls take the next numbers.
LEMMA AnswerOK ==
    ASSUME PipelineInv, NEW said \in Optional(AnswerTexts), NEW n \in 0 .. MaxCalls,
           Answer(said, n)
    PROVE  PipelineInv'
<1> DEFINE calls == [i \in 1 .. n |-> Call(CallCount + i)]
           m == [role |-> "assistant", content |-> said \o calls]
           g == <<m>>
<1>1. /\ HistoryOK(history) /\ history \in Seq(Message) /\ (said # <<>> \/ n > 0)
      /\ history' = Append(history, m) /\ phase' = IF n = 0 THEN "user" ELSE "tools"
      /\ UNCHANGED <<client, config, key, request, allowed, wire, attempts>>
  BY DEF Answer, PipelineInv, HistoryOK
<1>2. n \in Nat
  <2>1. MaxCalls \in Nat
    BY PipelineAssumption
  <2> QED
    BY <2>1
<1>3. PICK N \in Nat : CallIds(history) = 1 .. N
  <2>1. HistoryOK(history)
    BY <1>1
  <2> QED
    BY <2>1 DEF HistoryOK
<1>4. CallCount = N
  <2>1. Cardinality(1 .. N) = N
    BY <1>3, FS_Interval
  <2> QED
    BY <1>3, <2>1 DEF CallCount, CallIds
<1>5. /\ said \in Seq(Block)
      /\ \A j \in DOMAIN said : said[j].kind = "text" /\ said[j].text.mark = "none"
  <2>1. CASE said = <<>>
    BY <2>1
  <2>2. CASE said # <<>>
    <3>1. PICK t \in AnswerTexts : said = <<Said(t)>>
      BY <2>2 DEF Optional
    <3>2. Said(t) \in Block /\ Said(t).kind = "text" /\ Said(t).text.mark = "none"
      BY SaidFacts
    <3> QED
      BY <3>1, <3>2
  <2> QED
    BY <2>1, <2>2
<1>6. /\ calls \in Seq(Block) /\ DOMAIN calls = 1 .. n /\ Len(calls) = n
      /\ \A k \in 1 .. n : calls[k].kind = "call" /\ calls[k].id = N + k
  <2>1. ASSUME NEW k \in 1 .. n
        PROVE  Call(CallCount + k) \in Block /\ Call(CallCount + k).kind = "call"
               /\ Call(CallCount + k).id = N + k
    BY <1>2, <1>4 DEF Call, Block
  <2> QED
    BY <1>2, <2>1
<1> HIDE DEF calls
<1>7. m.content = said \o calls /\ m.role = "assistant"
  OBVIOUS
<1>8. /\ m \in Message /\ m.content # <<>>
      /\ DOMAIN m.content = 1 .. Len(said) + n /\ Len(said) \in Nat
      /\ DOMAIN said = 1 .. Len(said)
      /\ \A j \in 1 .. Len(said) : m.content[j] = said[j]
      /\ \A k \in 1 .. n : m.content[Len(said) + k] = calls[k]
  <2>1. said \o calls \in Seq(Block) /\ said \o calls # <<>>
    BY <1>1, <1>2, <1>5, <1>6
  <2>2. m \in Message
    BY <2>1 DEF Message, Roles
  <2> HIDE DEF m
  <2>3. Len(said) \in Nat /\ DOMAIN said = 1 .. Len(said) /\ Len(calls) = n
    BY <1>5, <1>6
  <2>4. /\ DOMAIN (said \o calls) = 1 .. Len(said) + n
        /\ \A j \in 1 .. Len(said) : (said \o calls)[j] = said[j]
        /\ \A k \in 1 .. n : (said \o calls)[Len(said) + k] = calls[k]
    <3>1. DOMAIN (said \o calls) = 1 .. Len(said \o calls)
      BY <2>1
    <3>2. Len(said \o calls) = Len(said) + Len(calls)
      BY <1>5, <1>6
    <3>3. \A j \in 1 .. Len(said) : (said \o calls)[j] = said[j]
      BY <1>5, <1>6
    <3>4. \A k \in 1 .. Len(calls) : (said \o calls)[Len(said) + k] = calls[k]
      BY <1>5, <1>6
    <3> QED
      BY <2>3, <3>1, <3>2, <3>3, <3>4
  <2> QED
    BY <1>7, <2>1, <2>2, <2>3, <2>4
<1> HIDE DEF m
<1>9. ASSUME NEW j \in DOMAIN m.content
      PROVE  \/ m.content[j].kind = "text" /\ m.content[j].text.mark = "none"
             \/ \E k \in 1 .. n : m.content[j] = calls[k]
  <2>1. CASE j \in 1 .. Len(said)
    BY <1>5, <1>8, <2>1
  <2>2. CASE j \notin 1 .. Len(said)
    <3>1. j - Len(said) \in 1 .. n /\ Len(said) + (j - Len(said)) = j
      BY <1>2, <1>8, <2>2
    <3>2. m.content[Len(said) + (j - Len(said))] = calls[j - Len(said)]
      BY <1>8, <3>1
    <3> QED
      BY <3>1, <3>2
  <2> QED
    BY <2>1, <2>2
<1>10. g \in Seq(Message) /\ DOMAIN g = {1} /\ g[1] = m /\ \A k \in DOMAIN g : g[k] = m
  BY <1>8
<1> HIDE DEF g
<1>11. Unmarked(g)
  BY <1>6, <1>9, <1>10 DEF Unmarked
<1>12. OneCaller(g)
  BY <1>10 DEF OneCaller
<1>13. CallIds(g) = N + 1 .. N + n
  <2>1. CallIds(g) = Calls(m)
    BY <1>10 DEF CallIds, Range
  <2>2. Calls(m) \subseteq N + 1 .. N + n
    <3> SUFFICES ASSUME NEW j \in DOMAIN m.content, m.content[j].kind = "call"
                 PROVE  m.content[j].id \in N + 1 .. N + n
      BY DEF Calls, Range
    <3>1. PICK k \in 1 .. n : m.content[j] = calls[k]
      BY <1>9
    <3>2. m.content[j].id = N + k
      BY <1>6, <3>1
    <3> QED
      BY <1>2, <1>3, <3>2
  <2>3. ASSUME NEW x \in N + 1 .. N + n PROVE x \in Calls(m)
    <3>1. x - N \in 1 .. n /\ N + (x - N) = x
      BY <1>2, <1>3
    <3>2. /\ Len(said) + (x - N) \in DOMAIN m.content
          /\ m.content[Len(said) + (x - N)] = calls[x - N]
      BY <1>2, <1>8, <3>1
    <3>3. calls[x - N].kind = "call" /\ calls[x - N].id = x
      BY <1>6, <3>1
    <3> QED
      BY <3>2, <3>3 DEF Calls, Range
  <2> QED
    BY <2>1, <2>2, <2>3
<1>14. HistoryOK(history \o g)
  <2>1. \A k \in DOMAIN g :
            /\ g[k].content # <<>>
            /\ \A j \in DOMAIN g[k].content :
                  /\ g[k].content[j].kind = "call" => g[k].role = "assistant"
                  /\ g[k].content[j].kind # "result"
    <3>1. ASSUME NEW j \in DOMAIN m.content PROVE m.content[j].kind # "result"
      BY <1>6, <1>9
    <3>2. m.content # <<>> /\ m.role = "assistant"
      BY <1>7, <1>8
    <3> QED
      BY <1>10, <3>1, <3>2
  <2>2. \A k \in DOMAIN g :
            /\ g[k].content # <<>>
            /\ \A j \in DOMAIN g[k].content :
                  /\ g[k].content[j].kind = "call" => g[k].role = "assistant"
                  /\ g[k].content[j].kind = "result" =>
                        /\ g[k].role # "assistant"
                        /\ \E l \in DOMAIN history :
                              HoldsBlock(history[l], Call(g[k].content[j].id))
    BY <2>1
  <2>3. g \in Seq(Message)
    BY <1>10
  <2> QED
    <3>1. HistoryOK(history)
      BY <1>1
    <3> QED
      BY <1>2, <1>3, <1>11, <1>12, <1>13, <2>2, <2>3, <3>1, HistoryExtends
<1>15. history' = history \o g
  <2>1. Append(history, m) = history \o <<m>>
    BY <1>1, <1>8, AppendIsConcat
  <2> QED
    BY <1>1, <2>1 DEF g
<1>16. HistoryOK(history)'
  BY <1>14, <1>15
<1>17. phase' = "tools" => Len(history') > 0 /\ Holds(Last(history'), "call")
  <2>1. history' = Append(history, m)
    BY <1>1
  <2>2. Len(history') > 0 /\ history'[Len(history')] = m
    BY <1>1, <1>8, <2>1
  <2>3. ASSUME n # 0 PROVE Holds(m, "call")
    <3>1. 1 \in 1 .. n /\ Len(said) + 1 \in DOMAIN m.content
      BY <1>2, <1>8, <2>3
    <3>2. m.content[Len(said) + 1] = calls[1] /\ calls[1].kind = "call"
      BY <1>6, <1>8, <3>1
    <3> QED
      BY <3>1, <3>2 DEF Holds, Range
  <2> QED
    BY <1>1, <2>2, <2>3 DEF Last
<1>18. phase' \in {"user", "tools"}
  BY <1>1
<1> QED
  BY <1>1, <1>16, <1>17, <1>18 DEF PipelineInv

LEMMA OptimizedOK ==
    ASSUME PipelineInv, Optimized
    PROVE  PipelineInv'
<1> DEFINE P == [i \in DOMAIN history |-> Parse(history[i])]
           p == [NoRequest EXCEPT !.messages = P,
                                  !.max = IF client = "anthropic" THEN "client" ELSE "absent"]
           mode == ResolveMode(config, key)
<1>1. /\ phase = "arrived" /\ phase' = "planned" /\ request' = Process(p, config, key)
      /\ allowed' = {ServerMax(config)} \cup ({key} \ {None})
      /\ UNCHANGED <<client, history, config, key, wire, attempts>>
  BY DEF Optimized, Parsed
<1>2. /\ HistoryOK(history) /\ config \in Configs /\ key \in KeyModes /\ attempts = 0
  BY <1>1 DEF PipelineInv
<1>3. P \in Seq(Message) /\ Unmarked(P) /\ OneCaller(P) /\ Reach(P, history)
  BY <1>2, ParsedHistory
<1>4. p \in Request /\ p.loss = "lossless" /\ p.messages = P
  <2> HIDE DEF P
  <2> QED
    BY <1>3 DEF NoRequest, Request
<1> HIDE DEF p
<1>5. /\ Carried(P, request', mode)
      /\ Declares(P, request', mode)
  <2> HIDE DEF P, mode
  <2>1. /\ Carried(p.messages, Process(p, config, key), ResolveMode(config, key))
        /\ Declares(p.messages, Process(p, config, key), ResolveMode(config, key))
    BY <1>3, <1>4, ProcessCarries
  <2> QED
    BY <1>1, <1>4, <2>1 DEF mode
<1>6. request' \in Request
  BY <1>5 DEF Carried
<1>7. Reach(request'.messages, history')
  <2> SUFFICES ASSUME NEW i \in DOMAIN history, NEW j \in DOMAIN history[i].content,
                      NEW last \in BOOLEAN, history[i].content[j].kind = "result",
                      last => j = Len(history[i].content)
               PROVE  Arrives(request'.messages, history[i].content[j], last)
    BY <1>1 DEF Reach
  <2> HIDE DEF P
  <2>1. Arrives(P, history[i].content[j], last)
    BY <1>3 DEF Reach
  <2>2. history[i].content[j] \in Block
    BY <1>2, MessageFacts DEF HistoryOK
  <2> QED
    BY <1>5, <2>1, <2>2 DEF Carried
<1>8. Declared(request', history', allowed')
  <2>1. P = [i \in DOMAIN history' |-> Parse(history'[i])]
    BY <1>1
  <2>2. mode \notin {"off", "safe"} => \A m \in allowed' : m \in {"balanced", "aggressive"}
    BY <1>1, <1>2, LossyModes
  <2> HIDE DEF P, mode
  <2> QED
    BY <1>5, <2>1, <2>2 DEF Declared, Declares
<1>9. attempts' = 0 /\ 0 \in 0 .. MaxAttempts /\ 0 < MaxAttempts
  BY <1>1, <1>2, PipelineAssumption
<1>10. Reach(request.messages, history)' /\ Declared(request, history, allowed)'
  BY <1>7, <1>8
<1>11. HistoryOK(history)'
  BY <1>1, <1>2
<1> QED
  BY <1>1, <1>6, <1>9, <1>10, <1>11 DEF PipelineInv

LEMMA AttemptOK ==
    ASSUME PipelineInv, NEW upstream \in Protocol, Attempt(upstream)
    PROVE  PipelineInv'
<1>1. /\ phase = "planned" /\ phase' = "upstream" /\ attempts' = attempts + 1
      /\ wire' = [to |-> upstream, messages |-> Encode(upstream, request.messages)]
      /\ UNCHANGED <<client, history, config, key, request, allowed>>
  BY DEF Attempt
<1>2. wire'.to = upstream /\ wire'.messages = Encode(upstream, request.messages)
  BY <1>1
<1>3. wire'.messages = Encode(wire'.to, request'.messages)
  BY <1>1, <1>2
<1>4. attempts' \in 0 .. MaxAttempts
  BY <1>1, PipelineAssumption DEF PipelineInv
<1>5. /\ HistoryOK(history)' /\ Reach(request.messages, history)'
      /\ Declared(request, history, allowed)'
  BY <1>1 DEF PipelineInv
<1>6. /\ client' \in Protocol /\ config' \in Configs /\ key' \in KeyModes /\ request' \in Request
  BY <1>1 DEF PipelineInv
<1> QED
  BY <1>1, <1>2, <1>3, <1>4, <1>5, <1>6 DEF PipelineInv

LEMMA AttemptFailsOK ==
    ASSUME PipelineInv, AttemptFails
    PROVE  PipelineInv'
<1>1. /\ phase = "upstream" /\ phase' \in {"planned", "refused"}
      /\ phase' = "planned" => attempts < MaxAttempts
      /\ UNCHANGED <<client, history, config, key, request, allowed, wire, attempts>>
  BY DEF AttemptFails
<1>2. /\ HistoryOK(history)'
      /\ phase' = "planned" => /\ Reach(request.messages, history)'
                               /\ Declared(request, history, allowed)'
  BY <1>1 DEF PipelineInv
<1>3. /\ client' \in Protocol /\ config' \in Configs /\ key' \in KeyModes /\ request' \in Request
      /\ wire'.to \in Protocol /\ attempts' \in 0 .. MaxAttempts
  BY <1>1 DEF PipelineInv
<1> QED
  BY <1>1, <1>2, <1>3 DEF PipelineInv

\* What configures the next request leaves this one alone.
LEMMA SettingsOK ==
    ASSUME PipelineInv, config' \in Configs, key' \in KeyModes,
           UNCHANGED <<client, history, phase, request, allowed, wire, attempts>>
    PROVE  PipelineInv'
<1>1. /\ HistoryOK(history)'
      /\ phase' \in {"planned", "upstream"} => /\ Reach(request.messages, history)'
                                              /\ Declared(request, history, allowed)'
  BY DEF PipelineInv
<1> QED
  BY <1>1 DEF PipelineInv

-----------------------------------------------------------------------------
(* The theorems. *)
LEMMA PipelineInvInductive ==
    PipelineSpec => []PipelineInv
<1>1. PipelineInit => PipelineInv
  <2> SUFFICES ASSUME PipelineInit PROVE PipelineInv
    OBVIOUS
  <2>1. /\ client \in Protocol /\ config \in Configs /\ key \in KeyModes
        /\ history = <<>> /\ phase = "user" /\ request = NoRequest /\ wire = NoWire
        /\ attempts = 0
    BY DEF PipelineInit
  <2>2. NoRequest \in Request /\ NoWire.to \in Protocol
    BY DEF NoRequest, NoWire, Request, Protocol
  <2>3. HistoryOK(<<>>)
    <3>1. <<>> \in Seq(Message) /\ DOMAIN <<>> = {}
      OBVIOUS
    <3>2. CallIds(<<>>) = 1 .. 0 /\ 0 \in Nat
      BY DEF CallIds, Range
    <3> QED
      BY <3>1, <3>2 DEF HistoryOK, Unmarked, OneCaller
  <2>4. 0 \in 0 .. MaxAttempts
    BY PipelineAssumption
  <2> QED
    BY <2>1, <2>2, <2>3, <2>4 DEF PipelineInv
<1>2. PipelineInv /\ [PipelineNext]_vars => PipelineInv'
  <2> SUFFICES ASSUME PipelineInv, [PipelineNext]_vars PROVE PipelineInv'
    OBVIOUS
  <2>1. ASSUME NEW t \in UserTexts, UserSays(t) PROVE PipelineInv'
    BY <2>1, UserSaysOK
  <2>2. ASSUME NEW t \in ResultTexts, NEW remark \in Optional(Remarks), ReturnResults(t, remark)
        PROVE  PipelineInv'
    BY <2>2, ReturnResultsOK
  <2>3. CASE Optimized
    BY <2>3, OptimizedOK
  <2>4. ASSUME NEW p \in Protocol, Attempt(p) PROVE PipelineInv'
    BY <2>4, AttemptOK
  <2>5. CASE AttemptFails
    BY <2>5, AttemptFailsOK
  <2>6. CASE Resend
    BY <2>6, ResendOK
  <2>7. ASSUME NEW said \in Optional(AnswerTexts), NEW n \in 0 .. MaxCalls, Answer(said, n)
        PROVE  PipelineInv'
    BY <2>7, AnswerOK
  <2>8. ASSUME NEW c \in Configs, Reconfigure(c) PROVE PipelineInv'
    <3>1. /\ config' \in Configs /\ key' \in KeyModes
          /\ UNCHANGED <<client, history, phase, request, allowed, wire, attempts>>
      BY <2>8 DEF Reconfigure, PipelineInv
    <3> QED
      BY <3>1, SettingsOK
  <2>9. ASSUME NEW k \in KeyModes, EditKeyMode(k) PROVE PipelineInv'
    <3>1. /\ config' \in Configs /\ key' \in KeyModes
          /\ UNCHANGED <<client, history, phase, request, allowed, wire, attempts>>
      BY <2>9 DEF EditKeyMode, PipelineInv
    <3> QED
      BY <3>1, SettingsOK
  <2>10. CASE ConversationEnds \/ UNCHANGED vars
    <3>1. /\ config' \in Configs /\ key' \in KeyModes
          /\ UNCHANGED <<client, history, phase, request, allowed, wire, attempts>>
      BY <2>10 DEF ConversationEnds, vars, PipelineInv
    <3> QED
      BY <3>1, SettingsOK
  <2> QED
    BY <2>1, <2>2, <2>3, <2>4, <2>5, <2>6, <2>7, <2>8, <2>9, <2>10 DEF PipelineNext
<1> QED
  BY <1>1, <1>2, PTL DEF PipelineSpec

\* Whatever is said, answered, optimized and tried again, the client, the
\* request and the attempts stay what the handlers and the engine can hold.
THEOREM PipelineTypeCorrect == PipelineSpec => []PipelineTypeOK
<1>1. PipelineInv => PipelineTypeOK
  <2> SUFFICES ASSUME PipelineInv PROVE PipelineTypeOK
    OBVIOUS
  <2>1. history \in Seq(Message) /\ \A i \in DOMAIN history : history[i].content # <<>>
    BY DEF PipelineInv, HistoryOK
  <2>2. \A m \in Range(history) : m.role \in Roles /\ m.content # <<>>
    BY <2>1, MessageFacts DEF Range
  <2>3. /\ request.messages \in Seq(Message) /\ request.max \in {"absent", "client", "planned"}
        /\ request.loss \in {"lossless", "selective"}
    BY DEF PipelineInv, Request
  <2>4. ASSUME NEW i \in DOMAIN request.messages, NEW j \in DOMAIN request.messages[i].content,
               request.messages[i].content[j].kind = "text"
        PROVE  request.messages[i].content[j].text \in Text
    <3>1. request.messages[i].content[j] \in Block
      BY <2>3, MessageFacts
    <3> QED
      BY <2>4, <3>1, BlockFacts
  <2>5. \A m \in Range(request.messages) : \A b \in Range(m.content) :
            b.kind = "text" => b.text \in Text
    BY <2>4 DEF Range
  <2> QED
    BY <2>2, <2>3, <2>5 DEF PipelineInv, PipelineTypeOK
<1> QED
  BY <1>1, PipelineInvInductive, PTL

\* With any window, modes, texts and number of attempts: a tool result stands
\* behind its call in what either encoder sends (encoders in provider, trimming
\* in conversation.go, stages in engine.go), if it ended its message or the
\* provider speaks the Anthropic protocol.
THEOREM ResultsAlwaysReach == PipelineSpec => []ResultsReachUnlessCrowded
<1>1. PipelineInv => ResultsReachUnlessCrowded
  <2> SUFFICES ASSUME PipelineInv, phase = "upstream", NEW i \in DOMAIN history,
                      NEW j \in DOMAIN history[i].content,
                      history[i].content[j].kind = "result", ~Crowded(history[i], j)
               PROVE  \E r \in Positions(wire.messages, history[i].content[j]) :
                          \E c \in Positions(wire.messages, Call(history[i].content[j].id)) :
                              Before(c, r)
    BY DEF ResultsReachUnlessCrowded
  <2> DEFINE b == history[i].content[j]
             last == (wire.to = "openai")
  <2>1. /\ history \in Seq(Message) /\ request.messages \in Seq(Message)
        /\ wire.to \in Protocol /\ wire.messages = Encode(wire.to, request.messages)
        /\ Reach(request.messages, history)
    BY DEF PipelineInv, HistoryOK, Request
  <2>2. b \in Block /\ b.kind = "result"
    BY <2>1, MessageFacts
  <2>3. last => j = Len(history[i].content)
    <3>1. j \in 1 .. Len(history[i].content) /\ Len(history[i].content) \in Nat
      BY <2>1, MessageFacts
    <3> QED
      BY <3>1 DEF Crowded
  <2>4. last \in BOOLEAN
    OBVIOUS
  <2>5. Arrives(request.messages, b, last)
    <3>1. \A y \in BOOLEAN : (y => j = Len(history[i].content))
              => Arrives(request.messages, b, y)
      BY <2>1 DEF Reach
    <3> HIDE DEF last, b
    <3> QED
      BY <2>3, <2>4, <3>1
  <2>6. wire.to = "openai" => last
    OBVIOUS
  <2> HIDE DEF b, last
  <2>7. \E r \in Positions(Encode(wire.to, request.messages), b) :
            \E c \in Positions(Encode(wire.to, request.messages), Call(b.id)) : Before(c, r)
    BY <2>1, <2>2, <2>4, <2>5, <2>6, ResultOnWire
  <2> QED
    BY <2>1, <2>7 DEF b
<1> QED
  BY <1>1, PipelineInvInductive, PTL

\* What the optimizer takes out of a request's meaning is in its record, and
\* both the server's mode and the key's allowed it when it was taken up
\* (ResolveMode, Supports, the stages), whatever is reconfigured since: but for
\* repeated lines whose collapsing saves nothing (compact.go:218), which only
\* those modes collapse, and beside which nothing undeclared happens.
THEOREM LossAlwaysDeclared == PipelineSpec => []LossDeclared
<1>1. PipelineInv => LossDeclared
  BY DEF PipelineInv, LossDeclared, Declared, Parsed
<1> QED
  BY <1>1, PipelineInvInductive, PTL

=============================================================================
