-------------------------- MODULE AssessmentProofs --------------------------
(* Proofs about Assessment: what runs, requests, proposals and saves may do  *)
(* to the rows and the configuration, whatever the interleaving, the         *)
(* cancellations, the restarts and the failed writes.                        *)
(*                                                                           *)
(* Evidence comes first: the caps let in a subset of what is eligible (by a  *)
(* least counterexample), so what a proposal rests on without a mandatory    *)
(* review was published for the configured identity.  The invariant then     *)
(* ties a run to its row (RunOK, RowOK), a request to the row or proposal it *)
(* read (PlaceOK), and the configuration and every copy of it that will be   *)
(* saved to the rows and imports its values come from (Traced).  A step of   *)
(* one run or request keeps what is said of the others because it leaves the *)
(* rows and imports standing (RowsStand, ImportsStand).                      *)
EXTENDS Assessment, WellFoundedInduction, TLAPS

-----------------------------------------------------------------------------
(* Evidence. *)

(* A set of natural numbers that is not empty has a least element.          *)
LEMMA LeastNat ==
    ASSUME NEW T, T \subseteq Nat, T # {}
    PROVE  \E x \in T : \A y \in T : x <= y
<1>1. IsWellFoundedOn(OpToRel(<, Nat), Nat)
  BY NatLessThanWellFounded
<1>2. PICK x \in T : \A y \in T : ~(<<y, x>> \in OpToRel(<, Nat))
  BY <1>1, WFMin
<1>3. \A y \in T : ~(y < x)
  BY <1>2 DEF OpToRel
<1> QED
  BY <1>3

(* The caps let in some set of the candidates: taking them one by one, each *)
(* is decided by those before it.                                           *)
LEMMA CapsDecide ==
    ASSUME NEW recs, NEW n \in Nat, NEW candidates \in SUBSET (1..n)
    PROVE  \E in \in SUBSET candidates : \A i \in candidates : i \in in <=> LetIn(recs, in, i)
<1> DEFINE Upto(m) == candidates \cap 1..m
           Decided(m) == \E in \in SUBSET Upto(m) : \A i \in Upto(m) : i \in in <=> LetIn(recs, in, i)
           T == {m \in Nat : ~Decided(m)}
<1>1. Decided(0)
  <2>1. Upto(0) = {}
    OBVIOUS
  <2> QED
    BY <2>1
<1>2. ASSUME NEW m \in Nat, Decided(m) PROVE Decided(m + 1)
  <2>1. PICK in \in SUBSET Upto(m) : \A i \in Upto(m) : i \in in <=> LetIn(recs, in, i)
    BY <1>2
  <2> DEFINE more == in \cup {i \in Upto(m + 1) : i = m + 1 /\ LetIn(recs, in, i)}
  <2>2. \A i \in Upto(m + 1) : {j \in more : j < i} = {j \in in : j < i}
    OBVIOUS
  <2>3. \A i \in Upto(m + 1) : LetIn(recs, more, i) <=> LetIn(recs, in, i)
    BY <2>2 DEF LetIn
  <2>4. ASSUME NEW i \in Upto(m + 1) PROVE i \in more <=> LetIn(recs, in, i)
    <3>1. CASE i = m + 1
      <4>1. i \notin in
        BY <3>1
      <4> QED
        BY <3>1, <4>1
    <3>2. CASE i # m + 1
      <4>1. i \in Upto(m)
        BY <3>2
      <4> QED
        BY <2>1, <3>2, <4>1
    <3> QED
      BY <3>1, <3>2
  <2>5. more \in SUBSET Upto(m + 1)
    <3>1. Upto(m) \subseteq Upto(m + 1)
      OBVIOUS
    <3>2. in \subseteq Upto(m)
      BY <2>1
    <3> QED
      BY <3>1, <3>2
  <2> QED
    BY <2>3, <2>4, <2>5
<1> HIDE DEF Decided
<1>3. T = {}
  <2> SUFFICES ASSUME T # {} PROVE FALSE
    OBVIOUS
  <2>1. PICK m \in T : \A k \in T : m <= k
    BY LeastNat
  <2>2. m # 0
    BY <1>1, <2>1
  <2>3. m - 1 \in Nat /\ m - 1 \notin T
    BY <2>1, <2>2
  <2>4. Decided((m - 1) + 1)
    BY <1>2, <2>3
  <2> QED
    BY <2>1, <2>4
<1>4. Decided(n)
  BY <1>3
<1>5. Upto(n) = candidates
  OBVIOUS
<1> QED
  BY <1>4, <1>5 DEF Decided

(* Findings are finite sequences of evidence for capabilities.              *)
LEMMA KeptOf ==
    ASSUME NEW found \in Findings
    PROVE  Kept(Identity, found) \subseteq 1..Len(found) /\ Len(found) \in Nat
           /\ DOMAIN found = 1..Len(found)
BY AssessmentAssumption DEF Kept

(* What counts is eligible evidence for the capability.                     *)
LEMMA CountedKept ==
    ASSUME NEW found \in Findings, NEW c
    PROVE  Counted(found, Kept(Identity, found), c) \subseteq
              {i \in Kept(Identity, found) : found[i].capability = c}
<1> DEFINE C == {i \in Kept(Identity, found) : found[i].capability = c}
           len == Len(found)
<1>1. C \in SUBSET (1..len)
  BY KeptOf
<1>2. len \in Nat
  BY KeptOf
<1> HIDE DEF C, len
<1>3. \E in \in SUBSET C : \A i \in C : i \in in <=> LetIn(found, in, i)
  <2>1. \A recs : \A n \in Nat : \A D \in SUBSET (1..n) :
           \E in \in SUBSET D : \A i \in D : i \in in <=> LetIn(recs, in, i)
    BY CapsDecide
  <2>2. \A D \in SUBSET (1..len) :
           \E in \in SUBSET D : \A i \in D : i \in in <=> LetIn(found, in, i)
    BY <1>2, <2>1
  <2> QED
    BY <1>1, <2>2
<1>4. InsideCaps(found, C) \in SUBSET C
  BY <1>3 DEF InsideCaps
<1> QED
  BY <1>4 DEF C, Counted

(* What a proposal rests on is eligible.                                    *)
LEMMA ContributingKept ==
    ASSUME NEW found \in Findings, NEW i \in Contributing(Identity, found)
    PROVE  i \in DOMAIN found /\ Eligible(Identity, found[i]) /\ found[i].capability \in Field
<1>1. i \in Kept(Identity, found)
  BY CountedKept DEF Contributing
<1> QED
  BY <1>1, AssessmentAssumption DEF Kept

LEMMA ProposedFields ==
    ASSUME NEW found \in Findings PROVE Proposed(Identity, found) \in SUBSET Field
BY ContributingKept DEF Proposed

(* Evidence that makes no review mandatory matches exactly, and what matches *)
(* exactly claims no other identity.                                         *)
LEMMA ExactClaimsNoOther ==
    ASSUME NEW r, Match(Identity, r.published) = "exact"
    PROVE  ClaimsNoOther(r)
<1> DEFINE a == Identity
           b == r.published
<1>1. CASE b = Blank
  BY <1>1 DEF Blank, ClaimsNoOther, Known
<1>2. CASE Known(a, "id") /\ a["id"] = b["id"]
  BY <1>2 DEF ClaimsNoOther
<1>3. CASE b # Blank /\ ~(Known(a, "id") /\ a["id"] = b["id"])
  <2>1. /\ ~\E f \in {"creator", "family"} : Conflict(a, b, f)
        /\ Differ(a, b) = {}
    BY <1>3 DEF Match
  <2>2. ASSUME NEW f \in IdentityField \ {"id"}, Known(b, f)
        PROVE  b[f] = a[f] \/ (f \notin Variant /\ ~Known(a, f))
    <3>1. CASE f \in Variant
      BY <2>1, <2>2, <3>1 DEF Differ
    <3>2. CASE f \in Release \cup {"harness"}
      <4>1. ~Conflict(a, b, f)
        BY <2>1, <3>2 DEF Differ
      <4>2. f \notin Variant
        BY <3>2 DEF Release, Variant
      <4> QED
        BY <2>2, <4>1, <4>2 DEF Conflict
    <3>3. CASE f \in {"creator", "family"}
      <4>1. ~Conflict(a, b, f)
        BY <2>1, <3>3
      <4>2. f \notin Variant
        BY <3>3 DEF Variant
      <4> QED
        BY <2>2, <4>1, <4>2 DEF Conflict
    <3> QED
      BY <3>1, <3>2, <3>3 DEF IdentityField
  <2> QED
    BY <2>2 DEF ClaimsNoOther
<1> QED
  BY <1>1, <1>2, <1>3

LEMMA ProposedTraced ==
    ASSUME NEW found \in Findings, ~MandatoryReview(Identity, found),
           NEW c \in Proposed(Identity, found)
    PROVE  \E i \in DOMAIN found : found[i].capability = c /\ ClaimsNoOther(found[i])
<1>1. PICK i \in Contributing(Identity, found) : found[i].capability = c
  BY DEF Proposed
<1>2. i \in DOMAIN found /\ Eligible(Identity, found[i])
  BY ContributingKept
<1>3. Match(Identity, found[i].published) = "exact"
  BY <1>2 DEF Eligible, Contributes, MandatoryReview
<1>4. ClaimsNoOther(found[i])
  BY <1>3, ExactClaimsNoOther
<1> QED
  BY <1>1, <1>2, <1>4

-----------------------------------------------------------------------------
(* The invariant. *)

(* A run's verdict was lost, or its process died or ended under it.         *)
Lost == why \cap {"crash", "cli", "lost"} # {}

(* A row no run has worked on.                                              *)
Fresh(row) == /\ \A c \in Field : row.cats[c] = "pending"
              /\ row.proposal = None

(* RunOK: a goroutine that has not loaded its row yet will find it as it was *)
(* made, cancelled at most; later its own copy proposes nothing and has at   *)
(* most the category it is asking about under way.                           *)
RunOK(a) ==
    /\ stage[a] = "load" =>
          /\ rows[a] \in Row /\ Fresh(rows[a])
          /\ rows[a].status \in {"pending", "cancelled"}
    /\ stage[a] \in {"mark", "pick", "called"} =>
          /\ rows[a] \in Row /\ mine[a] \in Row /\ mine[a].proposal = None
          /\ mine[a].status \in {"pending", "running", "partial"}
    /\ stage[a] \in {"mark", "pick"} => \A c \in Field : mine[a].cats[c] # "running"
    /\ stage[a] = "called" =>
          /\ cur[a] \in Field
          /\ \A c \in Field : c # cur[a] => mine[a].cats[c] # "running"

(* RowOK: a row with a proposal is whole, and final as far as its run goes;  *)
(* one without is of a run that is alive or lost, or it was cancelled.       *)
RowOK(a) ==
    rows[a] \in Row =>
        /\ rows[a].proposal # None => stage[a] = "none" /\ WholeResult(rows[a], dropped[a])
        /\ rows[a].status = "completed" => rows[a].proposal # None
        /\ rows[a].status = "partial" => rows[a].proposal # None \/ stage[a] # "none" \/ Lost
        /\ Continues(rows[a]) => stage[a] # "none" \/ Lost

Doing(s, does) == op[s] \in Ops /\ op[s].do \in does

(* What a request that cancels or applies an assessment has read of it: the  *)
(* row of a run that has not begun, or a whole one.                          *)
Cancelling(s) ==
    /\ Doing(s, {"cancel"})
    /\ snap[s] \in Row /\ rows[op[s].on] \in Row
    /\ stage[op[s].on] = "load" => Fresh(snap[s])
    /\ snap[s].proposal # None => stage[op[s].on] = "none" /\ WholeResult(snap[s], dropped[op[s].on])

(* The row whose proposal is being applied still has the results it had, and *)
(* is marked, unless Cancel has written an older copy over it.               *)
Applying(s) ==
    LET a == op[s].on
    IN  /\ snap[s] \in Row /\ rows[a] \in Row /\ stage[a] = "none"
        /\ snap[s].status \in {"completed", "partial"}
        /\ snap[s].proposal # None /\ WholeResult(snap[s], dropped[a])
        /\ "stale" \notin why => rows[a].proposal # None /\ rows[a].cats = snap[s].cats
        /\ place[s] # "mark" /\ "stale" \notin why => rows[a].applied # None

(* A proposal that is being imported rests on exact evidence, and is         *)
(* recorded from then on.                                                    *)
Importing(s) ==
    LET x == op[s].on
    IN  /\ basis[x] \in Findings /\ ~MandatoryReview(Identity, basis[x])
        /\ place[s] # "record" => x \in imports

PlaceOK(s) ==
    /\ place[s] = "cancel" => Cancelling(s)
    /\ place[s] = "mark" => Doing(s, {"apply"})
    /\ place[s] \in {"record", "forget"} => Doing(s, {"import"})
    /\ place[s] \in {"load", "save"} => Doing(s, {"apply", "import", "put", "reset"})
    /\ (place[s] # "idle" /\ op[s].do = "apply") => Applying(s)
    /\ (place[s] # "idle" /\ op[s].do = "import") => Importing(s)

ProposalOK(x) ==
    /\ offered[x] # None => basis[x] \in Findings
    /\ (basis[x] \in Findings /\ x \notin review) => ~MandatoryReview(Identity, basis[x])
    /\ x \in imports => basis[x] \in Findings

(* Traceable, of any configuration and with the places its values come from. *)
FromRow(a, c) ==
    /\ a \in Run /\ rows[a] \in Row
    /\ "stale" \notin why =>
          rows[a].applied # None /\ rows[a].proposal # None /\ c \in Good(rows[a])

FromImport(x, c) ==
    /\ x \in imports
    /\ \E i \in DOMAIN basis[x] : basis[x][i].capability = c /\ ClaimsNoOther(basis[x][i])

Traced(config) ==
    \A m \in ProfileId, c \in Field :
        /\ config[m]["assessment"][c] # None => FromRow(config[m]["assessment"][c], c)
        /\ config[m]["external"][c] # None => FromImport(config[m]["external"][c], c)

(* A copy a save starts from is as traceable as the configuration.          *)
CopyOK(s) ==
    (place[s] = "save" \/ (s \in Cli /\ place[s] \in {"record", "forget"})) =>
        copy[s] \in [ProfileId -> Entry] /\ Traced(copy[s])

RunInv == \A a \in Run : RunOK(a) /\ RowOK(a)
PlaceInv == \A s \in Actor : PlaceOK(s)
ProposalInv == \A x \in Proposal : ProposalOK(x)
ConfigInv == Traced(profiles) /\ \A s \in Actor : CopyOK(s)

AssessInv == AssessTypeOK /\ RunInv /\ PlaceInv /\ ProposalInv /\ ConfigInv

(* What runs do to the rows, and everyone else sees of it: a whole row and   *)
(* its run are left alone.                                                   *)
RunMoved(a) ==
    /\ UNCHANGED <<externalVars, profiles, dropped, actorVars>>
    /\ rows' \in [Run -> Row \cup {None}] /\ stage' \in [Run -> Stage]
    /\ mine' \in [Run -> Row \cup {None}] /\ cur' \in [Run -> Field \cup {None}]
    /\ home' \in [Run -> Actor \cup {None}]
    /\ why' \subseteq Incident /\ why \subseteq why' /\ ("stale" \in why' => "stale" \in why)
    /\ \A b \in Run : b # a => /\ rows'[b] = rows[b] /\ stage'[b] = stage[b]
                               /\ mine'[b] = mine[b] /\ cur'[b] = cur[b]
    /\ RunOK(a)' /\ RowOK(a)'
    /\ rows[a] \in Row => rows'[a] \in Row /\ (stage'[a] = "load" => stage[a] = "load")
    /\ rows[a] \in Row /\ stage[a] = "none" => stage'[a] = "none" /\ rows'[a] = rows[a]

LEMMA StartMoves ==
    ASSUME AssessInv, NEW a \in Run, NEW s \in Actor, Start(a, s)
    PROVE  RunMoved(a)
<1>1. NewRow \in Row /\ Fresh(NewRow) /\ NewRow.status = "pending"
  <2>1. NewRow \in Row
    BY DEF NewRow, Row, Status, Result
  <2> QED
    BY <2>1 DEF NewRow, Fresh
<1> USE DEF AssessInv, AssessTypeOK
<1>2. rows[a] \notin Row
  BY AssessmentAssumption DEF Start
<1>3. rows'[a] = NewRow /\ stage'[a] = "load" /\ rows' = [rows EXCEPT ![a] = NewRow]
  BY DEF Start
<1>4. RunOK(a)'
  BY <1>1, <1>3 DEF RunOK
<1>5. RowOK(a)'
  BY <1>1, <1>3 DEF RowOK, Fresh, Continues
<1>6. rows' \in [Run -> Row \cup {None}]
  BY <1>1, <1>3
<1> HIDE DEF AssessInv
<1> QED
  BY <1>2, <1>4, <1>5, <1>6 DEF RunMoved, Start, Stage, AssessInv

LEMMA LoadRowMoves ==
    ASSUME AssessInv, NEW a \in Run, LoadRow(a) \/ LoadRowFails(a)
    PROVE  RunMoved(a)
<1> USE DEF AssessInv, AssessTypeOK
<1>0. /\ stage[a] = "load" /\ RunOK(a) /\ RowOK(a) /\ rows' = rows
      /\ UNCHANGED <<externalVars, profiles, dropped, actorVars>>
  BY DEF LoadRow, LoadRowFails, RunInv
<1>1. rows[a] \in Row /\ Fresh(rows[a]) /\ rows[a].status \in {"pending", "cancelled"}
  BY <1>0 DEF RunOK
<1>2. CASE LoadRow(a) /\ Continues(rows[a])
  <2>1. /\ mine' = [mine EXCEPT ![a] = rows[a]] /\ stage' = [stage EXCEPT ![a] = "mark"]
        /\ UNCHANGED <<cur, home, why>>
    BY <1>2 DEF LoadRow
  <2>2. RunOK(a)'
    BY <1>0, <1>1, <1>2, <2>1 DEF RunOK, Fresh, Continues
  <2>3. RowOK(a)'
    BY <1>0, <1>1, <2>1 DEF RowOK, Fresh
  <2> QED
    BY <1>0, <1>1, <2>1, <2>2, <2>3 DEF RunMoved, Stage
<1>3. CASE LoadRowFails(a) \/ ~Continues(rows[a])
  <2>1. Stop(a) /\ why \subseteq why' /\ why' \subseteq why \cup {"lost"}
        /\ (LoadRowFails(a) => "lost" \in why')
    BY <1>3 DEF LoadRow, LoadRowFails
  <2>2. stage'[a] = "none"
    BY <2>1 DEF Stop
  <2>3. RunOK(a)'
    BY <2>2 DEF RunOK
  <2>4. RowOK(a)'
    BY <1>0, <1>1, <1>3, <2>1, <2>2 DEF RowOK, Fresh, Lost, Continues
  <2> QED
    BY <1>0, <1>1, <2>1, <2>2, <2>3, <2>4 DEF RunMoved, Stage, Stop, Incident
<1> QED
  BY <1>2, <1>3

(* A run that writes its copy goes on.                                      *)
LEMMA WriteMoves ==
    ASSUME AssessInv, NEW a \in Run, NEW row \in Row, NEW next \in {"pick", "called"},
           stage[a] \in {"mark", "pick", "called"},
           WriteMine(a, row), stage' = [stage EXCEPT ![a] = next],
           row.proposal = None, row.status \in {"pending", "running", "partial"},
           next = "pick" => \A c \in Field : row.cats[c] # "running",
           next = "called" => cur'[a] \in Field
                              /\ \A c \in Field : c # cur'[a] => row.cats[c] # "running",
           cur' \in [Run -> Field \cup {None}], \A b \in Run : b # a => cur'[b] = cur[b],
           UNCHANGED <<home, externalVars, profiles, dropped, actorVars, why>>
    PROVE  RunMoved(a)
<1> USE DEF AssessInv, AssessTypeOK
<1>0. RunOK(a) /\ RowOK(a)
  BY DEF RunInv
<1>1. /\ rows[a] \in Row /\ rows' \in [Run -> Row \cup {None}]
      /\ \A b \in Run : b # a => rows'[b] = rows[b]
      /\ rows'[a] \in {rows[a], row}
  BY <1>0 DEF RunOK, WriteMine
<1>2. mine' \in [Run -> Row \cup {None}] /\ mine'[a] = row /\ mine' = [mine EXCEPT ![a] = row]
  BY DEF WriteMine
<1>3. stage'[a] = next
  OBVIOUS
<1>4. RunOK(a)'
  BY <1>1, <1>2, <1>3 DEF RunOK
<1>5. RowOK(a)'
  <2>1. CASE rows'[a] = rows[a]
    BY <1>0, <1>3, <2>1 DEF RowOK
  <2>2. CASE rows'[a] = row
    BY <1>3, <2>2 DEF RowOK
  <2> QED
    BY <1>1, <2>1, <2>2
<1> QED
  BY <1>1, <1>2, <1>3, <1>4, <1>5 DEF RunMoved, Stage

LEMMA AskingMoves ==
    ASSUME AssessInv, NEW a \in Run,
           MarkRunning(a) \/ (\E c \in Field : BeginCategory(a, c)) \/ NoTest(a) \/ Answered(a)
              \/ CallFails(a)
    PROVE  RunMoved(a)
<1> USE DEF AssessInv, AssessTypeOK
<1>0. RunOK(a)
  BY DEF RunInv
<1>1. CASE MarkRunning(a)
  <2> DEFINE row == [mine[a] EXCEPT !.status = "running"]
  <2>1. stage[a] = "mark" /\ mine[a] \in Row /\ mine[a].proposal = None
    BY <1>0, <1>1 DEF RunOK, MarkRunning
  <2>2. row \in Row /\ row.proposal = None /\ row.status = "running" /\ row.cats = mine[a].cats
    BY <2>1 DEF Row, Status
  <2>3. WriteMine(a, row) /\ stage' = [stage EXCEPT ![a] = "pick"] /\ cur' = cur
        /\ UNCHANGED <<home, externalVars, profiles, dropped, actorVars, why>>
    BY <1>1 DEF MarkRunning
  <2>4. \A c \in Field : row.cats[c] # "running"
    BY <1>0, <2>1, <2>2 DEF RunOK
  <2> HIDE DEF row
  <2> QED
    BY <2>1, <2>2, <2>3, <2>4, WriteMoves
<1>2. ASSUME NEW c \in Field, BeginCategory(a, c) PROVE RunMoved(a)
  <2> DEFINE row == [mine[a] EXCEPT !.cats[c] = "running"]
  <2>1. stage[a] = "pick" /\ mine[a] \in Row /\ mine[a].proposal = None
        /\ mine[a].status \in {"pending", "running", "partial"}
    BY <1>0, <1>2 DEF RunOK, BeginCategory
  <2>2. /\ row \in Row /\ row.proposal = None /\ row.status = mine[a].status
        /\ \A d \in Field : d # c => row.cats[d] = mine[a].cats[d]
    BY <2>1 DEF Row, Result
  <2>3. WriteMine(a, row) /\ stage' = [stage EXCEPT ![a] = "called"]
        /\ cur' = [cur EXCEPT ![a] = c]
        /\ UNCHANGED <<home, externalVars, profiles, dropped, actorVars, why>>
    BY <1>2 DEF BeginCategory
  <2>4. \A d \in Field : d # c => row.cats[d] # "running"
    BY <1>0, <2>1, <2>2 DEF RunOK
  <2>5. cur'[a] = c /\ cur' \in [Run -> Field \cup {None}] /\ \A b \in Run : b # a => cur'[b] = cur[b]
    BY <2>3
  <2> HIDE DEF row
  <2> QED
    BY <2>1, <2>2, <2>3, <2>4, <2>5, WriteMoves
<1>3. ASSUME NEW result \in {"zero", "good", "failed"}, NEW status \in {mine[a].status, "partial"},
             stage[a] = "called",
             EndCategory(a, [mine[a] EXCEPT !.cats[cur[a]] = result, !.status = status])
      PROVE  RunMoved(a)
  <2> DEFINE row == [mine[a] EXCEPT !.cats[cur[a]] = result, !.status = status]
  <2>1. /\ mine[a] \in Row /\ mine[a].proposal = None /\ cur[a] \in Field
        /\ mine[a].status \in {"pending", "running", "partial"}
        /\ \A c \in Field : c # cur[a] => mine[a].cats[c] # "running"
    BY <1>0, <1>3 DEF RunOK
  <2>2. /\ row \in Row /\ row.proposal = None /\ row.status = status
        /\ \A d \in Field : row.cats[d] = IF d = cur[a] THEN result ELSE mine[a].cats[d]
    BY <2>1, <1>3 DEF Row, Result, Status
  <2>3. WriteMine(a, row) /\ stage' = [stage EXCEPT ![a] = "pick"]
        /\ cur' = [cur EXCEPT ![a] = None]
        /\ UNCHANGED <<home, externalVars, profiles, dropped, actorVars, why>>
    BY <1>3 DEF EndCategory
  <2>4. \A d \in Field : row.cats[d] # "running"
    BY <2>1, <2>2
  <2>5. cur' \in [Run -> Field \cup {None}] /\ \A b \in Run : b # a => cur'[b] = cur[b]
    BY <2>3
  <2>6. row.status \in {"pending", "running", "partial"}
    BY <2>1, <2>2
  <2> HIDE DEF row
  <2> QED
    BY <1>3, <2>1, <2>2, <2>3, <2>4, <2>5, <2>6, WriteMoves
<1>4. ASSUME stage[a] = "called"
      PROVE  \A x : [mine[a] EXCEPT !.cats[cur[a]] = x] =
                        [mine[a] EXCEPT !.cats[cur[a]] = x, !.status = mine[a].status]
  BY <1>0, <1>4 DEF RunOK, Row
<1>5. CASE NoTest(a)
  BY <1>3, <1>4, <1>5 DEF NoTest
<1>6. CASE Answered(a)
  BY <1>3, <1>4, <1>6 DEF Answered
<1>7. CASE CallFails(a)
  BY <1>3, <1>7 DEF CallFails
<1> QED
  BY <1>1, <1>2, <1>5, <1>6, <1>7

(* The verdict of a run makes its row whole.                                *)
LEMMA FinishMoves ==
    ASSUME AssessInv, NEW a \in Run, Finish(a)
    PROVE  RunMoved(a)
<1> USE DEF AssessInv, AssessTypeOK
<1> DEFINE row == Finished(mine[a])
<1>0. RunOK(a) /\ RowOK(a) /\ stage[a] = "pick"
  BY DEF RunInv, Finish
<1>1. mine[a] \in Row /\ rows[a] \in Row
  BY <1>0 DEF RunOK
<1>2. /\ row \in Row /\ row.proposal = Good(mine[a]) /\ row.cats = mine[a].cats
      /\ row.status \in {"failed", "partial", "completed"}
  BY <1>1 DEF Finished, Row, Verdict, Status, Good
<1>3. row.proposal # None
  BY <1>2, AssessmentAssumption DEF Good
<1>4. \A c \in Field : mine[a].cats[c] \in {"good", "zero", "failed"}
  BY <1>0, <1>1 DEF RunOK, Finish, Row, Result
<1>5. WholeResult(row, dropped[a])
  BY <1>2, <1>3, <1>4 DEF WholeResult, Good
<1> HIDE DEF row
<1>6. /\ rows' \in [Run -> Row \cup {None}]
      /\ \A b \in Run : b # a => rows'[b] = rows[b]
      /\ rows'[a] = row \/ (rows' = rows /\ "lost" \in why')
  BY <1>2 DEF Finish, row
<1>7. Stop(a) /\ stage'[a] = "none" /\ why \subseteq why' /\ why' \subseteq why \cup {"lost"}
  BY DEF Finish, Stop
<1>8. RunOK(a)'
  BY <1>7 DEF RunOK
<1>9. RowOK(a)'
  <2>1. CASE rows'[a] = row
    <3>1. dropped' = dropped
      BY DEF Finish
    <3> QED
      BY <1>2, <1>3, <1>5, <1>7, <2>1, <3>1 DEF RowOK, Continues
  <2>2. CASE rows' = rows /\ "lost" \in why'
    BY <1>0, <1>7, <2>2 DEF RowOK, Lost
  <2> QED
    BY <1>6, <2>1, <2>2
<1>10. /\ UNCHANGED <<externalVars, profiles, dropped, actorVars>> /\ stage' \in [Run -> Stage]
       /\ mine' \in [Run -> Row \cup {None}] /\ cur' \in [Run -> Field \cup {None}]
       /\ home' \in [Run -> Actor \cup {None}]
       /\ \A b \in Run : b # a => /\ stage'[b] = stage[b] /\ mine'[b] = mine[b]
                                /\ cur'[b] = cur[b]
  BY <1>7 DEF Stop, Stage, Finish
<1>11. rows'[a] \in Row
  BY <1>1, <1>2, <1>6
<1>12. why' \subseteq Incident /\ ("stale" \in why' => "stale" \in why)
  BY <1>7 DEF Incident
<1> HIDE DEF AssessInv, AssessTypeOK
<1> QED
  BY <1>0, <1>6, <1>7, <1>8, <1>9, <1>10, <1>11, <1>12 DEF RunMoved

LEMMA EndMoves ==
    ASSUME AssessInv, NEW a \in Run, CommandEnds(a)
    PROVE  RunMoved(a)
<1> USE DEF AssessInv, AssessTypeOK
<1>0. RunOK(a) /\ RowOK(a) /\ stage[a] # "none" /\ rows' = rows
  BY DEF RunInv, CommandEnds
<1>1. Stop(a) /\ stage'[a] = "none" /\ why' = why \cup {"cli"}
  BY DEF CommandEnds, Stop
<1>2. RunOK(a)'
  BY <1>1 DEF RunOK
<1>3. RowOK(a)'
  BY <1>0, <1>1 DEF RowOK, Lost
<1> QED
  BY <1>0, <1>1, <1>2, <1>3 DEF RunMoved, Stage, Stop, Incident, CommandEnds

LEMMA RunsMove ==
    ASSUME AssessInv, NEW a \in Run,
           RunStep(a) \/ CommandEnds(a) \/ \E s \in Actor : Start(a, s)
    PROVE  RunMoved(a)
BY StartMoves, LoadRowMoves, AskingMoves, FinishMoves, EndMoves DEF RunStep

-----------------------------------------------------------------------------
(* What every step keeps. *)

(* What an operation works on. *)
LEMMA OpFacts ==
    ASSUME NEW o \in Ops
    PROVE  /\ o.do \in {"cancel", "apply", "import", "put", "reset"}
           /\ o.do \in {"cancel", "apply"} => o.on \in Run
           /\ o.do = "import" => o.on \in Proposal
           /\ o.do \in {"put", "reset"} => o.on \in ProfileId
           /\ o.fields \in SUBSET Field
<1>1. o \in Op
  BY AssessmentAssumption
<1> QED
  BY <1>1 DEF Op

LEMMA BusyDoes ==
    ASSUME AssessTypeOK, NEW s \in Actor, PlaceOK(s), place[s] # "idle"
    PROVE  op[s] \in Ops
<1>1. place[s] \in Place
  BY DEF AssessTypeOK
<1>2. CASE place[s] = "cancel"
  BY <1>2 DEF PlaceOK, Cancelling, Doing
<1>3. CASE place[s] = "mark"
  BY <1>3 DEF PlaceOK, Doing
<1>4. CASE place[s] \in {"record", "forget"}
  BY <1>4 DEF PlaceOK, Doing
<1>5. CASE place[s] \in {"load", "save"}
  BY <1>5 DEF PlaceOK, Doing
<1> QED
  BY <1>1, <1>2, <1>3, <1>4, <1>5 DEF Place

(* Rows stay, a run does not begin again, and unless Cancel writes over a    *)
(* newer row, a row whose run is over keeps its results and its proposal,    *)
(* whose missing parts are known.                                            *)
RowsStand ==
    /\ "stale" \in why => "stale" \in why'
    /\ \A a \in Run : dropped[a] \subseteq dropped'[a]
    /\ \A a \in Run : rows[a] \in Row =>
          /\ rows'[a] \in Row
          /\ stage'[a] = "load" => stage[a] = "load"
          /\ stage[a] = "none" =>
                /\ stage'[a] = "none"
                /\ "stale" \notin why' =>
                      /\ rows'[a].cats = rows[a].cats
                      /\ rows[a].proposal # None => rows'[a].proposal # None
                      /\ rows[a].applied # None => rows'[a].applied # None

(* What a proposal was built from and the record of its import are kept.     *)
ImportsStand ==
    /\ imports \subseteq imports' /\ imports' \subseteq Proposal
    /\ \A x \in Proposal : basis[x] \in Findings => basis'[x] = basis[x]

(* A whole result stays whole when more is known to be missing of it.       *)
LEMMA WholeStays ==
    ASSUME NEW row, NEW out, NEW more, WholeResult(row, out), out \subseteq more
    PROVE  WholeResult(row, more)
BY DEF WholeResult

(* So the places values come from stay what they are.                        *)
LEMMA SourcesStay ==
    ASSUME AssessInv, RowsStand, ImportsStand
    PROVE  /\ \A a \in Run, c \in Field : FromRow(a, c) => FromRow(a, c)'
           /\ \A x \in Proposal, c \in Field : FromImport(x, c) => FromImport(x, c)'
<1>1. ASSUME NEW a \in Run, NEW c \in Field, FromRow(a, c) PROVE FromRow(a, c)'
  <2>1. rows[a] \in Row /\ rows'[a] \in Row
    BY <1>1 DEF FromRow, RowsStand
  <2>2. ASSUME "stale" \notin why'
        PROVE  rows'[a].applied # None /\ rows'[a].proposal # None /\ c \in Good(rows'[a])
    <3>1. rows[a].applied # None /\ rows[a].proposal # None /\ c \in Good(rows[a])
      BY <1>1, <2>2 DEF FromRow, RowsStand
    <3>2. stage[a] = "none"
      BY <2>1, <3>1 DEF AssessInv, RunInv, RowOK
    <3> QED
      BY <2>1, <2>2, <3>1, <3>2 DEF RowsStand, Good
  <2> QED
    BY <2>1, <2>2 DEF FromRow, Good
<1>2. ASSUME NEW x \in Proposal, NEW c \in Field, FromImport(x, c) PROVE FromImport(x, c)'
  <2>1. x \in imports
    BY <1>2 DEF FromImport
  <2>2. x \in imports' /\ basis'[x] = basis[x]
    BY <2>1 DEF ImportsStand, AssessInv, ProposalInv, ProposalOK
  <2> QED
    BY <1>2, <2>2 DEF FromImport
<1> QED
  BY <1>1, <1>2

LEMMA TracedStays ==
    ASSUME AssessInv, RowsStand, ImportsStand, NEW config, Traced(config)
    PROVE  \A m \in ProfileId, c \in Field :
              /\ config[m]["assessment"][c] # None => FromRow(config[m]["assessment"][c], c)'
              /\ config[m]["external"][c] # None => FromImport(config[m]["external"][c], c)'
<1> SUFFICES ASSUME NEW m \in ProfileId, NEW c \in Field
             PROVE  /\ config[m]["assessment"][c] # None =>
                           FromRow(config[m]["assessment"][c], c)'
                    /\ config[m]["external"][c] # None =>
                           FromImport(config[m]["external"][c], c)'
  OBVIOUS
<1>1. ASSUME config[m]["assessment"][c] # None
      PROVE  FromRow(config[m]["assessment"][c], c)'
  <2>1. FromRow(config[m]["assessment"][c], c)
    BY <1>1 DEF Traced
  <2>2. config[m]["assessment"][c] \in Run
    BY <2>1 DEF FromRow
  <2> QED
    BY <2>1, <2>2, SourcesStay
<1>2. ASSUME config[m]["external"][c] # None
      PROVE  FromImport(config[m]["external"][c], c)'
  <2>1. FromImport(config[m]["external"][c], c)
    BY <1>2 DEF Traced
  <2>2. config[m]["external"][c] \in Proposal
    BY <2>1 DEF FromImport, AssessInv, AssessTypeOK
  <2> QED
    BY <2>1, <2>2, SourcesStay
<1> QED
  BY <1>1, <1>2

(* A request that another's step leaves where it is.                         *)
Still(t) ==
    /\ place'[t] = place[t] /\ op'[t] = op[t]
    /\ snap'[t] = snap[t] /\ copy'[t] = copy[t]

LEMMA OthersStay ==
    ASSUME AssessInv, RowsStand, ImportsStand, NEW t \in Actor, Still(t) \/ place'[t] = "idle"
    PROVE  PlaceOK(t)' /\ CopyOK(t)'
<1>1. CASE place'[t] = "idle"
  BY <1>1 DEF PlaceOK, CopyOK
<1>2. CASE Still(t) /\ place[t] # "idle"
  <2> USE DEF AssessInv, PlaceInv
  <2>0. PlaceOK(t) /\ op[t] \in Ops /\ CopyOK(t)
    BY <1>2, BusyDoes DEF ConfigInv
  <2>1. \A does : Doing(t, does) => Doing(t, does)'
    BY <1>2 DEF Still, Doing
  <2>2. ASSUME Cancelling(t) PROVE Cancelling(t)'
    <3> DEFINE a == op[t].on
    <3>1. /\ Doing(t, {"cancel"})' /\ a \in Run /\ rows[a] \in Row /\ snap[t] \in Row
          /\ stage[a] = "load" => Fresh(snap[t])
          /\ snap[t].proposal # None => stage[a] = "none" /\ WholeResult(snap[t], dropped[a])
      BY <2>0, <2>1, <2>2, OpFacts DEF Cancelling, Doing
    <3>2. /\ rows'[a] \in Row
          /\ stage'[a] = "load" => stage[a] = "load"
          /\ stage[a] = "none" => stage'[a] = "none"
          /\ dropped[a] \subseteq dropped'[a]
      BY <3>1 DEF RowsStand
    <3>3. op'[t] = op[t] /\ snap'[t] = snap[t]
      BY <1>2 DEF Still
    <3> QED
      BY <3>1, <3>2, <3>3, WholeStays DEF Cancelling, Fresh
  <2>3. ASSUME op[t].do = "apply", Applying(t) PROVE Applying(t)'
    <3> DEFINE a == op[t].on
    <3>1. /\ a \in Run /\ snap[t] \in Row /\ rows[a] \in Row /\ stage[a] = "none"
          /\ snap[t].status \in {"completed", "partial"}
          /\ snap[t].proposal # None /\ WholeResult(snap[t], dropped[a])
          /\ "stale" \notin why => rows[a].proposal # None /\ rows[a].cats = snap[t].cats
          /\ place[t] # "mark" /\ "stale" \notin why => rows[a].applied # None
      BY <2>0, <2>3, OpFacts DEF Applying
    <3>2. /\ rows'[a] \in Row /\ stage'[a] = "none"
          /\ "stale" \in why => "stale" \in why'
          /\ "stale" \notin why' =>
                /\ rows'[a].cats = rows[a].cats
                /\ rows[a].proposal # None => rows'[a].proposal # None
                /\ rows[a].applied # None => rows'[a].applied # None
          /\ dropped[a] \subseteq dropped'[a]
      BY <3>1 DEF RowsStand
    <3>3. op'[t] = op[t] /\ snap'[t] = snap[t] /\ place'[t] = place[t]
      BY <1>2 DEF Still
    <3> QED
      BY <3>1, <3>2, <3>3, WholeStays DEF Applying
  <2>4. ASSUME op[t].do = "import", Importing(t) PROVE Importing(t)'
    <3>1. op[t].on \in Proposal
      BY <2>0, <2>4, OpFacts
    <3> QED
      BY <1>2, <2>4, <3>1 DEF Importing, Still, ImportsStand
  <2>5. PlaceOK(t)'
    <3>1. op'[t] = op[t] /\ place'[t] = place[t]
      BY <1>2 DEF Still
    <3> QED
      BY <1>2, <2>0, <2>1, <2>2, <2>3, <2>4, <3>1 DEF PlaceOK
  <2>6. CopyOK(t)'
    BY <1>2, <2>0, TracedStays DEF CopyOK, Still, Traced
  <2> QED
    BY <2>5, <2>6
<1> QED
  BY <1>1, <1>2 DEF Still

LEMMA RunsKeep ==
    ASSUME AssessInv, NEW a \in Run, RunMoved(a)
    PROVE  AssessInv'
<1>1. AssessTypeOK'
  BY DEF AssessInv, AssessTypeOK, RunMoved, externalVars, actorVars
<1>2. RunInv'
  <2>1. ASSUME NEW b \in Run, b # a PROVE RunOK(b)' /\ RowOK(b)'
    <3>1. RunOK(b) /\ RowOK(b)
      BY DEF AssessInv, RunInv
    <3>2. /\ rows'[b] = rows[b] /\ stage'[b] = stage[b] /\ dropped' = dropped
          /\ mine'[b] = mine[b] /\ cur'[b] = cur[b] /\ (Lost => Lost')
      BY <2>1 DEF RunMoved, Lost
    <3>3. RunOK(b)'
      BY <3>1, <3>2 DEF RunOK, Fresh
    <3>4. RowOK(b)'
      BY <3>1, <3>2 DEF RowOK, Continues
    <3> QED
      BY <3>3, <3>4
  <2> QED
    BY <2>1 DEF RunInv, RunMoved
<1>3. RowsStand
  BY DEF RowsStand, RunMoved
<1>4. ImportsStand
  BY DEF ImportsStand, RunMoved, externalVars, AssessInv, AssessTypeOK
<1>5. PlaceInv' /\ \A t \in Actor : CopyOK(t)'
  BY <1>3, <1>4, OthersStay DEF PlaceInv, Still, RunMoved, actorVars
<1>6. ProposalInv'
  BY DEF AssessInv, ProposalInv, ProposalOK, RunMoved, externalVars
<1>7. Traced(profiles)'
  BY <1>3, <1>4, TracedStays DEF Traced, AssessInv, ConfigInv, RunMoved
<1> QED
  BY <1>1, <1>2, <1>5, <1>6, <1>7 DEF AssessInv, ConfigInv

(* The steps that leave every run and every row alone.                      *)
LEMMA RunsUntouched ==
    ASSUME AssessInv, UNCHANGED <<rows, runVars, dropped>>, why \subseteq why'
    PROVE  RunInv' /\ RowsStand
<1> USE DEF AssessInv, AssessTypeOK, runVars
<1>1. ASSUME NEW a \in Run PROVE RunOK(a)' /\ RowOK(a)'
  <2>1. RunOK(a) /\ RowOK(a) /\ (Lost => Lost')
    BY DEF RunInv, Lost
  <2>2. RunOK(a)'
    BY <2>1 DEF RunOK, Fresh
  <2>3. RowOK(a)'
    BY <2>1 DEF RowOK, Continues
  <2> QED
    BY <2>2, <2>3
<1>2. RowsStand
  BY DEF RowsStand
<1> QED
  BY <1>1, <1>2 DEF RunInv

-----------------------------------------------------------------------------
(* Proposals. *)

LEMMA ProposalsKeep ==
    ASSUME AssessInv, NEW x \in Proposal,
           Dismiss(x) \/ \E found \in Findings : Propose(x, found)
    PROVE  AssessInv'
<1> USE DEF AssessInv
<1>1. UNCHANGED <<rows, runVars, imports, profiles, dropped, actorVars, why>>
  BY DEF Dismiss, Propose
<1>2. RunInv' /\ RowsStand
  BY <1>1, RunsUntouched
<1>3. ASSUME NEW found \in Findings, Propose(x, found) PROVE AssessInv'
  <2>1. basis[x] \notin Findings /\ x \notin imports
    BY <1>3, AssessmentAssumption DEF Propose, ProposalInv, ProposalOK
  <2>2. AssessTypeOK'
    BY <1>1, <1>3, ProposedFields DEF AssessTypeOK, Propose, runVars, actorVars
  <2>3. ImportsStand
    BY <1>1, <1>3, <2>1 DEF ImportsStand, Propose, AssessTypeOK
  <2>4. ASSUME NEW y \in Proposal PROVE ProposalOK(y)'
    <3>1. CASE y = x
      BY <1>1, <1>3, <2>1, <3>1 DEF ProposalOK, Propose, AssessTypeOK
    <3>2. CASE y # x
      <4>1. ProposalOK(y)
        BY DEF ProposalInv
      <4> QED
        BY <1>1, <1>3, <3>2, <4>1 DEF ProposalOK, Propose, AssessTypeOK
    <3> QED
      BY <3>1, <3>2
  <2>5. PlaceInv' /\ \A t \in Actor : CopyOK(t)'
    BY <1>1, <1>2, <2>3, OthersStay DEF PlaceInv, Still, actorVars
  <2>6. Traced(profiles)'
    BY <1>1, <1>2, <2>3, TracedStays DEF Traced, ConfigInv
  <2> QED
    BY <1>2, <2>2, <2>4, <2>5, <2>6 DEF ProposalInv, ConfigInv
<1>4. ASSUME Dismiss(x) PROVE AssessInv'
  <2>1. AssessTypeOK'
    BY <1>1, <1>4 DEF AssessTypeOK, Dismiss, runVars, actorVars
  <2>2. ImportsStand
    BY <1>1, <1>4 DEF ImportsStand, Dismiss, AssessTypeOK
  <2>3. ProposalInv'
    BY <1>1, <1>4 DEF ProposalInv, ProposalOK, Dismiss, AssessTypeOK
  <2>4. PlaceInv' /\ \A t \in Actor : CopyOK(t)'
    BY <1>1, <1>2, <2>2, OthersStay DEF PlaceInv, Still, actorVars
  <2>5. Traced(profiles)'
    BY <1>1, <1>2, <2>2, TracedStays DEF Traced, ConfigInv
  <2> QED
    BY <1>2, <2>1, <2>3, <2>4, <2>5 DEF ConfigInv
<1> QED
  BY <1>3, <1>4

-----------------------------------------------------------------------------
(* Requests. *)

(* What AssessTypeOK says of the actors. *)
Acting ==
    /\ place \in [Actor -> Place] /\ op \in [Actor -> Ops \cup {None}]
    /\ snap \in [Actor -> Row \cup {None}]
    /\ copy \in [Actor -> [ProfileId -> Entry] \cup {None}]
    /\ begun \in 0..MaxRequests

(* A step of one request keeps the invariant when it keeps what is said of   *)
(* the tables and of that request.                                           *)
LEMMA RequestKeeps ==
    ASSUME AssessInv, RowsStand, ImportsStand, NEW s \in Actor,
           \A t \in Actor : t # s => Still(t), PlaceOK(s)', CopyOK(s)'
    PROVE  PlaceInv' /\ \A t \in Actor : CopyOK(t)'
BY OthersStay DEF PlaceInv

LEMMA Returning ==
    ASSUME AssessInv, NEW s \in Actor, Return(s)
    PROVE  /\ Acting' /\ place'[s] = "idle"
           /\ \A t \in Actor : t # s => Still(t)
           /\ PlaceOK(s)' /\ CopyOK(s)'
<1>1. Acting' /\ place'[s] = "idle" /\ \A t \in Actor : t # s => Still(t)
  BY DEF Return, Goto, AssessInv, AssessTypeOK, Acting, Still, Place
<1> QED
  BY <1>1 DEF PlaceOK, CopyOK

LEMMA Taking ==
    ASSUME AssessInv, NEW s \in Actor, NEW o \in Ops, NEW p \in Place, NEW row, NEW config,
           Take(s, o, p, row, config), row \in Row \cup {None},
           config \in [ProfileId -> Entry] \cup {None}
    PROVE  /\ Acting' /\ place'[s] = p /\ op'[s] = o /\ snap'[s] = row /\ copy'[s] = config
           /\ \A t \in Actor : t # s => Still(t)
           /\ UNCHANGED <<rows, runVars, externalVars, profiles, dropped, why>>
<1>1. begun' \in 0..MaxRequests
  BY AssessmentAssumption DEF Take, AssessInv, AssessTypeOK
<1> QED
  BY <1>1 DEF Take, Goto, AssessInv, AssessTypeOK, Acting, Still

LEMMA BeginsKeep ==
    ASSUME AssessInv, NEW s \in Actor, NEW o \in Ops, NEW p \in Place, NEW row, NEW config,
           Take(s, o, p, row, config), row \in Row \cup {None},
           config \in [ProfileId -> Entry] \cup {None},
           PlaceOK(s)', p # "forget",
           p = "save" \/ (s \in Cli /\ p = "record") => config = profiles
    PROVE  AssessInv'
<1> USE DEF AssessInv
<1>1. /\ Acting' /\ place'[s] = p /\ copy'[s] = config
      /\ \A t \in Actor : t # s => Still(t)
      /\ UNCHANGED <<rows, runVars, externalVars, profiles, dropped, why>>
  BY Taking
<1>2. RunInv' /\ RowsStand
  BY <1>1, RunsUntouched
<1>3. ImportsStand
  BY <1>1 DEF ImportsStand, externalVars, AssessTypeOK
<1>4. Traced(profiles)'
  BY <1>1, <1>2, <1>3, TracedStays DEF Traced, ConfigInv
<1>5. CopyOK(s)'
  BY <1>1, <1>4 DEF CopyOK, Traced, AssessTypeOK
<1>6. PlaceInv' /\ \A t \in Actor : CopyOK(t)'
  BY <1>1, <1>2, <1>3, <1>5, RequestKeeps
<1>7. AssessTypeOK'
  BY <1>1 DEF AssessTypeOK, Acting, runVars, externalVars
<1>8. ProposalInv'
  BY <1>1 DEF ProposalInv, ProposalOK, externalVars
<1> QED
  BY <1>2, <1>6, <1>7, <1>8, <1>4 DEF ConfigInv

LEMMA BeginCancelKeeps ==
    ASSUME AssessInv, NEW s \in Actor, NEW o \in Ops, BeginCancel(s, o)
    PROVE  AssessInv'
<1> DEFINE a == o.on
<1>1. /\ o.do = "cancel" /\ a \in Run /\ rows[a] # None
      /\ Take(s, o, "cancel", rows[a], None)
  BY OpFacts DEF BeginCancel
<1>2. rows[a] \in Row /\ RunOK(a) /\ RowOK(a)
  BY <1>1 DEF AssessInv, AssessTypeOK, RunInv
<1>3. /\ place'[s] = "cancel" /\ op'[s] = o /\ snap'[s] = rows[a]
      /\ rows' = rows /\ stage' = stage /\ dropped' = dropped
  BY <1>1, <1>2, Taking DEF Place, runVars
<1>4. Cancelling(s)'
  <2>1. Doing(s, {"cancel"})'
    BY <1>1, <1>3 DEF Doing
  <2>2. stage[a] = "load" => Fresh(rows[a])
    BY <1>2 DEF RunOK
  <2>3. rows[a].proposal # None => stage[a] = "none" /\ WholeResult(rows[a], dropped[a])
    BY <1>2 DEF RowOK
  <2> QED
    BY <1>2, <1>3, <2>1, <2>2, <2>3 DEF Cancelling, Fresh
<1>5. PlaceOK(s)'
  BY <1>1, <1>3, <1>4 DEF PlaceOK
<1> QED
  BY <1>1, <1>2, <1>5, BeginsKeep DEF Place

LEMMA BeginApplyKeeps ==
    ASSUME AssessInv, NEW s \in Actor, NEW o \in Ops, BeginApply(s, o)
    PROVE  AssessInv'
<1> DEFINE a == o.on
<1>1. /\ o.do = "apply" /\ a \in Run /\ rows[a] # None /\ rows[a].proposal # None
      /\ rows[a].status \in {"completed", "partial"}
      /\ Take(s, o, "mark", rows[a], None)
  BY OpFacts DEF BeginApply
<1>2. rows[a] \in Row /\ stage[a] = "none" /\ WholeResult(rows[a], dropped[a])
  BY <1>1 DEF AssessInv, AssessTypeOK, RunInv, RowOK
<1>3. /\ place'[s] = "mark" /\ op'[s] = o /\ snap'[s] = rows[a]
      /\ rows' = rows /\ stage' = stage /\ dropped' = dropped
  BY <1>1, <1>2, Taking DEF Place, runVars
<1>4. Applying(s)'
  BY <1>1, <1>2, <1>3 DEF Applying
<1>5. PlaceOK(s)'
  BY <1>1, <1>3, <1>4 DEF PlaceOK, Doing
<1> QED
  BY <1>1, <1>2, <1>5, BeginsKeep DEF Place

LEMMA FirstCopyTyped ==
    ASSUME AssessInv, NEW s \in Actor
    PROVE  /\ FirstCopy(s) \in [ProfileId -> Entry] \cup {None}
           /\ s \in Cli => FirstCopy(s) = profiles
BY DEF FirstCopy, AssessInv, AssessTypeOK

LEMMA BeginImportKeeps ==
    ASSUME AssessInv, NEW s \in Actor, NEW o \in Ops, BeginImport(s, o)
    PROVE  AssessInv'
<1> DEFINE x == o.on
<1>1. /\ o.do = "import" /\ x \in Proposal /\ offered[x] # None /\ x \notin review
      /\ Take(s, o, "record", None, FirstCopy(s))
  BY OpFacts DEF BeginImport, MayImport
<1>2. basis[x] \in Findings /\ ~MandatoryReview(Identity, basis[x])
  BY <1>1 DEF AssessInv, ProposalInv, ProposalOK
<1>3. place'[s] = "record" /\ op'[s] = o /\ basis' = basis /\ imports' = imports
  BY <1>1, FirstCopyTyped, Taking DEF Place, externalVars
<1>4. Importing(s)'
  BY <1>2, <1>3 DEF Importing
<1>5. PlaceOK(s)'
  BY <1>1, <1>3, <1>4 DEF PlaceOK, Doing
<1> QED
  BY <1>1, <1>5, FirstCopyTyped, BeginsKeep DEF Place

LEMMA BeginEditKeeps ==
    ASSUME AssessInv, NEW s \in Actor, NEW o \in Ops, BeginEdit(s, o)
    PROVE  AssessInv'
<1> DEFINE p == IF s \in Cli THEN "save" ELSE "load"
<1>1. o.do \in {"put", "reset"} /\ Take(s, o, p, None, FirstCopy(s)) /\ p \in Place
  BY DEF BeginEdit, Place
<1>2. place'[s] = p /\ op'[s] = o
  BY <1>1, FirstCopyTyped, Taking
<1>3. PlaceOK(s)'
  BY <1>1, <1>2 DEF PlaceOK, Doing
<1>4. p = "save" => FirstCopy(s) = profiles
  BY FirstCopyTyped
<1>5. p # "record" /\ p # "forget"
  OBVIOUS
<1> HIDE DEF p
<1> QED
  BY <1>1, <1>3, <1>4, <1>5, FirstCopyTyped, BeginsKeep

LEMMA CancelRowKeeps ==
    ASSUME AssessInv, NEW s \in Actor, CancelRow(s)
    PROVE  AssessInv'
<1> USE DEF AssessInv, PlaceInv
<1> DEFINE row == [snap[s] EXCEPT !.status = "cancelled"]
<1>0. PlaceOK(s) /\ place[s] = "cancel"
  BY DEF CancelRow
<1>a. PICK a \in Run : a = op[s].on
  BY <1>0, OpFacts DEF PlaceOK, Cancelling, Doing
<1>1. /\ snap[s] \in Row /\ rows[a] \in Row
      /\ stage[a] = "load" => Fresh(snap[s])
      /\ snap[s].proposal # None => stage[a] = "none" /\ WholeResult(snap[s], dropped[a])
  BY <1>0, <1>a DEF PlaceOK, Cancelling
<1>2. /\ row \in Row /\ row.status = "cancelled" /\ row.proposal = snap[s].proposal
      /\ row.applied = snap[s].applied /\ row.cats = snap[s].cats
  BY <1>1 DEF Row, Status
<1> HIDE DEF row
<1>3. /\ rows' = [rows EXCEPT ![a] = row]
      /\ why' = why \cup {w \in {"stale"} : rows[a] # snap[s]}
      /\ UNCHANGED <<runVars, externalVars, profiles, dropped>> /\ Return(s)
  BY <1>a DEF CancelRow, row
<1>4. rows' \in [Run -> Row \cup {None}] /\ rows'[a] = row
      /\ \A b \in Run : b # a => rows'[b] = rows[b]
  BY <1>1, <1>2, <1>3 DEF AssessTypeOK
<1>5. stage' = stage /\ mine' = mine /\ cur' = cur /\ home' = home
  BY <1>3 DEF runVars
<1>6. RunInv'
  <2>1. ASSUME NEW b \in Run, b # a PROVE RunOK(b)' /\ RowOK(b)'
    <3>1. RunOK(b) /\ RowOK(b) /\ rows'[b] = rows[b] /\ (Lost => Lost')
      BY <1>3, <1>4, <2>1 DEF RunInv, Lost
    <3>2. RunOK(b)'
      BY <1>5, <3>1 DEF RunOK, Fresh
    <3>3. RowOK(b)'
      BY <1>3, <1>5, <3>1 DEF RowOK, Continues
    <3> QED
      BY <3>2, <3>3
  <2>2. RunOK(a)'
    <3>1. RunOK(a)
      BY <1>1 DEF RunInv
    <3> QED
      BY <1>1, <1>2, <1>4, <1>5, <3>1 DEF RunOK, Fresh
  <2>3. RowOK(a)'
    <3>1. row.proposal # None => WholeResult(row, dropped[a])
      BY <1>1, <1>2 DEF WholeResult, Good
    <3> QED
      BY <1>1, <1>2, <1>3, <1>4, <1>5, <3>1 DEF RowOK, Continues
  <2> QED
    BY <2>1, <2>2, <2>3 DEF RunInv
<1>7. RowsStand
  <2>1. "stale" \notin why' => rows[a] = snap[s]
    BY <1>3
  <2> QED
    BY <1>1, <1>2, <1>3, <1>4, <1>5, <2>1 DEF RowsStand
<1>8. ImportsStand
  BY <1>3 DEF ImportsStand, externalVars, AssessTypeOK
<1>9. /\ Acting' /\ \A t \in Actor : t # s => Still(t)
      /\ PlaceOK(s)' /\ CopyOK(s)'
  BY <1>3, Returning
<1>10. PlaceInv' /\ \A t \in Actor : CopyOK(t)'
  BY <1>7, <1>8, <1>9, RequestKeeps
<1>11. AssessTypeOK'
  <2>1. why' \subseteq Incident
    BY <1>3 DEF AssessTypeOK, Incident
  <2> QED
    BY <1>3, <1>4, <1>9, <2>1 DEF AssessTypeOK, Acting, runVars, externalVars
<1>12. ProposalInv'
  BY <1>3 DEF ProposalInv, ProposalOK, externalVars
<1>13. Traced(profiles)'
  BY <1>3, <1>7, <1>8, TracedStays DEF Traced, ConfigInv
<1> QED
  BY <1>6, <1>10, <1>11, <1>12, <1>13 DEF ConfigInv

LEMMA MarkAppliedKeeps ==
    ASSUME AssessInv, NEW s \in Actor, MarkApplied(s)
    PROVE  AssessInv'
<1> USE DEF AssessInv, PlaceInv
<1> DEFINE fields == AppliedFields(snap[s], op[s])
           kept == Accepted(s)
           row == [snap[s] EXCEPT !.applied = fields, !.proposal = kept]
<1>0. PlaceOK(s) /\ place[s] = "mark" /\ op[s] \in Ops /\ op[s].do = "apply"
  BY DEF MarkApplied, PlaceOK, Doing
<1>a. PICK a \in Run : a = op[s].on
  BY <1>0, OpFacts
<1> DEFINE out == dropped[a] \cup (snap[s].proposal \ kept)
<1>1. /\ snap[s] \in Row /\ rows[a] \in Row /\ stage[a] = "none"
      /\ snap[s].status \in {"completed", "partial"}
      /\ snap[s].proposal # None /\ WholeResult(snap[s], dropped[a])
      /\ "stale" \notin why => rows[a].proposal # None /\ rows[a].cats = snap[s].cats
  BY <1>0, <1>a DEF PlaceOK, Applying
<1>2. /\ fields \in SUBSET Field /\ fields # None
      /\ kept \in SUBSET Field /\ kept # None /\ kept \subseteq snap[s].proposal
  <2>1. fields \in SUBSET Field
    BY <1>0, OpFacts DEF AppliedFields, Good
  <2>2. kept \subseteq snap[s].proposal /\ snap[s].proposal \subseteq Field
    BY <1>0, <1>1 DEF Accepted, WholeResult, Good
  <2> QED
    BY <2>1, <2>2, AssessmentAssumption
<1> HIDE DEF fields, kept
<1>3. /\ row \in Row /\ row.status = snap[s].status /\ row.proposal = kept
      /\ row.applied # None /\ row.cats = snap[s].cats
  BY <1>1, <1>2 DEF Row
<1>b. WholeResult(row, out)
  BY <1>1, <1>2, <1>3 DEF WholeResult, Good
<1>4. /\ rows' = [rows EXCEPT ![a] = row] /\ place' = [place EXCEPT ![s] = "load"]
      /\ dropped' = [dropped EXCEPT ![a] = out]
      /\ UNCHANGED <<runVars, externalVars, profiles, op, snap, copy, begun, why>>
  BY <1>a DEF MarkApplied, Goto, fields, kept
<1> HIDE DEF row
<1>c. /\ dropped' \in [Run -> SUBSET Field] /\ dropped'[a] = out
      /\ \A b \in Run : dropped[b] \subseteq dropped'[b]
      /\ \A b \in Run : b # a => dropped'[b] = dropped[b]
  <2>1. out \in SUBSET Field
    BY <1>1 DEF AssessTypeOK, WholeResult, Good
  <2> QED
    BY <1>4, <2>1 DEF AssessTypeOK
<1> HIDE DEF out
<1>5. rows' \in [Run -> Row \cup {None}] /\ rows'[a] = row
      /\ \A b \in Run : b # a => rows'[b] = rows[b]
  BY <1>1, <1>3, <1>4 DEF AssessTypeOK
<1>6. stage' = stage /\ mine' = mine /\ cur' = cur /\ home' = home
  BY <1>4 DEF runVars
<1>7. RunInv'
  <2>1. ASSUME NEW b \in Run, b # a PROVE RunOK(b)' /\ RowOK(b)'
    <3>1. RunOK(b) /\ RowOK(b) /\ rows'[b] = rows[b] /\ (Lost => Lost')
      BY <1>4, <1>5, <2>1 DEF RunInv, Lost
    <3>2. RunOK(b)'
      BY <1>6, <3>1 DEF RunOK, Fresh
    <3>3. RowOK(b)'
      BY <1>6, <1>c, <2>1, <3>1 DEF RowOK, Continues
    <3> QED
      BY <3>2, <3>3
  <2>2. RunOK(a)'
    BY <1>1, <1>6 DEF RunOK
  <2>3. RowOK(a)'
    BY <1>1, <1>2, <1>3, <1>5, <1>6, <1>b, <1>c DEF RowOK, Continues
  <2> QED
    BY <2>1, <2>2, <2>3 DEF RunInv
<1>8. RowsStand
  BY <1>1, <1>2, <1>3, <1>4, <1>5, <1>6, <1>c DEF RowsStand
<1>9. ImportsStand
  BY <1>4 DEF ImportsStand, externalVars, AssessTypeOK
<1>10. Acting' /\ \A t \in Actor : t # s => Still(t)
  BY <1>4 DEF AssessTypeOK, Acting, Place, Still
<1>11. place'[s] = "load" /\ op' = op /\ snap' = snap
  BY <1>4 DEF AssessTypeOK
<1>12. Applying(s)'
  <2>1. op'[s].on = a /\ snap'[s] = snap[s]
    BY <1>11, <1>a
  <2>2. WholeResult(snap[s], dropped'[a])
    BY <1>1, <1>c, WholeStays
  <2>3. /\ rows'[a] \in Row /\ rows'[a].proposal # None /\ rows'[a].cats = snap[s].cats
        /\ rows'[a].applied # None
    BY <1>2, <1>3, <1>5
  <2> QED
    BY <1>1, <1>6, <2>1, <2>2, <2>3 DEF Applying
<1>13. PlaceOK(s)' /\ CopyOK(s)'
  BY <1>0, <1>11, <1>12 DEF PlaceOK, CopyOK, Doing
<1>14. PlaceInv' /\ \A t \in Actor : CopyOK(t)'
  BY <1>8, <1>9, <1>10, <1>13, RequestKeeps
<1>15. AssessTypeOK'
  BY <1>4, <1>5, <1>10, <1>c DEF AssessTypeOK, Acting, runVars, externalVars
<1>16. ProposalInv'
  BY <1>4 DEF ProposalInv, ProposalOK, externalVars
<1>17. Traced(profiles)'
  BY <1>4, <1>8, <1>9, TracedStays DEF Traced, ConfigInv
<1> QED
  BY <1>7, <1>14, <1>15, <1>16, <1>17 DEF ConfigInv

(* Steps that leave the runs, their rows and the incidents alone.           *)
LEMMA RecordImportKeeps ==
    ASSUME AssessInv, NEW s \in Actor, RecordImport(s)
    PROVE  AssessInv'
<1> USE DEF AssessInv, PlaceInv
<1>0. PlaceOK(s) /\ CopyOK(s) /\ place[s] = "record" /\ op[s] \in Ops /\ op[s].do = "import"
  BY DEF RecordImport, PlaceOK, Doing, ConfigInv
<1>1. PICK x \in Proposal : x = op[s].on
  BY <1>0, OpFacts
<1>2. basis[x] \in Findings /\ ~MandatoryReview(Identity, basis[x])
  BY <1>0, <1>1 DEF PlaceOK, Importing
<1>3. /\ imports' = imports \cup {x} /\ place' = [place EXCEPT ![s] = "forget"]
      /\ UNCHANGED <<rows, runVars, offered, review, basis, profiles, dropped, op, snap, copy, begun, why>>
  BY <1>1 DEF RecordImport, Goto
<1>4. RunInv' /\ RowsStand
  BY <1>3, RunsUntouched
<1>5. ImportsStand
  BY <1>3 DEF ImportsStand, AssessTypeOK
<1>6. Acting' /\ \A t \in Actor : t # s => Still(t)
  BY <1>3 DEF AssessTypeOK, Acting, Place, Still
<1>7. place'[s] = "forget" /\ op' = op /\ copy' = copy
  BY <1>3 DEF AssessTypeOK
<1>8. Importing(s)'
  BY <1>1, <1>2, <1>3, <1>7 DEF Importing
<1>9. PlaceOK(s)'
  BY <1>0, <1>7, <1>8 DEF PlaceOK, Doing
<1>10. CopyOK(s)'
  BY <1>0, <1>4, <1>5, <1>7, TracedStays DEF CopyOK, Traced
<1>11. PlaceInv' /\ \A t \in Actor : CopyOK(t)'
  BY <1>4, <1>5, <1>6, <1>9, <1>10, RequestKeeps
<1>12. AssessTypeOK'
  BY <1>3, <1>6 DEF AssessTypeOK, Acting, runVars
<1>13. ProposalInv'
  BY <1>2, <1>3 DEF ProposalInv, ProposalOK
<1>14. Traced(profiles)'
  BY <1>3, <1>4, <1>5, TracedStays DEF Traced, ConfigInv
<1> QED
  BY <1>4, <1>11, <1>12, <1>13, <1>14 DEF ConfigInv

LEMMA ForgetKeeps ==
    ASSUME AssessInv, NEW s \in Actor, Forget(s)
    PROVE  AssessInv'
<1> USE DEF AssessInv, PlaceInv
<1> DEFINE p == IF s \in Cli THEN "save" ELSE "load"
<1>0. PlaceOK(s) /\ CopyOK(s) /\ place[s] = "forget" /\ op[s] \in Ops /\ op[s].do = "import"
  BY DEF Forget, PlaceOK, Doing, ConfigInv
<1>1. PICK x \in Proposal : x = op[s].on
  BY <1>0, OpFacts
<1>2. Importing(s)
  BY <1>0 DEF PlaceOK
<1>3. /\ offered' = [offered EXCEPT ![x] = None] /\ place' = [place EXCEPT ![s] = p]
      /\ UNCHANGED <<rows, runVars, review, basis, imports, profiles, dropped, op, snap, copy, begun, why>>
  BY <1>1 DEF Forget, Goto
<1>4. RunInv' /\ RowsStand
  BY <1>3, RunsUntouched
<1>5. ImportsStand
  BY <1>3 DEF ImportsStand, AssessTypeOK
<1>6. Acting' /\ \A t \in Actor : t # s => Still(t)
  BY <1>3 DEF AssessTypeOK, Acting, Place, Still
<1>7. place'[s] = p /\ op' = op /\ copy' = copy /\ p \in {"save", "load"}
      /\ (p = "save" => s \in Cli)
  BY <1>3 DEF AssessTypeOK
<1> HIDE DEF p
<1>8. Importing(s)'
  BY <1>0, <1>2, <1>3, <1>7 DEF Importing
<1>9. PlaceOK(s)'
  BY <1>0, <1>7, <1>8 DEF PlaceOK, Doing
<1>10. CopyOK(s)'
  BY <1>0, <1>4, <1>5, <1>7, TracedStays DEF CopyOK, Traced
<1>11. PlaceInv' /\ \A t \in Actor : CopyOK(t)'
  BY <1>4, <1>5, <1>6, <1>9, <1>10, RequestKeeps
<1>12. AssessTypeOK'
  BY <1>3, <1>6 DEF AssessTypeOK, Acting, runVars
<1>13. ProposalInv'
  BY <1>3 DEF ProposalInv, ProposalOK, AssessTypeOK
<1>14. Traced(profiles)'
  BY <1>3, <1>4, <1>5, TracedStays DEF Traced, ConfigInv
<1> QED
  BY <1>4, <1>11, <1>12, <1>13, <1>14 DEF ConfigInv

LEMMA LoadKeeps ==
    ASSUME AssessInv, NEW s \in Actor, Load(s)
    PROVE  AssessInv'
<1> USE DEF AssessInv, PlaceInv
<1>0. /\ PlaceOK(s) /\ place[s] = "load" /\ op[s] \in Ops
      /\ op[s].do \in {"apply", "import", "put", "reset"}
  BY DEF Load, PlaceOK, Doing
<1>1. /\ copy' = [copy EXCEPT ![s] = profiles] /\ place' = [place EXCEPT ![s] = "save"]
      /\ UNCHANGED <<rows, runVars, externalVars, profiles, dropped, op, snap, begun, why>>
  BY DEF Load, Goto
<1>2. RunInv' /\ RowsStand
  BY <1>1, RunsUntouched
<1>3. ImportsStand
  BY <1>1 DEF ImportsStand, externalVars, AssessTypeOK
<1>4. Acting' /\ \A t \in Actor : t # s => Still(t)
  BY <1>1 DEF AssessTypeOK, Acting, Place, Still
<1>5. place'[s] = "save" /\ op' = op /\ snap' = snap /\ copy'[s] = profiles
  BY <1>1 DEF AssessTypeOK
<1>6. ASSUME op[s].do = "apply" PROVE Applying(s)'
  <2>1. Applying(s)
    BY <1>0, <1>6 DEF PlaceOK
  <2> QED
    BY <1>0, <1>1, <1>5, <2>1 DEF Applying, runVars
<1>7. ASSUME op[s].do = "import" PROVE Importing(s)'
  BY <1>0, <1>1, <1>5, <1>7 DEF PlaceOK, Importing, externalVars
<1>8. PlaceOK(s)'
  BY <1>0, <1>5, <1>6, <1>7 DEF PlaceOK, Doing
<1>9. Traced(profiles)'
  BY <1>1, <1>2, <1>3, TracedStays DEF Traced, ConfigInv
<1>10. CopyOK(s)'
  BY <1>1, <1>5, <1>9 DEF CopyOK, AssessTypeOK, Traced
<1>11. PlaceInv' /\ \A t \in Actor : CopyOK(t)'
  BY <1>2, <1>3, <1>4, <1>8, <1>10, RequestKeeps
<1>12. AssessTypeOK'
  BY <1>1, <1>4 DEF AssessTypeOK, Acting, runVars, externalVars
<1>13. ProposalInv'
  BY <1>1 DEF ProposalInv, ProposalOK, externalVars
<1> QED
  BY <1>2, <1>9, <1>11, <1>12, <1>13 DEF ConfigInv

(* The steps a request ends with.                                           *)
LEMMA EndsKeep ==
    ASSUME AssessInv, NEW s \in Actor, Return(s), UNCHANGED <<rows, runVars, externalVars, dropped>>,
           why \subseteq why', why' \subseteq Incident,
           profiles' \in [ProfileId -> Entry], Traced(profiles)'
    PROVE  AssessInv'
<1> USE DEF AssessInv
<1>1. RunInv' /\ RowsStand
  BY RunsUntouched
<1>2. ImportsStand
  BY DEF ImportsStand, externalVars, AssessTypeOK
<1>3. /\ Acting' /\ \A t \in Actor : t # s => Still(t)
      /\ PlaceOK(s)' /\ CopyOK(s)'
  BY Returning
<1>4. PlaceInv' /\ \A t \in Actor : CopyOK(t)'
  BY <1>1, <1>2, <1>3, RequestKeeps
<1>5. AssessTypeOK'
  BY <1>3 DEF AssessTypeOK, Acting, runVars, externalVars
<1>6. ProposalInv'
  BY DEF ProposalInv, ProposalOK, externalVars
<1> QED
  BY <1>1, <1>4, <1>5, <1>6 DEF ConfigInv

LEMMA StopsKeep ==
    ASSUME AssessInv, NEW s \in Actor, LoadRefuses(s) \/ RequestFails(s)
    PROVE  AssessInv'
<1>1. Return(s) /\ UNCHANGED <<rows, runVars, externalVars, profiles, dropped, why>>
  BY DEF LoadRefuses, RequestFails
<1>2. RunInv' /\ RowsStand
  BY <1>1, RunsUntouched
<1>3. ImportsStand
  BY <1>1 DEF ImportsStand, externalVars, AssessInv, AssessTypeOK
<1>4. Traced(profiles)'
  BY <1>1, <1>2, <1>3, TracedStays DEF Traced, AssessInv, ConfigInv
<1>5. profiles' \in [ProfileId -> Entry] /\ why' \subseteq Incident
  BY <1>1 DEF AssessInv, AssessTypeOK
<1> QED
  BY <1>1, <1>4, <1>5, EndsKeep

(* An edit keeps an entry an entry. *)
LEMMA MergeEntry ==
    ASSUME NEW entry \in Entry, NEW l \in Layer, NEW fields, NEW x \in Value
    PROVE  /\ Merge(entry, l, fields, x) \in Entry
           /\ \A c \in Field : Merge(entry, l, fields, x)[l][c] =
                                    IF c \in fields THEN x ELSE entry[l][c]
           /\ \A k \in Layer : k # l => Merge(entry, l, fields, x)[k] = entry[k]
BY DEF Merge, Entry

LEMMA DropEntry ==
    ASSUME NEW entry \in Entry
    PROVE  /\ DropUser(entry) \in Entry
           /\ \A k \in Layer : k # "user" => DropUser(entry)[k] = entry[k]
BY DEF DropUser, Entry, Layer

(* What a save adds has a source, and only an operator's own edits touch the *)
(* user layer.                                                               *)
LEMMA EditedTraced ==
    ASSUME AssessInv, NEW s \in Actor, place[s] = "save"
    PROVE  /\ Target(op[s]) \in ProfileId /\ Edited(s) \in Entry
           /\ op[s].do \notin {"put", "reset"} =>
                 Edited(s)["user"] = copy[s][Target(op[s])]["user"]
           /\ op[s].do \in {"put", "reset"} => Target(op[s]) = op[s].on
           /\ \A c \in Field :
                 /\ Edited(s)["assessment"][c] # None => FromRow(Edited(s)["assessment"][c], c)
                 /\ Edited(s)["external"][c] # None => FromImport(Edited(s)["external"][c], c)
<1> DEFINE o == op[s]
           x == o.on
           entry == copy[s][Target(o)]
<1>1. /\ PlaceOK(s) /\ CopyOK(s) /\ op[s] \in Ops
      /\ o.do \in {"apply", "import", "put", "reset"}
  BY DEF AssessInv, PlaceInv, ConfigInv, PlaceOK, Doing
<1>2. copy[s] \in [ProfileId -> Entry] /\ Traced(copy[s])
  BY <1>1 DEF CopyOK
<1>3. /\ Target(o) \in ProfileId
      /\ o.do \in {"put", "reset"} => Target(o) = x /\ x \in ProfileId
      /\ o.do = "apply" => x \in Run
      /\ o.do = "import" => x \in Proposal
  BY <1>1, OpFacts, AssessmentAssumption DEF Target
<1>4. /\ entry \in Entry
      /\ \A c \in Field :
            /\ entry["assessment"][c] # None => FromRow(entry["assessment"][c], c)
            /\ entry["external"][c] # None => FromImport(entry["external"][c], c)
  BY <1>2, <1>3 DEF Traced
<1>5. x \in Run \cup Proposal => x \in Value
  BY AssessmentAssumption
<1>6. Manual \in Value
  BY AssessmentAssumption
<1> HIDE DEF entry
<1>7. CASE o.do = "apply"
  <2>1. Edited(s) = Merge(entry, "assessment", Accepted(s), x)
    BY <1>7 DEF Edited, entry
  <2>2. ASSUME NEW c \in Accepted(s) PROVE FromRow(x, c)
    <3>1. Applying(s)
      BY <1>1, <1>7 DEF PlaceOK
    <3>2. c \in Good(snap[s])
      BY <1>7, <2>2, <3>1 DEF Accepted, Applying, WholeResult
    <3> QED
      BY <1>1, <1>3, <1>7, <3>1, <3>2 DEF Applying, FromRow, Good
  <2>3. /\ Edited(s) \in Entry
        /\ \A c \in Field : Edited(s)["assessment"][c] =
                               IF c \in Accepted(s) THEN x ELSE entry["assessment"][c]
        /\ Edited(s)["external"] = entry["external"] /\ Edited(s)["user"] = entry["user"]
    BY <1>3, <1>4, <1>5, <1>7, <2>1, MergeEntry DEF Layer
  <2> QED
    BY <1>3, <1>4, <1>7, <2>2, <2>3 DEF entry
<1>8. CASE o.do = "import"
  <2>1. Edited(s) = Merge(entry, "external", Accepted(s), x)
    BY <1>8 DEF Edited, entry
  <2>2. ASSUME NEW c \in Accepted(s) PROVE FromImport(x, c)
    <3>1. Importing(s)
      BY <1>1, <1>8 DEF PlaceOK
    <3>2. c \in Proposed(Identity, basis[x])
      BY <1>8, <2>2 DEF Accepted
    <3> QED
      BY <3>1, <3>2, ProposedTraced DEF Importing, FromImport
  <2>3. /\ Edited(s) \in Entry
        /\ \A c \in Field : Edited(s)["external"][c] =
                               IF c \in Accepted(s) THEN x ELSE entry["external"][c]
        /\ Edited(s)["assessment"] = entry["assessment"] /\ Edited(s)["user"] = entry["user"]
    BY <1>3, <1>4, <1>5, <1>8, <2>1, MergeEntry DEF Layer
  <2> QED
    BY <1>3, <1>4, <1>8, <2>2, <2>3 DEF entry
<1>9. CASE o.do = "put"
  <2>1. Edited(s) = Merge(entry, "user", o.fields, Manual)
    BY <1>9 DEF Edited, entry
  <2>2. /\ Edited(s) \in Entry /\ Edited(s)["external"] = entry["external"]
        /\ Edited(s)["assessment"] = entry["assessment"]
    BY <1>4, <1>6, <2>1, MergeEntry DEF Layer
  <2> QED
    BY <1>3, <1>4, <1>9, <2>2
<1>10. CASE o.do = "reset"
  <2>1. Edited(s) = DropUser(entry)
    BY <1>10 DEF Edited, entry
  <2>2. /\ Edited(s) \in Entry /\ Edited(s)["external"] = entry["external"]
        /\ Edited(s)["assessment"] = entry["assessment"]
    BY <1>4, <2>1, DropEntry DEF Layer
  <2> QED
    BY <1>3, <1>4, <1>10, <2>2
<1> QED
  BY <1>1, <1>7, <1>8, <1>9, <1>10

LEMMA SaveKeeps ==
    ASSUME AssessInv, NEW s \in Actor, Save(s)
    PROVE  AssessInv'
<1>0. PICK m \in ProfileId : m = Target(op[s])
  BY EditedTraced DEF Save
<1> DEFINE entry == Edited(s)
<1>1. /\ place[s] = "save" /\ Return(s) /\ UNCHANGED <<rows, runVars, externalVars, dropped>>
      /\ profiles' = [copy[s] EXCEPT ![m] = entry]
      /\ why \subseteq why' /\ why' \subseteq why \cup {"overlap"}
  BY <1>0 DEF Save
<1>2. entry \in Entry /\ \A c \in Field :
         /\ entry["assessment"][c] # None => FromRow(entry["assessment"][c], c)
         /\ entry["external"][c] # None => FromImport(entry["external"][c], c)
  BY <1>1, EditedTraced
<1> HIDE DEF entry
<1>3. copy[s] \in [ProfileId -> Entry] /\ Traced(copy[s])
  BY <1>1 DEF AssessInv, ConfigInv, CopyOK
<1>4. RunInv' /\ RowsStand
  BY <1>1, RunsUntouched
<1>5. ImportsStand
  BY <1>1 DEF ImportsStand, externalVars, AssessInv, AssessTypeOK
<1>6. profiles' \in [ProfileId -> Entry] /\ why' \subseteq Incident
  BY <1>1, <1>2, <1>3 DEF AssessInv, AssessTypeOK, Incident
<1>7. Traced(profiles')
  BY <1>1, <1>2, <1>3 DEF Traced
<1>8. Traced(profiles)'
  <2>1. PICK config : config = profiles'
    OBVIOUS
  <2>2. Traced(config)
    BY <1>7, <2>1
  <2> QED
    BY <1>4, <1>5, <2>1, <2>2, TracedStays DEF Traced
<1> QED
  BY <1>1, <1>6, <1>8, EndsKeep

(* The process with the console dies.                                       *)
LEMMA RestartKeeps ==
    ASSUME AssessInv, Restart
    PROVE  AssessInv'
<1> USE DEF AssessInv
<1>1. UNCHANGED <<rows, externalVars, profiles, dropped, begun>> /\ why' = why \cup {"crash"}
  BY DEF Restart
<1>2. Lost'
  BY <1>1 DEF Lost
<1>3. \A a \in Run :
         \/ stage'[a] = "none"
         \/ (stage'[a] = stage[a] /\ mine'[a] = mine[a] /\ cur'[a] = cur[a])
  BY DEF Restart
<1>4. RunInv'
  <2>1. ASSUME NEW a \in Run PROVE RunOK(a)' /\ RowOK(a)'
    <3>1. RunOK(a) /\ RowOK(a)
      BY DEF RunInv
    <3>2. RunOK(a)'
      BY <1>1, <1>3, <3>1 DEF RunOK, Fresh
    <3>3. RowOK(a)'
      BY <1>1, <1>2, <1>3, <3>1 DEF RowOK, Continues
    <3> QED
      BY <3>2, <3>3
  <2> QED
    BY <2>1 DEF RunInv
<1>5. RowsStand
  BY <1>1, <1>3 DEF RowsStand
<1>6. ImportsStand
  BY <1>1 DEF ImportsStand, externalVars, AssessTypeOK
<1>7. \A t \in Actor : Still(t) \/ place'[t] = "idle"
  BY DEF Restart, Still
<1>8. PlaceInv' /\ \A t \in Actor : CopyOK(t)'
  BY <1>5, <1>6, <1>7, OthersStay DEF PlaceInv
<1>9. Acting'
  BY DEF Restart, Acting, AssessTypeOK, Place
<1>10. /\ stage' \in [Run -> Stage] /\ mine' \in [Run -> Row \cup {None}]
       /\ cur' \in [Run -> Field \cup {None}] /\ home' \in [Run -> Actor \cup {None}]
  BY DEF Restart, AssessTypeOK, Stage
<1>11. AssessTypeOK'
  BY <1>1, <1>9, <1>10 DEF AssessTypeOK, Acting, externalVars, Incident
<1>12. ProposalInv'
  BY <1>1 DEF ProposalInv, ProposalOK, externalVars
<1>13. Traced(profiles)'
  BY <1>1, <1>5, <1>6, TracedStays DEF Traced, ConfigInv
<1> QED
  BY <1>4, <1>8, <1>11, <1>12, <1>13 DEF ConfigInv

-----------------------------------------------------------------------------
(* The theorems. *)

LEMMA AssessNextKeeps ==
    ASSUME AssessInv, AssessNext
    PROVE  AssessInv'
<1>1. ASSUME NEW a \in Run, RunStep(a) \/ CommandEnds(a) PROVE AssessInv'
  BY <1>1, RunsMove, RunsKeep
<1>2. ASSUME NEW a \in Run, NEW s \in Actor, Start(a, s) PROVE AssessInv'
  BY <1>2, RunsMove, RunsKeep
<1>3. ASSUME NEW x \in Proposal, Dismiss(x) \/ \E found \in Findings : Propose(x, found)
      PROVE  AssessInv'
  BY <1>3, ProposalsKeep
<1>4. ASSUME NEW s \in Actor, NEW o \in Ops,
             BeginCancel(s, o) \/ BeginApply(s, o) \/ BeginImport(s, o) \/ BeginEdit(s, o)
      PROVE  AssessInv'
  BY <1>4, BeginCancelKeeps, BeginApplyKeeps, BeginImportKeeps, BeginEditKeeps
<1>5. ASSUME NEW s \in Actor, RequestStep(s) PROVE AssessInv'
  BY <1>5, CancelRowKeeps, MarkAppliedKeeps, RecordImportKeeps, ForgetKeeps, LoadKeeps,
     SaveKeeps, StopsKeep DEF RequestStep
<1> QED
  BY <1>1, <1>2, <1>3, <1>4, <1>5, RestartKeeps DEF AssessNext

(* A step that changes nothing. *)
LEMMA AssessStutters ==
    ASSUME AssessInv, UNCHANGED assessVars
    PROVE  AssessInv'
<1> USE DEF AssessInv
<1>1. /\ UNCHANGED <<rows, runVars, externalVars, profiles, dropped, actorVars, why>>
  BY DEF assessVars
<1>2. RunInv' /\ RowsStand
  BY <1>1, RunsUntouched
<1>3. ImportsStand
  BY <1>1 DEF ImportsStand, externalVars, AssessTypeOK
<1>4. PlaceInv' /\ \A t \in Actor : CopyOK(t)'
  BY <1>1, <1>2, <1>3, OthersStay DEF PlaceInv, Still, actorVars
<1>5. AssessTypeOK'
  BY <1>1 DEF AssessTypeOK, runVars, externalVars, actorVars
<1>6. ProposalInv'
  BY <1>1 DEF ProposalInv, ProposalOK, externalVars
<1>7. Traced(profiles)'
  BY <1>1, <1>2, <1>3, TracedStays DEF Traced, ConfigInv
<1> QED
  BY <1>2, <1>4, <1>5, <1>6, <1>7 DEF ConfigInv

LEMMA AssessInitOK ==
    ASSUME AssessInit
    PROVE  AssessInv
<1>1. NoEntry \in Entry
  BY DEF NoEntry, Entry
<1>2. AssessTypeOK
  BY <1>1, AssessmentAssumption DEF AssessInit, AssessTypeOK, Stage, Place, Incident
<1>3. RunInv
  BY AssessmentAssumption DEF AssessInit, RunInv, RunOK, RowOK
<1>4. PlaceInv
  BY DEF AssessInit, PlaceInv, PlaceOK
<1>5. ProposalInv
  BY AssessmentAssumption DEF AssessInit, ProposalInv, ProposalOK
<1>6. ConfigInv
  BY DEF AssessInit, ConfigInv, CopyOK, Traced, NoEntry, Layer
<1> QED
  BY <1>2, <1>3, <1>4, <1>5, <1>6 DEF AssessInv

(* The invariant holds in every behaviour. *)
THEOREM AlwaysAssessInv == AssessSpec => []AssessInv
<1>1. AssessInit => AssessInv
  BY AssessInitOK
<1>2. AssessInv /\ [AssessNext]_assessVars => AssessInv'
  BY AssessNextKeeps, AssessStutters
<1> QED
  BY <1>1, <1>2, PTL DEF AssessSpec

(* Rows, runs, proposals and requests keep their types: a run writes whole   *)
(* records, an edit leaves an entry of the configuration an entry.           *)
THEOREM AssessTypeCorrect == AssessSpec => []AssessTypeOK
<1>1. AssessInv => AssessTypeOK
  BY DEF AssessInv
<1> QED
  BY <1>1, AlwaysAssessInv, PTL

(* No run is left pending or running, and no verdict incomplete, unless a    *)
(* process died or ended under it or its row could not be read or written;   *)
(* and what a finished row does not propose of its good results is what      *)
(* applies of a selection took out of it (assessment_service.go).            *)
THEOREM AlwaysRunsAccounted == AssessSpec => []RunsAccounted
<1>1. AssessInv => RunsAccounted
  <2> SUFFICES ASSUME AssessInv, NEW a \in Run, rows[a] # None
               PROVE  /\ Continues(rows[a]) /\ stage[a] = "none" => Lost
                      /\ rows[a].status = "completed" => WholeResult(rows[a], dropped[a])
                      /\ (rows[a].status = "partial" /\ stage[a] = "none") =>
                            WholeResult(rows[a], dropped[a]) \/ Lost
    BY DEF RunsAccounted, NoOrphans, ResultsWhole, Lost
  <2>1. rows[a] \in Row /\ RowOK(a)
    BY DEF AssessInv, AssessTypeOK, RunInv
  <2> QED
    BY <2>1 DEF RowOK
<1> QED
  BY <1>1, AlwaysAssessInv, PTL

(* Every baseline value of the configuration has its source: an applied      *)
(* assessment that found it and proposes it, or did until an apply of a      *)
(* selection shrank what the row proposes, or a recorded import of evidence  *)
(* that claims nothing the configured model does not, whatever is cancelled, *)
(* imported, saved over or restarted in between.                             *)
THEOREM AlwaysTraceable == AssessSpec => []Traceable
<1>1. AssessInv => Traceable
  <2> SUFFICES ASSUME AssessInv, NEW m \in ProfileId, NEW c \in Field
        PROVE  /\ profiles[m]["assessment"][c] # None =>
                      LET a == profiles[m]["assessment"][c]
                      IN  "stale" \in why \/
                          (/\ rows[a].applied # None /\ rows[a].proposal # None
                           /\ c \in Good(rows[a]) /\ c \in rows[a].proposal \cup dropped[a])
               /\ profiles[m]["external"][c] # None =>
                      LET x == profiles[m]["external"][c]
                      IN  x \in imports /\ \E i \in DOMAIN basis[x] :
                              basis[x][i].capability = c /\ ClaimsNoOther(basis[x][i])
    BY DEF Traceable
  <2>1. Traced(profiles)
    BY DEF AssessInv, ConfigInv
  <2>2. ASSUME NEW a \in Run, rows[a] \in Row, rows[a].proposal # None, c \in Good(rows[a])
        PROVE  c \in rows[a].proposal \cup dropped[a]
    <3>1. WholeResult(rows[a], dropped[a])
      BY <2>2 DEF AssessInv, RunInv, RowOK
    <3> QED
      BY <2>2, <3>1 DEF WholeResult
  <2> QED
    BY <2>1, <2>2 DEF Traced, FromRow, FromImport
<1> QED
  BY <1>1, AlwaysAssessInv, PTL

(* The user layer of a profile wins over the other two. *)
LEMMA UserLayerWins ==
    ASSUME NEW p \in [ProfileId -> Entry], NEW m \in ProfileId, NEW c \in Field,
           p[m]["user"][c] # None
    PROVE  Resolve(p, <<m>>, c) = p[m]["user"][c]
<1> DEFINE keys == <<m>>
           top == <<1, 3>>
<1>1. DOMAIN keys = {1} /\ DOMAIN Layers = {1, 2, 3} /\ keys[1] = m /\ Layers[3] = "user"
  BY DEF Layers
<1>2. \A v \in Visits(keys) : v[1] = 1 /\ v[2] \in {1, 2, 3} /\ v = <<v[1], v[2]>>
  BY <1>1 DEF Visits
<1>3. top \in Visits(keys) /\ top[1] = 1 /\ top[2] = 3
  BY <1>1 DEF Visits
<1> HIDE DEF keys, top
<1>4. At(p, keys, top, c) = p[m]["user"][c]
  BY <1>1, <1>3 DEF At
<1>5. top \in Defined(p, keys, c)
  BY <1>3, <1>4 DEF Defined
<1>6. \A v \in Visits(keys) : v[2] = 3 => v = top
  BY <1>2, <1>3 DEF top
<1>7. \A v \in Visits(keys) : v = top \/ Before(v, top)
  BY <1>2, <1>3, <1>6 DEF Before
<1>8. \A v \in Visits(keys) : ~Before(top, v)
  BY <1>2, <1>3 DEF Before
<1>9. IsWinner(p, keys, c, top)
  BY <1>5, <1>7 DEF IsWinner, Defined
<1>10. \A v \in Visits(keys) : IsWinner(p, keys, c, v) => v = top
  BY <1>5, <1>8 DEF IsWinner
<1>11. (CHOOSE v \in Visits(keys) : IsWinner(p, keys, c, v)) = top
  BY <1>3, <1>9, <1>10
<1>12. Resolve(p, keys, c) = p[m]["user"][c]
  BY <1>4, <1>5, <1>11 DEF Resolve
<1> QED
  BY <1>12 DEF keys

LEMMA OnlySavesEdit ==
    ASSUME AssessInv, AssessNext, profiles' # profiles
    PROVE  \E s \in Actor : Save(s)
<1>1. ASSUME NEW a \in Run, RunStep(a) \/ CommandEnds(a) PROVE profiles' = profiles
  BY <1>1, RunsMove DEF RunMoved
<1>2. ASSUME NEW a \in Run, NEW s \in Actor, Start(a, s) PROVE profiles' = profiles
  BY <1>2 DEF Start
<1>3. ASSUME NEW x \in Proposal, Dismiss(x) \/ \E found \in Findings : Propose(x, found)
      PROVE  profiles' = profiles
  BY <1>3 DEF Dismiss, Propose
<1>4. ASSUME NEW s \in Actor, NEW o \in Ops,
             BeginCancel(s, o) \/ BeginApply(s, o) \/ BeginImport(s, o) \/ BeginEdit(s, o)
      PROVE  profiles' = profiles
  BY <1>4 DEF BeginCancel, BeginApply, BeginImport, BeginEdit, Take
<1>5. ASSUME NEW s \in Actor, RequestStep(s), ~Save(s) PROVE profiles' = profiles
  BY <1>5 DEF RequestStep, CancelRow, MarkApplied, RecordImport, Forget, Load, LoadRefuses,
              RequestFails
<1>6. Restart => profiles' = profiles
  BY DEF Restart
<1> QED
  BY <1>1, <1>2, <1>3, <1>4, <1>5, <1>6 DEF AssessNext

LEMMA SaveSparesOverrides ==
    ASSUME AssessInv, NEW s \in Actor, Save(s), NEW m \in ProfileId, NEW c \in Field,
           profiles[m]["user"][c] # None,
           ~(op[s].do \in {"put", "reset"} /\ op[s].on = m), copy[s] = profiles
    PROVE  Resolve(profiles', <<m>>, c) = Resolve(profiles, <<m>>, c)
<1>1. /\ profiles \in [ProfileId -> Entry] /\ place[s] = "save"
      /\ profiles' = [profiles EXCEPT ![Target(op[s])] = Edited(s)]
  BY DEF AssessInv, AssessTypeOK, Save
<1>2. /\ Target(op[s]) \in ProfileId /\ Edited(s) \in Entry
      /\ op[s].do \notin {"put", "reset"} =>
            Edited(s)["user"] = copy[s][Target(op[s])]["user"]
      /\ op[s].do \in {"put", "reset"} => Target(op[s]) = op[s].on
  BY <1>1, EditedTraced
<1>3. profiles'[m]["user"][c] = profiles[m]["user"][c]
  <2>1. CASE m = Target(op[s])
    BY <1>1, <1>2, <2>1
  <2>2. CASE m # Target(op[s])
    BY <1>1, <2>2
  <2> QED
    BY <2>1, <2>2
<1>4. profiles' \in [ProfileId -> Entry]
  BY <1>1, <1>2
<1>5. Resolve(profiles', <<m>>, c) = profiles'[m]["user"][c]
  BY <1>3, <1>4, UserLayerWins
<1>6. Resolve(profiles, <<m>>, c) = profiles[m]["user"][c]
  BY <1>1, UserLayerWins
<1> QED
  BY <1>3, <1>5, <1>6

(* What an operator has set stays in force until an operator changes that    *)
(* profile, unless a save replaces a newer configuration                     *)
(* (api_models.go, assessment_service.go, external/service.go).              *)
THEOREM OverridesAlwaysHold == AssessSpec => OverridesHold
<1>1. AssessInv /\ [AssessNext]_assessVars =>
         [\A m \in ProfileId, c \in Field :
             (/\ profiles[m]["user"][c] # None
              /\ Resolve(profiles', <<m>>, c) # Resolve(profiles, <<m>>, c)) =>
                 \E s \in Actor :
                     /\ place[s] = "save"
                     /\ \/ op[s].do \in {"put", "reset"} /\ op[s].on = m
                        \/ copy[s] # profiles]_assessVars
  <2> SUFFICES ASSUME AssessInv, AssessNext, NEW m \in ProfileId, NEW c \in Field,
                      profiles[m]["user"][c] # None,
                      Resolve(profiles', <<m>>, c) # Resolve(profiles, <<m>>, c)
               PROVE  \E s \in Actor :
                         /\ place[s] = "save"
                         /\ \/ op[s].do \in {"put", "reset"} /\ op[s].on = m
                            \/ copy[s] # profiles
    OBVIOUS
  <2>1. PICK s \in Actor : Save(s)
    BY OnlySavesEdit
  <2>2. place[s] = "save"
    BY <2>1 DEF Save
  <2> QED
    BY <2>1, <2>2, SaveSparesOverrides
<1> QED
  BY <1>1, AlwaysAssessInv, PTL DEF AssessSpec, OverridesHold
=============================================================================
