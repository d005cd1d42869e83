---------------------------- MODULE AccountsProofs ----------------------------
(***************************************************************************)
(* Proofs about Accounts for any accounts, tables, requests, readings and  *)
(* callers: types, that the operator's orders stand, that a selection      *)
(* rests on no account that was taken out or is used up, that reservations *)
(* are exact, and that an undisturbed rotation is fair.                    *)
(***************************************************************************)
EXTENDS Accounts, FiniteSetTheorems, WellFoundedInduction, TLAPS

-----------------------------------------------------------------------------
(* A nonempty set of naturals has a least member; so what CHOOSE looks for *)
(* in First, Latest and MostRemaining is there.                            *)
LEMMA LeastOf ==
    ASSUME NEW S \in SUBSET Nat, S # {}
    PROVE  \E m \in S : \A n \in S : m <= n
<1>1. PICK m \in S : \A n \in S : ~(<<n, m>> \in OpToRel(<, Nat))
  BY NatLessThanWellFounded, WFMin, Zenon
<1>2. ASSUME NEW n \in S PROVE m <= n
  <2>1. n \in Nat /\ m \in Nat
    OBVIOUS
  <2>2. ~(n < m)
    BY <1>1, <1>2, <2>1 DEF OpToRel
  <2> QED
    BY <2>1, <2>2
<1> QED
  BY <1>2

LEMMA GreatestOf ==
    ASSUME NEW S, S # {}, NEW f \in [S -> Nat], NEW n \in Nat, \A x \in S : f[x] <= n
    PROVE  \E x \in S : \A y \in S : f[y] <= f[x]
<1> DEFINE gaps == {n - f[x] : x \in S}
<1>1. gaps \in SUBSET Nat /\ gaps # {}
  OBVIOUS
<1>2. PICK m \in gaps : \A k \in gaps : m <= k
  BY <1>1, LeastOf
<1>3. PICK x \in S : m = n - f[x]
  OBVIOUS
<1>4. ASSUME NEW y \in S PROVE f[y] <= f[x]
  <2>1. n - f[x] <= n - f[y]
    BY <1>2, <1>3
  <2> QED
    BY <2>1
<1> QED
  BY <1>4

LEMMA FirstLeast ==
    ASSUME NEW S \in SUBSET Ids, S # {}
    PROVE  First(S) \in S /\ \A b \in S : Rank[First(S)] <= Rank[b]
<1> DEFINE ranks == {Rank[a] : a \in S}
<1>1. ranks \in SUBSET Nat /\ ranks # {}
  BY AccountsAssumption
<1>2. PICK m \in ranks : \A k \in ranks : m <= k
  BY <1>1, LeastOf
<1>3. PICK a \in S : m = Rank[a]
  OBVIOUS
<1>4. \A b \in S : Rank[a] <= Rank[b]
  BY <1>2, <1>3
<1> QED
  BY <1>4 DEF First

-----------------------------------------------------------------------------
(* A request's fields, and what it makes of the row it read. *)
Given(patch) == {f \in Flags : patch[f] # Keep}

LEMMA PatchFields ==
    ASSUME NEW patch \in Patches \cup {Drain, Resume}
    PROVE  \A f \in {"enabled", "draining", "rotates"} :
               patch[f] # Keep => patch[f] \in BOOLEAN
<1>1. patch \in [enabled : {Keep, TRUE, FALSE}, draining : {Keep, TRUE, FALSE},
                 rotates : {Keep, TRUE, FALSE}]
  BY AccountsAssumption DEF Drain, Resume, Keeping
<1> QED
  BY <1>1

LEMMA PatchedRow ==
    ASSUME NEW row \in Rows \cup {NoRow}, NEW patch \in Patches \cup {Drain, Resume}
    PROVE  Patched(row, patch) \in Rows
<1> DEFINE base == IF row = NoRow THEN Fresh ELSE row
<1>1. base \in Rows
  BY DEF Fresh, Rows
<1>2. \A f \in {"enabled", "draining", "rotates"} : Over(patch, f, base) \in BOOLEAN
  <2>1. \A f \in {"enabled", "draining", "rotates"} : base[f] \in BOOLEAN
    BY <1>1, Zenon DEF Rows
  <2> QED
    BY <2>1, PatchFields, Zenon DEF Over
<1>3. Patched(row, patch) = [enabled |-> Over(patch, "enabled", base),
                             draining |-> Over(patch, "draining", base),
                             rotates |-> Over(patch, "rotates", base)]
  BY DEF Patched
<1> QED
  BY <1>2, <1>3 DEF Rows

LEMMA PatchedField ==
    ASSUME NEW row, NEW patch, NEW f \in Flags
    PROVE  Patched(row, patch)[f] =
               IF f \in Given(patch) THEN patch[f]
               ELSE (IF row = NoRow THEN Fresh ELSE row)[f]
  BY DEF Patched, Over, Given, Flags

-----------------------------------------------------------------------------
(* Orders.  What a request has read shows the orders it is not in doubt of. *)
EditTyped ==
    /\ rows \in [Ids -> Rows \cup {NoRow}]
    /\ edits \in [Editors -> Requests \cup {Idle}]
    /\ ordered \in [Ids -> [Flags -> BOOLEAN]]
    /\ excused \in [Ids -> SUBSET Flags]
    /\ edited \in Nat

\* The row a request starts from, when none was there.
Base(row) == IF row = NoRow THEN Fresh ELSE row

Reads == \A e \in Editors : edits[e] # Idle =>
             \A f \in Flags \ edits[e].doubt :
                 Base(edits[e].row)[f] = ordered[edits[e].account][f]

EditInv == EditTyped /\ Reads /\ OrdersStand

\* The steps of the requests.
LEMMA CreateKeeps ==
    ASSUME EditInv, NEW a \in Ids, NEW rotates \in BOOLEAN, Create(a, rotates)
    PROVE  EditInv'
<1> DEFINE row == [Fresh EXCEPT !.rotates = rotates]
<1>1. row \in Rows /\ \A f \in Flags : row[f] = Fresh[f]
  BY DEF Fresh, Rows, Flags
<1>2. /\ rows' = [rows EXCEPT ![a] = row] /\ edited' = edited + 1
      /\ excused' = [excused EXCEPT ![a] = Overridden(a)]
      /\ UNCHANGED <<edits, ordered>>
  BY DEF Create
<1>3. Overridden(a) \in SUBSET Flags
  BY DEF Overridden
<1> HIDE DEF row
<1>4. EditTyped'
  BY <1>1, <1>2, <1>3 DEF EditInv, EditTyped
<1>5. Reads'
  BY <1>2 DEF EditInv, Reads
<1>6. ASSUME NEW b \in Ids, NEW f \in Flags, f \notin excused'[b]
      PROVE  RowOf(b)'[f] = ordered'[b][f]
  <2>1. CASE b # a
    <3>1. rows'[b] = rows[b] /\ excused'[b] = excused[b] /\ ordered'[b] = ordered[b]
      BY <1>2, <2>1 DEF EditInv, EditTyped
    <3> QED
      BY <1>6, <3>1 DEF EditInv, OrdersStand, RowOf
  <2>2. CASE b = a
    <3>1. rows'[b] = row /\ excused'[b] = Overridden(a)
      BY <1>2, <2>2 DEF EditInv, EditTyped
    <3>2. RowOf(b)' = row
      BY <1>1, <3>1, AccountsAssumption DEF RowOf
    <3>3. ordered[a][f] = Fresh[f]
      BY <1>6, <3>1 DEF Overridden
    <3> QED
      BY <1>1, <1>2, <2>2, <3>2, <3>3
  <2> QED
    BY <2>1, <2>2
<1> QED
  BY <1>4, <1>5, <1>6 DEF EditInv, OrdersStand

LEMMA ReadRowKeeps ==
    ASSUME EditInv, NEW e \in Editors, NEW a \in Ids,
           NEW patch \in Patches \cup {Drain, Resume},
           ReadRow(e, a, patch) \/ MissRow(e, a, patch)
    PROVE  EditInv'
<1>1. PICK request \in Requests :
          /\ edits' = [edits EXCEPT ![e] = request]
          /\ \A f \in Flags \ request.doubt :
                 Base(request.row)[f] = ordered[request.account][f]
  <2>1. CASE ReadRow(e, a, patch)
    <3> DEFINE read == [account |-> a, patch |-> patch, row |-> rows[a],
                        doubt |-> excused[a]]
    <3>1. read \in Requests
      BY DEF EditInv, EditTyped, Requests
    <3>2. \A f \in Flags \ excused[a] : Base(rows[a])[f] = ordered[a][f]
      BY DEF EditInv, OrdersStand, RowOf, Base
    <3>3. read.account = a /\ read.row = rows[a] /\ read.doubt = excused[a]
      OBVIOUS
    <3>4. edits' = [edits EXCEPT ![e] = read]
      BY <2>1 DEF ReadRow
    <3> HIDE DEF read
    <3> QED
      BY <3>1, <3>2, <3>3, <3>4
  <2>2. CASE MissRow(e, a, patch)
    <3> DEFINE read == [account |-> a, patch |-> patch, row |-> NoRow,
                        doubt |-> Overridden(a)]
    <3>1. read \in Requests
      BY DEF Requests, Overridden
    <3>2. \A f \in Flags \ Overridden(a) : Base(NoRow)[f] = ordered[a][f]
      BY DEF Base, Overridden
    <3>3. read.account = a /\ read.row = NoRow /\ read.doubt = Overridden(a)
      OBVIOUS
    <3>4. edits' = [edits EXCEPT ![e] = read]
      BY <2>2 DEF MissRow
    <3> HIDE DEF read
    <3> QED
      BY <3>1, <3>2, <3>3, <3>4
  <2> QED
    BY <2>1, <2>2
<1>2. UNCHANGED <<rows, ordered, excused>> /\ edited' = edited + 1
  BY DEF ReadRow, MissRow
<1>3. EditTyped'
  BY <1>1, <1>2 DEF EditInv, EditTyped
<1>4. Reads'
  BY <1>1, <1>2 DEF EditInv, EditTyped, Reads
<1>5. OrdersStand'
  BY <1>2 DEF EditInv, OrdersStand, RowOf
<1> QED
  BY <1>3, <1>4, <1>5 DEF EditInv

LEMMA WriteRowKeeps ==
    ASSUME EditInv, NEW e \in Editors, WriteRow(e)
    PROVE  EditInv'
<1>1. PICK q \in Requests : q = edits[e] /\ q # Idle
  BY DEF WriteRow, EditInv, EditTyped
<1>2. PICK a \in Ids, patch \in Patches \cup {Drain, Resume}, read \in Rows \cup {NoRow},
           doubt \in SUBSET Flags :
          a = q.account /\ patch = q.patch /\ read = q.row /\ doubt = q.doubt
  BY DEF Requests
<1> DEFINE given == Given(patch)
           row == Patched(read, patch)
           orders == [f \in Flags |-> IF f \in given THEN patch[f] ELSE ordered[a][f]]
           es == [edits EXCEPT ![e] = Idle]
<1>3. /\ rows' = [rows EXCEPT ![a] = row]
      /\ ordered' = [ordered EXCEPT ![a] = orders]
      /\ excused' = [excused EXCEPT ![a] = doubt \ given]
      /\ edits' = Outdated(a, given, es)
      /\ UNCHANGED edited
  BY <1>1, <1>2 DEF WriteRow, Given
<1>4. row \in Rows
  BY PatchedRow
<1>5. given \in SUBSET Flags /\ \A f \in given : patch[f] \in BOOLEAN
  BY PatchFields DEF Given, Flags
<1>6. orders \in [Flags -> BOOLEAN]
  <2>1. ordered[a] \in [Flags -> BOOLEAN]
    BY DEF EditInv, EditTyped
  <2> QED
    BY <1>5, <2>1
<1>7. \A f \in Flags : f \in given => row[f] = patch[f] /\ orders[f] = patch[f]
  BY PatchedField DEF Given
<1>8. \A f \in Flags \ given : row[f] = Base(read)[f] /\ orders[f] = ordered[a][f]
  BY PatchedField DEF Given, Base
<1>9. \A f \in Flags \ doubt : Base(read)[f] = ordered[a][f]
  BY <1>1, <1>2 DEF EditInv, Reads
<1>10. es \in [Editors -> Requests \cup {Idle}] /\ \A d \in Editors : es[d] \in {edits[d], Idle}
  BY DEF EditInv, EditTyped
<1> HIDE DEF given, row, orders, es
<1>11. /\ rows' \in [Ids -> Rows \cup {NoRow}] /\ ordered' \in [Ids -> [Flags -> BOOLEAN]]
       /\ excused' \in [Ids -> SUBSET Flags] /\ edited' \in Nat
  BY <1>3, <1>4, <1>5, <1>6 DEF EditInv, EditTyped
<1>12. ASSUME NEW b \in Ids, NEW f \in Flags, f \notin excused'[b]
       PROVE  RowOf(b)'[f] = ordered'[b][f]
  <2>1. CASE b # a
    <3>1. rows'[b] = rows[b] /\ excused'[b] = excused[b] /\ ordered'[b] = ordered[b]
      BY <1>3, <2>1 DEF EditInv, EditTyped
    <3> QED
      BY <1>12, <3>1 DEF EditInv, OrdersStand, RowOf
  <2>2. CASE b = a
    <3>1. rows'[a] = row /\ ordered'[a] = orders /\ excused'[a] = doubt \ given
      BY <1>3 DEF EditInv, EditTyped
    <3>2. RowOf(a)' = row
      BY <1>4, <3>1, AccountsAssumption DEF RowOf
    <3>3. row[f] = orders[f]
      BY <1>7, <1>8, <1>9, <1>12, <2>2, <3>1
    <3> QED
      BY <2>2, <3>1, <3>2, <3>3
  <2> QED
    BY <2>1, <2>2
<1>13. ASSUME NEW d \in Editors
       PROVE  /\ edits'[d] \in Requests \cup {Idle}
              /\ edits'[d] # Idle => \A f \in Flags \ edits'[d].doubt :
                     Base(edits'[d].row)[f] = ordered'[edits'[d].account][f]
  <2>1. CASE es[d] = Idle
    BY <1>3, <2>1 DEF Outdated
  <2>2. CASE es[d] # Idle /\ es[d].account # a
    <3>1. edits'[d] = edits[d] /\ es[d] = edits[d] /\ edits[d] \in Requests
      BY <1>3, <1>10, <2>2 DEF Outdated, EditInv, EditTyped
    <3>2. edits[d].account \in Ids
      BY <3>1 DEF Requests
    <3>3. ordered'[edits[d].account] = ordered[edits[d].account]
      BY <1>3, <2>2, <3>1, <3>2 DEF EditInv, EditTyped
    <3> QED
      BY <2>2, <3>1, <3>3 DEF EditInv, Reads
  <2>3. CASE es[d] # Idle /\ es[d].account = a
    <3>1. PICK p \in Requests : p = es[d] /\ p = edits[d] /\ p # Idle
      BY <1>10, <2>3
    <3>2. edits'[d] = [p EXCEPT !.doubt = p.doubt \cup given]
      BY <1>3, <2>3, <3>1 DEF Outdated
    <3>3. p.doubt \in SUBSET Flags /\ p.account = a
      BY <2>3, <3>1 DEF Requests
    <3>4. /\ edits'[d] \in Requests /\ edits'[d].row = p.row /\ edits'[d].account = a
          /\ edits'[d].doubt = p.doubt \cup given
      BY <1>5, <3>2, <3>3 DEF Requests
    <3>5. \A f \in Flags \ p.doubt : Base(p.row)[f] = ordered[a][f]
      BY <3>1, <3>3 DEF EditInv, Reads
    <3>6. ordered'[a] = orders
      BY <1>3 DEF EditInv, EditTyped
    <3>7. \A f \in Flags \ (p.doubt \cup given) : Base(p.row)[f] = ordered'[a][f]
      BY <1>8, <3>5, <3>6
    <3> QED
      BY <3>4, <3>7
  <2> QED
    BY <2>1, <2>2, <2>3
<1>14. edits' \in [Editors -> Requests \cup {Idle}]
  BY <1>3, <1>13 DEF Outdated
<1> QED
  BY <1>11, <1>12, <1>13, <1>14 DEF EditInv, EditTyped, Reads, OrdersStand

LEMMA EditStep == EditInv /\ [Next]_vars => EditInv'
<1> SUFFICES ASSUME EditInv, [Next]_vars PROVE EditInv'
  OBVIOUS
<1>1. ASSUME NEW a \in Managed, NEW rotates \in BOOLEAN, Create(a, rotates)
      PROVE  EditInv'
  BY <1>1, CreateKeeps, AccountsAssumption
<1>2. ASSUME NEW e \in Editors, NEW a \in Managed, NEW patch \in Patches \cup {Drain, Resume},
             ReadRow(e, a, patch) \/ MissRow(e, a, patch)
      PROVE  EditInv'
  BY <1>2, ReadRowKeeps, AccountsAssumption
<1>3. ASSUME NEW e \in Editors, WriteRow(e) PROVE EditInv'
  BY <1>3, WriteRowKeeps
<1>4. ASSUME NEW e \in Editors, FailRow(e) PROVE EditInv'
  <2>1. edits' = [edits EXCEPT ![e] = Idle] /\ UNCHANGED <<rows, edited, ordered, excused>>
    BY <1>4 DEF FailRow
  <2> QED
    BY <2>1 DEF EditInv, EditTyped, Reads, OrdersStand, RowOf
<1>5. CASE Read \/ Route \/ UNCHANGED vars
  <2>1. UNCHANGED edited_vars
    BY <1>5 DEF Read, Route, ProviderReads, LocalRefresh, Tick, Choose, Record, Release,
                vars
  <2> QED
    BY <2>1 DEF edited_vars, EditInv, EditTyped, Reads, OrdersStand, RowOf
<1> QED
  BY <1>1, <1>2, <1>3, <1>4, <1>5 DEF Next, Edit

LEMMA EditInit == Init => EditInv
<1> SUFFICES ASSUME Init PROVE EditInv
  OBVIOUS
<1>1. rows \in [Ids -> Rows \cup {NoRow}]
  BY AccountsAssumption DEF Init
<1>2. \A a \in Ids, f \in Flags : RowOf(a)[f] \in BOOLEAN
  <2>1. \A a \in Ids : RowOf(a) \in Rows
    BY <1>1 DEF RowOf, Fresh, Rows
  <2>2. \A row \in Rows, f \in Flags : row[f] \in BOOLEAN
    BY DEF Rows, Flags
  <2> QED
    BY <2>1, <2>2, Zenon
<1>3. EditTyped
  BY <1>1, <1>2 DEF Init, EditTyped
<1> QED
  BY <1>3 DEF Init, EditInv, Reads, OrdersStand

(* What the operator last ordered stands, whatever requests overlap, for   *)
(* any accounts, tables and patches; OrdersStand names the exceptions.     *)
THEOREM OrdersAlwaysStand == Spec => []OrdersStand
<1>1. EditInv => OrdersStand
  BY DEF EditInv
<1> QED
  BY <1>1, EditInit, EditStep, PTL DEF Spec

-----------------------------------------------------------------------------
(* Readings.  A provider's that says the account is used up is its latest,  *)
(* or is excused.                                                          *)
Exhausting(o) == o.limit = Limit /\ o.used >= Limit

ReadInv ==
    /\ readings \in [Ids -> SUBSET Readings]
    /\ now \in Nat /\ spent \subseteq Ids /\ masked \subseteq Ids
    /\ \A a \in Ids : \A o \in readings[a] :
          o.at <= now /\ o.limit = IF o.by = "header" THEN Limit ELSE Unknown
    /\ \A a \in spent \ masked : \E p \in Of(a, "header") :
          /\ Exhausting(p)
          /\ \A o \in Of(a, "header") \ {p} : TextOf(o.at) < TextOf(p.at)

\* Texts of times are naturals not far from the times, and only a whole second
\* sorts after the half second that follows it.
LEMMA Texts ==
    /\ \A t \in Nat : TextOf(t) \in Nat /\ TextOf(t) <= t + 1
    /\ \A s, t \in Nat : s < t /\ ~(s = t - 1 /\ s % 2 = 0) => TextOf(s) < TextOf(t)
<1>1. \A t \in Nat : \E k \in Nat : \/ t = 2 * k /\ TextOf(t) = 2 * k + 1 /\ t % 2 = 0
                                    \/ t = 2 * k + 1 /\ TextOf(t) = 2 * k /\ t % 2 = 1
  <2> SUFFICES ASSUME NEW t \in Nat
               PROVE  \E k \in Nat : \/ t = 2 * k /\ TextOf(t) = 2 * k + 1 /\ t % 2 = 0
                                     \/ t = 2 * k + 1 /\ TextOf(t) = 2 * k /\ t % 2 = 1
    OBVIOUS
  <2>1. t \div 2 \in Nat /\ t % 2 \in {0, 1} /\ t = 2 * (t \div 2) + (t % 2)
    OBVIOUS
  <2> QED
    BY <2>1 DEF TextOf
<1>2. \A t \in Nat : TextOf(t) \in Nat /\ TextOf(t) <= t + 1
  BY <1>1
<1>3. ASSUME NEW s \in Nat, NEW t \in Nat, s < t, ~(s = t - 1 /\ s % 2 = 0)
      PROVE  TextOf(s) < TextOf(t)
  BY <1>1, <1>3
<1> QED
  BY <1>2, <1>3

\* The latest reading of a source is one of its readings.
LEMMA LatestIn ==
    ASSUME ReadInv, NEW a \in Ids, NEW by \in Sources, Of(a, by) # {}
    PROVE  /\ Latest(a, by) \in Of(a, by)
           /\ \A o \in Of(a, by) : TextOf(o.at) <= TextOf(Latest(a, by).at)
<1> DEFINE S == Of(a, by)
           text == [o \in S |-> TextOf(o.at)]
<1>1. S \subseteq readings[a]
  BY DEF Of
<1>2. \A o \in S : o.at \in Nat /\ o.at <= now
  BY <1>1 DEF ReadInv, Readings
<1> HIDE DEF S
<1>3. text \in [S -> Nat] /\ \A o \in S : text[o] <= now + 1
  BY <1>2, Texts DEF ReadInv
<1>4. \E s \in S : \A o \in S : text[o] <= text[s]
  <2>1. now + 1 \in Nat /\ S # {}
    BY DEF ReadInv, S
  <2> HIDE DEF text
  <2> QED
    BY <1>3, <2>1, GreatestOf
<1>5. \E s \in S : \A o \in S : TextOf(o.at) <= TextOf(s.at)
  BY <1>4
<1> QED
  BY <1>5 DEF Latest, S

\* The fields of the latest reading of a source.
LEMMA LatestFields ==
    ASSUME ReadInv, NEW a \in Ids, NEW by \in Sources, Of(a, by) # {}
    PROVE  /\ Latest(a, by) \in Readings /\ Latest(a, by).used \in Nat
           /\ Latest(a, by).limit = IF by = "header" THEN Limit ELSE Unknown
<1>1. Latest(a, by) \in readings[a] /\ Latest(a, by).by = by
  BY LatestIn DEF Of
<1> QED
  BY <1>1 DEF ReadInv, Readings

\* A window takes its figure from the row shown, and its limit from the
\* provider where it gave one.
LEMMA WindowFields ==
    ASSUME ReadInv, NEW shown \in Shown, NEW a \in Ids, readings[a] # {}
    PROVE  /\ Of(a, shown[a]) # {} /\ shown[a] \in Sources
           /\ \E limit \in {Limit, Unknown} :
                 /\ Of(a, "header") # {} => limit = Limit
                 /\ WindowOf(a, shown).limit = limit
                 /\ WindowOf(a, shown).remaining =
                        Remaining(limit, Latest(a, shown[a]).used, 0)
<1>1. PICK by \in Sources : by = shown[a]
  BY DEF Shown
<1>2. Of(a, by) # {}
  BY <1>1 DEF Shown
<1>3. PICK s \in Readings : s = Latest(a, by) /\ s.limit = IF by = "header" THEN Limit ELSE Unknown
  BY <1>2, LatestFields
<1>4. CASE Of(a, "header") = {}
  <2>1. by = "log" /\ Merged(a, by) = s
    BY <1>2, <1>3, <1>4 DEF Merged, Sources
  <2>2. /\ WindowOf(a, shown).limit = Unknown
        /\ WindowOf(a, shown).remaining = Remaining(Unknown, s.used, 0)
    BY <1>1, <1>3, <2>1 DEF WindowOf, Window
  <2> QED
    BY <1>1, <1>2, <1>3, <1>4, <2>2
<1>5. CASE Of(a, "header") # {}
  <2>1. PICK h \in Readings : h = Latest(a, "header") /\ h.limit = Limit
    BY <1>5, LatestFields DEF Sources
  <2>2. Merged(a, by) = [s EXCEPT !.limit = h.limit, !.staleAfter = h.staleAfter]
    BY <1>3, <1>5, <2>1 DEF Merged
  <2>3. Merged(a, by).limit = Limit /\ Merged(a, by).used = s.used
    BY <2>1, <2>2 DEF Readings
  <2> HIDE DEF Merged
  <2>4. /\ WindowOf(a, shown).limit = Limit
        /\ WindowOf(a, shown).remaining = Remaining(Limit, s.used, 0)
    BY <1>1, <2>3 DEF WindowOf, Window
  <2> QED
    BY <1>1, <1>2, <1>3, <1>5, <2>4
<1> QED
  BY <1>4, <1>5

\* An account said to be used up is taken for that, unless it is excused.
LEMMA SpentIsUsedUp ==
    ASSUME ReadInv, NEW a \in spent \ masked, ~Undercounted(a), NEW shown \in Shown
    PROVE  UsedUp(a, shown)
<1>1. PICK p \in Of(a, "header") :
          /\ Exhausting(p)
          /\ \A o \in Of(a, "header") \ {p} : TextOf(o.at) < TextOf(p.at)
  BY DEF ReadInv
<1>2. a \in Ids /\ p \in Readings /\ p \in readings[a]
  BY DEF ReadInv, Of
<1>3. Latest(a, "header") = p
  <2>1. /\ Latest(a, "header") \in Of(a, "header")
        /\ TextOf(p.at) <= TextOf(Latest(a, "header").at)
    BY <1>2, LatestIn DEF Sources
  <2>2. Latest(a, "header") \in Readings
    BY <1>2, <2>1, LatestFields DEF Sources
  <2>3. TextOf(Latest(a, "header").at) \in Nat /\ TextOf(p.at) \in Nat
    BY <1>2, <2>2, Texts DEF Readings
  <2> QED
    BY <1>1, <2>1, <2>3
<1>4. /\ Of(a, shown[a]) # {} /\ shown[a] \in Sources
      /\ WindowOf(a, shown).limit = Limit
      /\ WindowOf(a, shown).remaining = Remaining(Limit, Latest(a, shown[a]).used, 0)
  BY <1>2, WindowFields
<1>5. Latest(a, shown[a]).used \in Nat /\ Latest(a, shown[a]).used >= Limit
  <2>1. Latest(a, shown[a]).used \in Nat
    BY <1>2, <1>4, LatestFields
  <2>2. CASE shown[a] = "header"
    BY <1>1, <1>3, <2>1, <2>2 DEF Exhausting
  <2>3. CASE shown[a] = "log"
    BY <1>4, <2>1, <2>3, AccountsAssumption DEF Undercounted
  <2> QED
    BY <1>4, <2>1, <2>2, <2>3 DEF Sources
<1>6. Remaining(Limit, Latest(a, shown[a]).used, 0) = 0
  <2>1. PICK n \in Nat : n = Latest(a, shown[a]).used /\ n >= Limit
    BY <1>5
  <2>2. Remaining(Limit, n, 0) = 0
    BY <2>1, AccountsAssumption DEF Remaining, Measured, Most
  <2> QED
    BY <2>1, <2>2
<1> QED
  BY <1>2, <1>4, <1>6, AccountsAssumption DEF UsedUp, Unknown

LEMMA InsertKeeps ==
    ASSUME ReadInv, NEW a \in Ids, NEW o \in Readings, o.at = now,
           o.limit = (IF o.by = "header" THEN Limit ELSE Unknown),
           Insert(a, o), UNCHANGED now,
           spent' \subseteq Ids, masked' \subseteq Ids,
           CASE o.by = "header" ->
                   /\ spent' \ masked' \subseteq (spent \ masked) \cup {a}
                   /\ a \in spent' \ masked' => Exhausting(o) /\
                         ~\E p \in Of(a, "header") : p.at = now - 1 /\ p.at % 2 = 0
             [] OTHER -> UNCHANGED <<spent, masked>>
    PROVE  ReadInv'
<1>1. /\ readings' = [readings EXCEPT ![a] = @ \cup {o}] /\ \A p \in readings[a] : p.at # now
  BY DEF Insert
<1>2. readings' \in [Ids -> SUBSET Readings]
  BY <1>1 DEF ReadInv
<1>3. \A b \in Ids : \A p \in readings'[b] :
          p.at <= now' /\ p.limit = IF p.by = "header" THEN Limit ELSE Unknown
  BY <1>1 DEF ReadInv, Readings
<1>4. /\ \A b \in Ids \ {a} : Of(b, "header")' = Of(b, "header")
      /\ Of(a, "header")' = Of(a, "header") \cup (IF o.by = "header" THEN {o} ELSE {})
  BY <1>1 DEF ReadInv, Of
<1>5. ASSUME NEW b \in spent' \ masked'
      PROVE  \E p \in Of(b, "header")' :
                 /\ Exhausting(p)
                 /\ \A q \in Of(b, "header")' \ {p} : TextOf(q.at) < TextOf(p.at)
  <2>1. CASE b = a /\ o.by = "header"
    <3>1. Exhausting(o) /\ ~\E p \in Of(a, "header") : p.at = now - 1 /\ p.at % 2 = 0
      BY <1>5, <2>1
    <3>2. \A q \in Of(a, "header") :
              q.at \in Nat /\ q.at < now /\ ~(q.at = now - 1 /\ q.at % 2 = 0)
      BY <1>1, <3>1 DEF ReadInv, Readings, Of
    <3>3. \A q \in Of(a, "header") : TextOf(q.at) < TextOf(o.at)
      BY <3>2, Texts DEF ReadInv
    <3> QED
      BY <1>4, <2>1, <3>1, <3>3
  <2>2. CASE ~(b = a /\ o.by = "header")
    <3>1. Of(b, "header")' = Of(b, "header") /\ b \in spent \ masked
      BY <1>4, <1>5, <2>2
    <3> QED
      BY <3>1 DEF ReadInv
  <2> QED
    BY <2>1, <2>2
<1> QED
  BY <1>2, <1>3, <1>5 DEF ReadInv

LEMMA ReadStep == ReadInv /\ [Next]_vars => ReadInv'
<1> SUFFICES ASSUME ReadInv, [Next]_vars PROVE ReadInv'
  OBVIOUS
<1> USE AccountsAssumption
<1>1. ASSUME NEW a \in Metered, NEW used \in {0, Limit}, ProviderReads(a, used)
      PROVE  ReadInv'
  <2> DEFINE o == [by |-> "header", at |-> now, used |-> used, limit |-> Limit,
                   staleAfter |-> now + MaxTime, resetIn |-> Unknown]
  <2>1. o \in Readings /\ a \in Ids /\ UNCHANGED now
    BY <1>1 DEF ProviderReads, Readings, ReadInv, Sources
  <2>2. spent' = (IF used >= Limit THEN spent \cup {a} ELSE spent \ {a})
    BY <1>1 DEF ProviderReads
  <2>3. masked' = IF \E p \in Of(a, "header") : p.at = now - 1 /\ p.at % 2 = 0
                  THEN masked \cup {a} ELSE masked \ {a}
    BY <1>1 DEF ProviderReads
  <2>4. a \in spent' \ masked' => Exhausting(o) /\
            ~\E p \in Of(a, "header") : p.at = now - 1 /\ p.at % 2 = 0
    BY <2>2, <2>3 DEF Exhausting
  <2>5. /\ spent' \subseteq Ids /\ masked' \subseteq Ids
        /\ spent' \ masked' \subseteq (spent \ masked) \cup {a}
    BY <2>1, <2>2, <2>3 DEF ReadInv
  <2>6. Insert(a, o)
    BY <1>1 DEF ProviderReads
  <2>7. o.at = now /\ o.by = "header" /\ o.limit = Limit
    OBVIOUS
  <2> HIDE DEF o
  <2> QED
    BY <2>1, <2>4, <2>5, <2>6, <2>7, InsertKeeps
<1>2. ASSUME NEW used \in {0, Limit}, LocalRefresh(used) PROVE ReadInv'
  <2> DEFINE o == [by |-> "log", at |-> now, used |-> used, limit |-> Unknown,
                   staleAfter |-> Unknown, resetIn |-> Unknown]
  <2>1. o \in Readings /\ Default \in Ids
    BY DEF Readings, ReadInv, Sources
  <2>2. Insert(Default, o) /\ UNCHANGED <<now, spent, masked>>
    BY <1>2 DEF LocalRefresh
  <2>3. o.at = now /\ o.by = "log" /\ o.limit = Unknown
    OBVIOUS
  <2>4. spent' \subseteq Ids /\ masked' \subseteq Ids
    BY <2>2 DEF ReadInv
  <2> HIDE DEF o
  <2> QED
    BY <2>1, <2>2, <2>3, <2>4, InsertKeeps
<1>3. CASE Tick
  <2>1. now' = now + 1 /\ UNCHANGED <<readings, spent, masked>>
    BY <1>3 DEF Tick
  <2>2. \A a \in Ids : \A o \in readings[a] : o.at <= now'
    BY <2>1 DEF ReadInv, Readings
  <2> QED
    BY <2>1, <2>2 DEF ReadInv, Of
<1>4. CASE Edit \/ Route \/ UNCHANGED vars
  <2>1. UNCHANGED reading_vars
    BY <1>4 DEF Edit, Route, Create, ReadRow, MissRow, WriteRow, FailRow, Choose, Record,
                Release, vars
  <2> QED
    BY <2>1 DEF reading_vars, ReadInv, Of
<1> QED
  BY <1>1, <1>2, <1>3, <1>4 DEF Next, Read

LEMMA ReadInit == Init => ReadInv
  BY DEF Init, ReadInv, Of

-----------------------------------------------------------------------------
(* Selections.  A choice is among the accounts considered, and those are   *)
(* eligible.                                                               *)
LEMMA ConsideredEligible ==
    ASSUME NEW mode, NEW shown
    PROVE  /\ Considered(mode, shown) \subseteq Ids
           /\ \A a \in Considered(mode, shown) : Eligible(a, shown)
  BY DEF Considered, Permitted, Candidates

LEMMA LeftBounded ==
    ASSUME ReadInv, NEW shown \in Shown, NEW a \in Ids
    PROVE  Left(a, shown) \in Nat /\ Left(a, shown) <= Limit
<1>1. CASE readings[a] = {}
  BY <1>1, AccountsAssumption DEF Left
<1>2. CASE readings[a] # {}
  <2>1. PICK limit \in {Limit, Unknown} :
            WindowOf(a, shown).remaining = Remaining(limit, Latest(a, shown[a]).used, 0)
    BY <1>2, WindowFields
  <2>2. PICK n \in Nat : n = Latest(a, shown[a]).used
    BY <1>2, WindowFields, LatestFields
  <2>3. Remaining(limit, n, 0) \in Int /\ Remaining(limit, n, 0) <= Limit
    BY AccountsAssumption DEF Remaining, Measured, Most, Unknown
  <2>4. Left(a, shown) = Most(Remaining(limit, n, 0), 0)
    BY <1>2, <2>1, <2>2 DEF Left
  <2> QED
    BY <2>3, <2>4, AccountsAssumption DEF Most
<1> QED
  BY <1>1, <1>2

LEMMA MostRemainingIn ==
    ASSUME ReadInv, NEW shown \in Shown, NEW S \in SUBSET Ids, S # {}
    PROVE  MostRemaining(S, shown) \in S
<1> DEFINE left == [a \in S |-> Left(a, shown)]
           most == {a \in S : \A b \in S : Left(b, shown) <= Left(a, shown)}
<1>1. left \in [S -> Nat] /\ \A a \in S : left[a] <= Limit
  BY LeftBounded
<1>2. \E a \in S : \A b \in S : left[b] <= left[a]
  <2> HIDE DEF left
  <2> QED
    BY <1>1, GreatestOf, AccountsAssumption
<1>3. most \in SUBSET Ids /\ most # {}
  BY <1>2
<1>4. First(most) \in most
  <2> HIDE DEF most
  <2> QED
    BY <1>3, FirstLeast
<1> QED
  BY <1>4 DEF MostRemaining

LEMMA InTurnIn ==
    ASSUME NEW S \in SUBSET Ids, S # {}
    PROVE  InTurn(S) \in S /\ InWeightedTurn(S) \in S
<1> DEFINE later == {a \in S : last \in S /\ Rank[a] > Rank[last]}
<1>1. InTurn(S) = First(IF later # {} THEN later ELSE S)
  BY DEF InTurn
<1>2. later \in SUBSET Ids /\ later \subseteq S
  OBVIOUS
<1>3. InTurn(S) \in S
  <2> HIDE DEF later
  <2>1. CASE later # {}
    BY <1>1, <1>2, <2>1, FirstLeast
  <2>2. CASE later = {}
    BY <1>1, <2>2, FirstLeast
  <2> QED
    BY <2>1, <2>2
<1> QED
  BY <1>3 DEF InWeightedTurn

LEMMA PicksIn ==
    ASSUME ReadInv, NEW mode, NEW shown \in Shown, NEW S \in SUBSET Ids, S # {}
    PROVE  PicksOf(mode, S, shown) \subseteq S
<1>1. /\ First(S) \in S /\ InTurn(S) \in S /\ InWeightedTurn(S) \in S
      /\ MostRemaining(S, shown) \in S
  BY FirstLeast, InTurnIn, MostRemainingIn
<1>2. PicksOf(mode, S, shown) \in {{InTurn(S)}, {InWeightedTurn(S)}, {MostRemaining(S, shown)},
                           {First(S)}, S}
  BY DEF PicksOf
<1> QED
  BY <1>1, <1>2

\* The selection a choice begins.
Selection(a, mode, estimate, shown) ==
    [account |-> a, estimate |-> estimate, among |-> Considered(mode, shown),
     mode |-> ModeUsed(mode, shown), seen |-> picks, held |-> FALSE]

LEMMA ChosenEligible ==
    ASSUME ReadInv, NEW r \in Routers, NEW mode, NEW estimate, Choose(r, mode, estimate)
    PROVE  \E shown \in Shown :
               \E a \in PicksOf(ModeUsed(mode, shown), Considered(mode, shown), shown) :
                   /\ a \in Considered(mode, shown)
                   /\ routes' = [routes EXCEPT ![r] = Selection(a, mode, estimate, shown)]
<1>1. PICK shown \in Shown :
          /\ Considered(mode, shown) # {}
          /\ \E a \in PicksOf(ModeUsed(mode, shown), Considered(mode, shown), shown) :
                routes' = [routes EXCEPT ![r] = Selection(a, mode, estimate, shown)]
  BY DEF Choose, Selection
<1>2. PicksOf(ModeUsed(mode, shown), Considered(mode, shown), shown)
          \subseteq Considered(mode, shown)
  BY <1>1, ConsideredEligible, PicksIn
<1> QED
  BY <1>1, <1>2

RouteTyped ==
    /\ picks \in Nat
    /\ last \in Ids \cup {NoRow}
    /\ reserved \in [Ids -> Nat]
    /\ routes \in [Routers -> Selections \cup {Idle}]
    /\ \A r \in Routers : routes[r] # Idle => routes[r].seen <= picks

LEMMA SelectionTyped ==
    ASSUME NEW a \in Ids, NEW e \in Nat \ {0}, NEW among \in SUBSET Ids,
           NEW mode \in Modes \cup {"fixed"}, NEW n \in Nat, NEW held \in BOOLEAN
    PROVE  [account |-> a, estimate |-> e, among |-> among, mode |-> mode,
            seen |-> n, held |-> held] \in Selections
  BY DEF Selections

LEMMA RouteStep == ReadInv /\ RouteTyped /\ [Next]_vars => RouteTyped'
<1> SUFFICES ASSUME ReadInv, RouteTyped, [Next]_vars PROVE RouteTyped'
  OBVIOUS
<1>1. ASSUME NEW r \in Routers, NEW mode \in Modes, NEW estimate \in Estimates,
             Choose(r, mode, estimate)
      PROVE  RouteTyped'
  <2>0. PICK shown \in Shown : \E a \in Considered(mode, shown) :
            routes' = [routes EXCEPT ![r] = Selection(a, mode, estimate, shown)]
    BY <1>1, ChosenEligible
  <2>1. PICK a \in Considered(mode, shown) :
            routes' = [routes EXCEPT ![r] = Selection(a, mode, estimate, shown)]
    BY <2>0
  <2>2. UNCHANGED <<last, picks, reserved>>
    BY <1>1 DEF Choose
  <2> DEFINE s == Selection(a, mode, estimate, shown)
  <2>3. s \in Selections /\ s.seen = picks
    <3>1. a \in Ids /\ Considered(mode, shown) \in SUBSET Ids
      BY ConsideredEligible
    <3>2. estimate \in Nat \ {0} /\ mode \in Modes /\ picks \in Nat
      BY AccountsAssumption DEF RouteTyped
    <3>3. ModeUsed(mode, shown) \in Modes \cup {"fixed"}
      BY <3>2 DEF ModeUsed
    <3>4. FALSE \in BOOLEAN
      OBVIOUS
    <3>5. s \in Selections
      BY <3>1, <3>2, <3>3, <3>4, SelectionTyped, Zenon DEF Selection
    <3> QED
      BY <3>5 DEF Selection
  <2>4. routes' = [routes EXCEPT ![r] = s]
    BY <2>1
  <2> HIDE DEF s
  <2>5. routes' \in [Routers -> Selections \cup {Idle}]
    BY <2>3, <2>4 DEF RouteTyped
  <2>6. \A q \in Routers : routes'[q] # Idle => routes'[q].seen <= picks'
    BY <2>2, <2>3, <2>4 DEF RouteTyped
  <2> QED
    BY <2>2, <2>5, <2>6 DEF RouteTyped
<1>2. ASSUME NEW r \in Routers, Record(r) PROVE RouteTyped'
  <2> DEFINE s == routes[r]
  <2>1. s \in Selections /\ s.account \in Ids /\ s.estimate \in Nat /\ s.seen <= picks /\ s.seen \in Nat
    BY <1>2 DEF Record, Pending, RouteTyped, Selections
  <2>2. /\ reserved' = [reserved EXCEPT ![s.account] = @ + s.estimate]
        /\ last' = s.account /\ picks' = picks + 1
        /\ routes' = [routes EXCEPT ![r].held = TRUE]
    BY <1>2 DEF Record
  <2>3. [s EXCEPT !.held = TRUE] \in Selections /\ [s EXCEPT !.held = TRUE].seen = s.seen
    BY <2>1 DEF Selections
  <2>4. routes' = [routes EXCEPT ![r] = [s EXCEPT !.held = TRUE]]
    BY <2>2 DEF RouteTyped
  <2>5. routes' \in [Routers -> Selections \cup {Idle}]
    BY <2>3, <2>4 DEF RouteTyped
  <2>6. \A q \in Routers : routes[q] # Idle => routes[q].seen \in Nat
    BY DEF RouteTyped, Selections
  <2>7. \A q \in Routers : routes'[q] # Idle => routes'[q].seen <= picks'
    BY <2>1, <2>2, <2>3, <2>4, <2>6 DEF RouteTyped
  <2> QED
    BY <2>1, <2>2, <2>5, <2>7 DEF RouteTyped
<1>3. ASSUME NEW r \in Routers, Release(r) PROVE RouteTyped'
  <2> DEFINE s == routes[r]
  <2>1. s \in Selections /\ s.account \in Ids /\ s.estimate \in Nat
    BY <1>3 DEF Release, Holding, RouteTyped, Selections
  <2>2. /\ reserved' = [reserved EXCEPT ![s.account] = Released(s.estimate, @)]
        /\ routes' = [routes EXCEPT ![r] = Idle]
        /\ UNCHANGED <<last, picks>>
    BY <1>3 DEF Release
  <2>3. Released(s.estimate, reserved[s.account]) \in Nat
    BY <2>1 DEF Released, Most, RouteTyped
  <2> QED
    BY <2>1, <2>2, <2>3 DEF RouteTyped
<1>4. CASE Edit \/ Read \/ UNCHANGED vars
  <2>1. UNCHANGED route_vars
    BY <1>4 DEF Edit, Read, Create, ReadRow, MissRow, WriteRow, FailRow, ProviderReads,
                LocalRefresh, Tick, vars
  <2> QED
    BY <2>1 DEF route_vars, RouteTyped
<1> QED
  BY <1>1, <1>2, <1>3, <1>4 DEF Next, Route

LEMMA RouteInit == Init => RouteTyped
  BY AccountsAssumption DEF Init, RouteTyped

(* Every variable stays in its type, for any accounts and callers.         *)
THEOREM AccountsTypeCorrect == Spec => []AccountsTypeOK
<1> DEFINE Inv == EditInv /\ ReadInv /\ RouteTyped
<1>1. Init => Inv
  BY EditInit, ReadInit, RouteInit
<1>2. Inv /\ [Next]_vars => Inv'
  BY EditStep, ReadStep, RouteStep
<1>3. Inv => AccountsTypeOK
  BY DEF AccountsTypeOK, EditInv, EditTyped, ReadInv, RouteTyped
<1> QED
  BY <1>1, <1>2, <1>3, PTL DEF Spec

\* A step that begins a selection chooses an eligible account.
LEMMA RestedStep ==
    ASSUME EditInv, ReadInv, RouteTyped, [Next]_vars,
           NEW r \in Routers, routes[r] = Idle, routes'[r] # Idle
    PROVE  LET a == routes'[r].account
           IN  /\ "enabled" \notin excused[a] => ordered[a]["enabled"]
               /\ "draining" \notin excused[a] => ~ordered[a]["draining"]
               /\ a \in spent => a \in masked \/ Undercounted(a)
<1>1. PICK mode \in Modes, estimate \in Estimates : Choose(r, mode, estimate)
  <2>1. CASE Edit \/ Read \/ UNCHANGED vars
    BY <2>1 DEF Edit, Read, Create, ReadRow, MissRow, WriteRow, FailRow, ProviderReads,
                LocalRefresh, Tick, vars, route_vars
  <2>2. ASSUME NEW q \in Routers, Record(q) \/ Release(q) PROVE FALSE
    <3>1. routes[q] # Idle
      BY <2>2 DEF Record, Release, Pending, Holding
    <3>2. \A p \in Routers \ {q} : routes'[p] = routes[p]
      BY <2>2 DEF Record, Release, RouteTyped
    <3> QED
      BY <3>1, <3>2
  <2>3. ASSUME NEW q \in Routers, q # r, NEW mode, NEW estimate, Choose(q, mode, estimate)
        PROVE  FALSE
    BY <2>3 DEF Choose, RouteTyped
  <2> QED
    BY <2>1, <2>2, <2>3 DEF Next, Route
<1>0. PICK shown \in Shown : \E a \in Considered(mode, shown) :
          routes' = [routes EXCEPT ![r] = Selection(a, mode, estimate, shown)]
  BY <1>1, ChosenEligible
<1>2. PICK a \in Considered(mode, shown) :
          routes' = [routes EXCEPT ![r] = Selection(a, mode, estimate, shown)]
  BY <1>0
<1>3. routes'[r].account = a /\ a \in Ids /\ Eligible(a, shown)
  BY <1>2, ConsideredEligible DEF RouteTyped, Selection
<1>4. RowOf(a).enabled /\ ~RowOf(a).draining /\ ~UsedUp(a, shown)
  BY <1>3 DEF Eligible
<1>5. \A f \in Flags : f \notin excused[a] => RowOf(a)[f] = ordered[a][f]
  BY <1>3 DEF EditInv, OrdersStand
<1>6. "enabled" \notin excused[a] => ordered[a]["enabled"]
  BY <1>4, <1>5 DEF Flags
<1>7. "draining" \notin excused[a] => ~ordered[a]["draining"]
  BY <1>4, <1>5 DEF Flags
<1>8. a \in spent => a \in masked \/ Undercounted(a)
  BY <1>4, SpentIsUsedUp
<1> QED
  BY <1>3, <1>6, <1>7, <1>8

(* No selection rests on an account that was taken out or is used up, for  *)
(* any accounts, modes, requests, readings and callers, but for the        *)
(* exceptions RestedAccounts names.                                        *)
THEOREM RestedStayOut == Spec => RestedAccounts
<1> DEFINE Inv == EditInv /\ ReadInv /\ RouteTyped
<1>1. Init => Inv
  BY EditInit, ReadInit, RouteInit
<1>2. Inv /\ [Next]_vars => Inv'
  BY EditStep, ReadStep, RouteStep
<1>3. Inv /\ [Next]_vars =>
          [\A r \in Routers :
              routes[r] = Idle /\ routes'[r] # Idle =>
                 LET a == routes'[r].account
                 IN  /\ "enabled" \notin excused[a] => ordered[a]["enabled"]
                     /\ "draining" \notin excused[a] => ~ordered[a]["draining"]
                     /\ a \in spent => a \in masked \/ Undercounted(a)]_vars
  BY RestedStep
<1> QED
  BY <1>1, <1>2, <1>3, PTL DEF Spec, RestedAccounts

-----------------------------------------------------------------------------
(* What is reserved.  Each selection in flight brings a finite block of    *)
(* units to its account and takes it away.                                 *)
LEMMA BlockSize ==
    ASSUME NEW r, NEW n \in Nat
    PROVE  IsFiniteSet({r} \X (1..n)) /\ Cardinality({r} \X (1..n)) = n
<1>1. IsFiniteSet({r}) /\ Cardinality({r}) = 1
  BY FS_Singleton
<1>2. IsFiniteSet(1..n) /\ Cardinality(1..n) = n
  <2>1. IsFiniteSet(1..n) /\ Cardinality(1..n) = IF 1 > n THEN 0 ELSE n - 1 + 1
    BY FS_Interval
  <2> QED
    BY <2>1
<1>3. /\ IsFiniteSet({r} \X (1..n))
      /\ Cardinality({r} \X (1..n)) = Cardinality({r}) * Cardinality(1..n)
  BY <1>1, <1>2, FS_Product
<1> QED
  BY <1>1, <1>2, <1>3

LEMMA AddBlock ==
    ASSUME NEW S, IsFiniteSet(S), NEW r, NEW n \in Nat, S \cap ({r} \X (1..n)) = {}
    PROVE  /\ IsFiniteSet(S \cup ({r} \X (1..n)))
           /\ Cardinality(S \cup ({r} \X (1..n))) = Cardinality(S) + n
<1> DEFINE B == {r} \X (1..n)
<1>1. IsFiniteSet(B) /\ Cardinality(B) = n
  BY BlockSize
<1>2. Cardinality(S) \in Nat
  BY FS_CardinalityType
<1> HIDE DEF B
<1>3. /\ IsFiniteSet(S \cup B)
      /\ Cardinality(S \cup B) = Cardinality(S) + Cardinality(B) - Cardinality(S \cap B)
  BY <1>1, FS_Union
<1>4. Cardinality(S \cap B) = 0
  BY FS_EmptySet DEF B
<1>5. Cardinality(S \cup B) = Cardinality(S) + n
  BY <1>1, <1>2, <1>3, <1>4
<1> QED
  BY <1>3, <1>5 DEF B

HeldInv == \A a \in Ids : IsFiniteSet(Held(a)) /\ reserved[a] = Cardinality(Held(a))

\* Held is untouched where no selection is in flight before or after a step.
LEMMA HeldSame ==
    ASSUME NEW a, \A q \in Routers : (q \in Holding /\ routes[q].account = a)
                      <=> (q \in Holding' /\ routes'[q].account = a),
           \A q \in Holding : routes[q].account = a => routes'[q].estimate = routes[q].estimate
    PROVE  Held(a)' = Held(a)
<1>1. {q \in Holding : routes[q].account = a}' = {q \in Holding : routes[q].account = a}
  BY DEF Holding
<1> QED
  BY <1>1 DEF Held

LEMMA HeldStep == RouteTyped /\ HeldInv /\ [Next]_vars => HeldInv'
<1> SUFFICES ASSUME RouteTyped, HeldInv, [Next]_vars PROVE HeldInv'
  OBVIOUS
<1>1. ASSUME NEW r \in Routers, routes[r] = Idle \/ ~routes[r].held,
             routes'[r] = Idle \/ ~routes'[r].held,
             \A q \in Routers \ {r} : routes'[q] = routes[q], UNCHANGED reserved
      PROVE  HeldInv'
  <2>1. ASSUME NEW a \in Ids PROVE Held(a)' = Held(a)
    BY <1>1, HeldSame DEF Holding
  <2> QED
    BY <1>1, <2>1 DEF HeldInv
<1>2. ASSUME NEW r \in Routers, NEW mode, NEW estimate, Choose(r, mode, estimate)
      PROVE  HeldInv'
  <2>1. routes[r] = Idle /\ UNCHANGED reserved
    BY <1>2 DEF Choose
  <2>2. /\ \A q \in Routers \ {r} : routes'[q] = routes[q]
        /\ ~routes'[r].held
    BY <1>2 DEF Choose, RouteTyped
  <2> QED
    BY <1>1, <2>1, <2>2
<1>3. ASSUME NEW r \in Routers, Record(r) PROVE HeldInv'
  <2>0. /\ routes[r] \in Selections /\ routes[r] # Idle /\ ~routes[r].held
        /\ routes[r].account \in Ids /\ routes[r].estimate \in Nat
    BY <1>3 DEF Record, Pending, RouteTyped, Selections
  <2>1. PICK s \in Selections, b \in Ids, n \in Nat :
            /\ s = routes[r] /\ s # Idle /\ ~s.held
            /\ b = s.account /\ n = s.estimate
    BY <2>0
  <2>2. /\ reserved' = [reserved EXCEPT ![b] = @ + n]
        /\ routes' = [routes EXCEPT ![r].held = TRUE]
    BY <1>3, <2>1 DEF Record
  <2>3. /\ \A q \in Routers \ {r} : routes'[q] = routes[q]
        /\ routes'[r] = [s EXCEPT !.held = TRUE]
    BY <2>1, <2>2 DEF RouteTyped
  <2>4. /\ routes'[r] \in Selections /\ routes'[r].held
        /\ routes'[r].account = b /\ routes'[r].estimate = n
    BY <2>1, <2>3 DEF Selections
  <2>5. Holding' = Holding \cup {r} /\ r \notin Holding
    BY <2>1, <2>3, <2>4, IdleAssumption DEF Holding
  <2>6. ASSUME NEW a \in Ids, a # b
        PROVE  Held(a)' = Held(a) /\ reserved'[a] = reserved[a]
    <3>1. \A q \in Routers : (q \in Holding /\ routes[q].account = a)
                 <=> (q \in Holding' /\ routes'[q].account = a)
      BY <2>1, <2>3, <2>4, <2>5, <2>6
    <3>2. \A q \in Holding : routes[q].account = a => routes'[q].estimate = routes[q].estimate
      BY <2>3, <2>5 DEF Holding
    <3>3. Held(a)' = Held(a)
      BY <3>1, <3>2, HeldSame
    <3> QED
      BY <2>2, <2>6, <3>3 DEF RouteTyped
  <2>7. Held(b)' = Held(b) \cup ({r} \X (1..n)) /\ Held(b) \cap ({r} \X (1..n)) = {}
    <3> DEFINE H == {q \in Holding : routes[q].account = b}
    <3>1. {q \in Holding : routes[q].account = b}' = H \cup {r} /\ r \notin H
      <4>1. Holding \subseteq Routers
        BY DEF Holding
      <4> QED
        BY <2>1, <2>3, <2>4, <2>5, <4>1
    <3>2. \A q \in H : routes'[q].estimate = routes[q].estimate
      BY <2>3, <2>5 DEF Holding
    <3>3. Held(b)' = UNION {{q} \X (1..routes'[q].estimate) : q \in H \cup {r}}
      BY <3>1 DEF Held
    <3>4. Held(b) = UNION {{q} \X (1..routes[q].estimate) : q \in H}
      BY DEF Held
    <3> HIDE DEF H
    <3>5. Held(b)' = Held(b) \cup ({r} \X (1..n))
      BY <2>1, <2>4, <3>2, <3>3, <3>4
    <3>6. Held(b) \cap ({r} \X (1..n)) = {}
      BY <3>1, <3>4
    <3> QED
      BY <3>5, <3>6
  <2>8. IsFiniteSet(Held(b)) /\ reserved[b] = Cardinality(Held(b))
    BY <2>1 DEF HeldInv
  <2>9. IsFiniteSet(Held(b)') /\ reserved'[b] = Cardinality(Held(b)')
    <3>1. reserved'[b] = reserved[b] + n
      BY <2>1, <2>2 DEF RouteTyped
    <3>2. /\ IsFiniteSet(Held(b) \cup ({r} \X (1..n)))
          /\ Cardinality(Held(b) \cup ({r} \X (1..n))) = Cardinality(Held(b)) + n
      <4> HIDE DEF Held
      <4> QED
        BY <2>7, <2>8, AddBlock
    <3> QED
      BY <2>7, <2>8, <3>1, <3>2
  <2> QED
    BY <2>6, <2>9 DEF HeldInv
<1>4. ASSUME NEW r \in Routers, Release(r) PROVE HeldInv'
  <2>0. /\ routes[r] \in Selections /\ routes[r] # Idle /\ routes[r].held
        /\ routes[r].account \in Ids /\ routes[r].estimate \in Nat
    BY <1>4 DEF Release, Holding, RouteTyped, Selections
  <2>1. PICK s \in Selections, b \in Ids, n \in Nat :
            /\ s = routes[r] /\ s # Idle /\ s.held
            /\ b = s.account /\ n = s.estimate
    BY <2>0
  <2>2. /\ reserved' = [reserved EXCEPT ![b] = Released(n, @)]
        /\ routes' = [routes EXCEPT ![r] = Idle]
    BY <1>4, <2>1 DEF Release
  <2>3. /\ \A q \in Routers \ {r} : routes'[q] = routes[q]
        /\ routes'[r] = Idle
    BY <2>2 DEF RouteTyped
  <2>5. Holding' = Holding \ {r} /\ r \in Holding
    BY <2>1, <2>3 DEF Holding
  <2>6. ASSUME NEW a \in Ids, a # b
        PROVE  Held(a)' = Held(a) /\ reserved'[a] = reserved[a]
    <3>1. \A q \in Routers : (q \in Holding /\ routes[q].account = a)
                 <=> (q \in Holding' /\ routes'[q].account = a)
      BY <2>1, <2>3, <2>5, <2>6
    <3>2. \A q \in Holding :
              routes[q].account = a => q # r /\ q \in Routers
      BY <2>1, <2>6 DEF Holding
    <3>3. Held(a)' = Held(a)
      BY <2>3, <3>1, <3>2, HeldSame
    <3> QED
      BY <2>2, <2>6, <3>3 DEF RouteTyped
  <2>7. Held(b) = Held(b)' \cup ({r} \X (1..n)) /\ Held(b)' \cap ({r} \X (1..n)) = {}
    <3> DEFINE H == {q \in Holding : routes[q].account = b}
    <3>1. {q \in Holding : routes[q].account = b}' = H \ {r} /\ r \in H
      BY <2>1, <2>3, <2>5 DEF Holding
    <3>2. \A q \in H \ {r} : routes'[q].estimate = routes[q].estimate
      BY <2>3, <2>5 DEF Holding
    <3>3. Held(b)' = UNION {{q} \X (1..routes'[q].estimate) : q \in H \ {r}}
      BY <3>1 DEF Held
    <3>4. Held(b) = UNION {{q} \X (1..routes[q].estimate) : q \in H}
      BY DEF Held
    <3> HIDE DEF H
    <3>5. Held(b) = Held(b)' \cup ({r} \X (1..n))
      BY <2>1, <3>1, <3>2, <3>3, <3>4
    <3>6. Held(b)' \cap ({r} \X (1..n)) = {}
      BY <3>3
    <3> QED
      BY <3>5, <3>6
  <2>8. IsFiniteSet(Held(b)) /\ reserved[b] = Cardinality(Held(b))
    BY <2>1 DEF HeldInv
  <2>9. IsFiniteSet(Held(b)') /\ reserved'[b] = Cardinality(Held(b)')
    <3>1. IsFiniteSet(Held(b)')
      BY <2>7, <2>8, FS_Subset
    <3>2. Cardinality(Held(b)') \in Nat
      BY <3>1, FS_CardinalityType
    <3>3. Cardinality(Held(b)' \cup ({r} \X (1..n))) = Cardinality(Held(b)') + n
      BY <2>7, <3>1, AddBlock
    <3>4. reserved'[b] = Released(n, reserved[b])
      BY <2>1, <2>2 DEF RouteTyped
    <3> QED
      BY <2>7, <2>8, <3>1, <3>2, <3>3, <3>4 DEF Released, Most
  <2> QED
    BY <2>6, <2>9 DEF HeldInv
<1>5. CASE Edit \/ Read \/ UNCHANGED vars
  <2>1. UNCHANGED route_vars
    BY <1>5 DEF Edit, Read, Create, ReadRow, MissRow, WriteRow, FailRow, ProviderReads,
                LocalRefresh, Tick, vars
  <2>2. ASSUME NEW a \in Ids PROVE Held(a)' = Held(a)
    BY <2>1 DEF route_vars, Held, Holding
  <2> QED
    BY <2>1, <2>2 DEF route_vars, HeldInv
<1> QED
  BY <1>2, <1>3, <1>4, <1>5 DEF Next, Route

LEMMA HeldInit == Init => HeldInv
<1> SUFFICES ASSUME Init, NEW a \in Ids
             PROVE  IsFiniteSet(Held(a)) /\ reserved[a] = Cardinality(Held(a))
  BY DEF HeldInv
<1>1. Holding = {} /\ reserved[a] = 0
  BY DEF Init, Holding
<1>2. Held(a) = {}
  BY <1>1 DEF Held
<1> QED
  BY <1>1, <1>2, FS_EmptySet

(* What is reserved on an account is what the selections in flight on it   *)
(* asked for, for any number of callers and any estimates.                 *)
THEOREM AlwaysReservedExact == Spec => []ReservedExact
<1> DEFINE Inv == ReadInv /\ RouteTyped /\ HeldInv
<1>1. Init => Inv
  BY ReadInit, RouteInit, HeldInit
<1>2. Inv /\ [Next]_vars => Inv'
  BY ReadStep, RouteStep, HeldStep
<1>3. Inv => ReservedExact
  BY DEF HeldInv, ReservedExact
<1> QED
  BY <1>1, <1>2, <1>3, PTL DEF Spec

-----------------------------------------------------------------------------
(* Rotation.  The accounts a rotation has served are those on the way      *)
(* round, in the order of ids, from some account to the last pick.         *)
OnTheWay(b, s, t) ==
    IF Rank[s] <= Rank[t] THEN Rank[s] <= Rank[b] /\ Rank[b] <= Rank[t]
                          ELSE Rank[s] <= Rank[b] \/ Rank[b] <= Rank[t]

Way(s, t, A) == {b \in A : OnTheWay(b, s, t)}

\* What is in turn is the next one up from the last pick; or, where there is
\* none, the least.
LEMMA InTurnNext ==
    ASSUME NEW A \in SUBSET Ids, last \in A, NEW n, n = InTurn(A)
    PROVE  /\ n \in A
           /\ \/ /\ Rank[n] > Rank[last]
                 /\ \A b \in A : Rank[b] <= Rank[last] \/ Rank[n] <= Rank[b]
              \/ \A b \in A : Rank[n] <= Rank[b] /\ Rank[b] <= Rank[last]
<1> DEFINE later == {a \in A : last \in A /\ Rank[a] > Rank[last]}
<1>1. n = First(IF later # {} THEN later ELSE A)
  BY DEF InTurn
<1>2. later \in SUBSET Ids /\ later \subseteq A
  OBVIOUS
<1>3. \A b \in A : Rank[b] \in Nat
  BY AccountsAssumption
<1>4. \A b \in A : b \in later <=> Rank[b] > Rank[last]
  OBVIOUS
<1> HIDE DEF later
<1>5. CASE later # {}
  <2>1. n \in later /\ \A b \in later : Rank[n] <= Rank[b]
    BY <1>1, <1>2, <1>5, FirstLeast
  <2> QED
    BY <1>2, <1>3, <1>4, <2>1
<1>6. CASE later = {}
  <2>1. n \in A /\ \A b \in A : Rank[n] <= Rank[b]
    BY <1>1, <1>6, FirstLeast
  <2> QED
    BY <1>3, <1>4, <1>6, <2>1
<1> QED
  BY <1>5, <1>6

\* As long as someone is off the way, the one in turn is, and once it is
\* picked the way leads to it.
LEMMA WayOn ==
    ASSUME NEW A \in SUBSET Ids, last \in A, NEW s \in A, Way(s, last, A) # A,
           NEW n, n = InTurn(A)
    PROVE  /\ n \in A /\ n \notin Way(s, last, A)
           /\ Way(s, n, A) = Way(s, last, A) \cup {n}
<1>1. \A b \in A : Rank[b] \in Nat
  BY AccountsAssumption
<1>2. \A b, c \in A : Rank[b] = Rank[c] => b = c
  BY AccountsAssumption
<1>3. n \in A
  BY InTurnNext
<1>4. PICK o \in A : ~OnTheWay(o, s, last)
  BY DEF Way
<1>5. CASE /\ Rank[n] > Rank[last]
           /\ \A b \in A : Rank[b] <= Rank[last] \/ Rank[n] <= Rank[b]
  <2>1. ~OnTheWay(n, s, last)
    BY <1>1, <1>3, <1>4, <1>5 DEF OnTheWay
  <2>2. \A b \in A : OnTheWay(b, s, n) <=> OnTheWay(b, s, last) \/ Rank[b] = Rank[n]
    BY <1>1, <1>3, <1>5, <2>1 DEF OnTheWay
  <2> QED
    BY <1>2, <1>3, <2>1, <2>2 DEF Way
<1>6. CASE \A b \in A : Rank[n] <= Rank[b] /\ Rank[b] <= Rank[last]
  <2>1. ~OnTheWay(n, s, last)
    BY <1>1, <1>3, <1>4, <1>6 DEF OnTheWay
  <2>2. \A b \in A : OnTheWay(b, s, n) <=> OnTheWay(b, s, last) \/ Rank[b] = Rank[n]
    BY <1>1, <1>3, <1>6, <2>1 DEF OnTheWay
  <2> QED
    BY <1>2, <1>3, <2>1, <2>2 DEF Way
<1> QED
  BY <1>5, <1>6, InTurnNext

\* The way from an account to itself.
LEMMA WayHome ==
    ASSUME NEW A \in SUBSET Ids, NEW n \in A
    PROVE  Way(n, n, A) = {n}
<1>1. \A b \in A : Rank[b] \in Nat /\ (Rank[b] = Rank[n] => b = n)
  BY AccountsAssumption
<1>2. \A b \in A : OnTheWay(b, n, n) <=> b = n
  BY <1>1 DEF OnTheWay
<1> QED
  BY <1>2 DEF Way

\* A selection no other disturbed holds the account that is in turn, and a
\* round that has begun is a way round that is not yet complete.
TurnHeld ==
    \A r \in Pending : Undisturbed(r) =>
        /\ routes[r].among # {}
        /\ routes[r].account = InTurn(routes[r].among)

OnRound ==
    round.served # {} =>
        /\ round.among \in SUBSET Ids
        /\ last \in round.served
        /\ round.served # round.among
        /\ \E s \in round.served : round.served = Way(s, last, round.among)

TurnInv == TurnHeld /\ OnRound

LEMMA NotServedYet == RouteTyped /\ TurnInv => RotationFair
<1> SUFFICES ASSUME RouteTyped, TurnInv, NEW r \in Pending, Undisturbed(r),
                    round.among = routes[r].among, round.served # {}
             PROVE  routes[r].account \notin round.served
  BY DEF RotationFair
<1> DEFINE A == round.among
<1>1. PICK s \in round.served : round.served = Way(s, last, A)
  BY DEF TurnInv, OnRound
<1>2. A \in SUBSET Ids /\ last \in A /\ s \in A /\ Way(s, last, A) # A
  BY <1>1 DEF TurnInv, OnRound, Way
<1>3. routes[r].account = InTurn(A)
  BY DEF TurnInv, TurnHeld
<1> QED
  BY <1>1, <1>2, <1>3, WayOn

\* A record of the account in turn: the round goes on.
LEMMA RoundGoesOn ==
    ASSUME OnRound, NEW A \in SUBSET Ids, A # {}, NEW n, n = InTurn(A), last' = n,
           round' = IF round.among # A THEN Served(A, {n})
                    ELSE Served(A, round.served \cup {n})
    PROVE  OnRound'
<1>1. n \in A
  BY InTurnIn
<1>2. CASE round.among # A \/ round.served = {}
  <2>1. round' = Served(A, {n})
    BY <1>2
  <2>2. CASE A = {n}
    BY <2>1, <2>2 DEF Served, OnRound
  <2>3. CASE A # {n}
    <3>1. round'.among = A /\ round'.served = {n}
      BY <2>1, <2>3 DEF Served
    <3>2. {n} = Way(n, n, A)
      BY <1>1, WayHome
    <3>3. \E s \in round'.served : round'.served = Way(s, last', round'.among)
      BY <3>1, <3>2
    <3> QED
      BY <2>3, <3>1, <3>3 DEF OnRound
  <2> QED
    BY <2>2, <2>3
<1>3. CASE round.among = A /\ round.served # {}
  <2> DEFINE W == round.served \cup {n}
  <2>1. PICK s \in round.served : round.served = Way(s, last, A)
    BY <1>3 DEF OnRound
  <2>2. last \in A /\ s \in A /\ Way(s, last, A) # A
    BY <1>3, <2>1 DEF OnRound, Way
  <2>3. Way(s, n, A) = W
    BY <2>1, <2>2, WayOn
  <2>4. round' = Served(A, W)
    BY <1>3
  <2>5. CASE W = A
    BY <2>4, <2>5 DEF Served, OnRound
  <2>6. CASE W # A
    <3>1. round'.among = A /\ round'.served = W
      BY <2>4, <2>6 DEF Served
    <3>2. \E t \in round'.served : round'.served = Way(t, last', round'.among)
      BY <2>3, <3>1
    <3> QED
      BY <2>6, <3>1, <3>2 DEF OnRound
  <2> QED
    BY <2>5, <2>6
<1> QED
  BY <1>2, <1>3

LEMMA TurnStep == ReadInv /\ RouteTyped /\ TurnInv /\ [Next]_vars => TurnInv'
<1> SUFFICES ASSUME ReadInv, RouteTyped, TurnInv, [Next]_vars PROVE TurnInv'
  OBVIOUS
<1>1. ASSUME UNCHANGED <<last, picks, round>>,
             NEW r \in Routers, \A q \in Routers \ {r} : routes'[q] = routes[q],
             r \in Pending' /\ Undisturbed(r)' =>
                 /\ routes'[r].among # {}
                 /\ routes'[r].account = InTurn(routes'[r].among)
      PROVE  TurnInv'
  <2>1. \A A : InTurn(A)' = InTurn(A)
    BY <1>1 DEF InTurn
  <2>2. OnRound'
    BY <1>1 DEF TurnInv, OnRound
  <2>3. ASSUME NEW q \in Pending', Undisturbed(q)'
        PROVE  /\ routes'[q].among # {}
               /\ routes'[q].account = InTurn(routes[q].among)'
    <3>1. CASE q = r
      BY <1>1, <2>3, <3>1 DEF InTurn
    <3>2. CASE q # r
      <4>1. q \in Pending /\ Undisturbed(q) /\ routes'[q] = routes[q]
        BY <1>1, <2>3, <3>2 DEF Pending, Undisturbed
      <4>2. /\ routes[q].among # {}
            /\ routes[q].account = InTurn(routes[q].among)
        BY <4>1 DEF TurnInv, TurnHeld
      <4> QED
        BY <1>1, <4>1, <4>2 DEF InTurn
    <3> QED
      BY <3>1, <3>2
  <2> QED
    BY <2>2, <2>3 DEF TurnInv, TurnHeld
<1>2. ASSUME NEW r \in Routers, NEW mode, NEW estimate, Choose(r, mode, estimate)
      PROVE  TurnInv'
  <2>1. PICK shown \in Shown :
            \E a \in PicksOf(ModeUsed(mode, shown), Considered(mode, shown), shown) :
                /\ a \in Considered(mode, shown)
                /\ routes' = [routes EXCEPT ![r] = Selection(a, mode, estimate, shown)]
    BY <1>2, ChosenEligible
  <2> DEFINE A == Considered(mode, shown)
             m == ModeUsed(mode, shown)
  <2>0. PICK a \in PicksOf(m, A, shown) :
            a \in A /\ routes' = [routes EXCEPT ![r] = Selection(a, mode, estimate, shown)]
    BY <2>1
  <2>2. UNCHANGED <<last, picks, round>> /\ A # {}
    BY <1>2, <2>0 DEF Choose
  <2>3. /\ \A q \in Routers \ {r} : routes'[q] = routes[q]
        /\ routes'[r].among = A /\ routes'[r].account = a /\ routes'[r].mode = m
    BY <2>0 DEF RouteTyped, Selection
  <2>4. m = "round_robin" => a = InTurn(A)
    BY <2>0 DEF PicksOf
  <2> HIDE DEF A, m
  <2>5. Undisturbed(r)' => /\ routes'[r].among # {}
                           /\ routes'[r].account = InTurn(routes'[r].among)
    BY <2>2, <2>3, <2>4 DEF Undisturbed
  <2> QED
    BY <1>1, <2>2, <2>3, <2>5
<1>3. ASSUME NEW r \in Routers, Record(r) PROVE TurnInv'
  <2>1. /\ r \in Pending /\ picks' = picks + 1 /\ last' = routes[r].account
        /\ routes' = [routes EXCEPT ![r].held = TRUE]
        /\ round' = IF ~Undisturbed(r) THEN Served({}, {})
                    ELSE IF round.among # routes[r].among
                         THEN Served(routes[r].among, {routes[r].account})
                    ELSE Served(routes[r].among, round.served \cup {routes[r].account})
    BY <1>3 DEF Record
  <2>2. ASSUME NEW q \in Pending' PROVE ~Undisturbed(q)'
    <3>1. routes[r] \in Selections
      BY <2>1 DEF Pending, RouteTyped
    <3>2. routes'[r] = [routes[r] EXCEPT !.held = TRUE] /\ routes'[r].held
      BY <2>1, <3>1 DEF RouteTyped, Selections
    <3>3. q # r /\ q \in Routers
      BY <2>2, <3>2 DEF Pending
    <3>4. routes'[q] = routes[q] /\ routes[q] # Idle /\ routes[q] \in Selections
      BY <2>1, <2>2, <3>3 DEF Pending, RouteTyped
    <3>5. routes[q].seen \in Nat /\ routes[q].seen <= picks /\ picks \in Nat
      BY <3>3, <3>4 DEF RouteTyped, Selections
    <3>6. routes'[q].seen # picks'
      BY <2>1, <3>4, <3>5
    <3> QED
      BY <3>6 DEF Undisturbed
  <2>3. TurnHeld'
    BY <2>2 DEF TurnHeld
  <2>4. OnRound'
    <3>1. CASE ~Undisturbed(r)
      BY <2>1, <3>1 DEF Served, OnRound
    <3>2. CASE Undisturbed(r)
      <4>1. /\ routes[r].among # {}
            /\ routes[r].account = InTurn(routes[r].among)
        BY <2>1, <3>2 DEF TurnInv, TurnHeld
      <4>2. routes[r].among \in SUBSET Ids /\ routes[r].account \in Ids
        BY <2>1 DEF Pending, RouteTyped, Selections
      <4>3. PICK A \in SUBSET Ids, n \in Ids : A = routes[r].among /\ n = routes[r].account
        BY <4>2
      <4>4. A # {} /\ n = InTurn(A) /\ last' = n
        BY <2>1, <4>1, <4>3
      <4>5. round' = IF round.among # A THEN Served(A, {n})
                     ELSE Served(A, round.served \cup {n})
        BY <2>1, <3>2, <4>3
      <4>6. OnRound
        BY DEF TurnInv
      <4> QED
        BY <4>4, <4>5, <4>6, RoundGoesOn
    <3> QED
      BY <3>1, <3>2
  <2> QED
    BY <2>3, <2>4 DEF TurnInv
<1>4. ASSUME NEW r \in Routers, Release(r) PROVE TurnInv'
  <2>1. UNCHANGED <<last, picks, round>> /\ routes' = [routes EXCEPT ![r] = Idle]
    BY <1>4 DEF Release
  <2>2. routes'[r] = Idle /\ \A q \in Routers \ {r} : routes'[q] = routes[q]
    BY <2>1 DEF RouteTyped
  <2>3. r \notin Pending'
    BY <2>2 DEF Pending
  <2> QED
    BY <1>1, <2>1, <2>2, <2>3
<1>5. CASE Edit \/ Read \/ UNCHANGED vars
  <2>1. UNCHANGED route_vars
    BY <1>5 DEF Edit, Read, Create, ReadRow, MissRow, WriteRow, FailRow, ProviderReads,
                LocalRefresh, Tick, vars
  <2> QED
    BY <2>1 DEF route_vars, TurnInv, TurnHeld, OnRound, Pending, Undisturbed, InTurn
<1> QED
  BY <1>2, <1>3, <1>4, <1>5 DEF Next, Route

LEMMA TurnInit == Init => TurnInv
  BY DEF Init, TurnInv, TurnHeld, OnRound, Pending, Served

(* An undisturbed rotation serves every account it considers before it     *)
(* serves one again, for any number of accounts.                           *)
THEOREM RotationAlwaysFair == Spec => []RotationFair
<1> DEFINE Inv == ReadInv /\ RouteTyped /\ TurnInv
<1>1. Init => Inv
  BY ReadInit, RouteInit, TurnInit
<1>2. Inv /\ [Next]_vars => Inv'
  BY ReadStep, RouteStep, TurnStep
<1>3. Inv => RotationFair
  BY NotServedYet
<1> QED
  BY <1>1, <1>2, <1>3, PTL DEF Spec

=============================================================================
