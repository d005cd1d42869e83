----------------------------- MODULE VaultProofs -----------------------------
(* Proofs about Vault for any numbers of writers, names, secrets and        *)
(* operations: types, and that a damaged vault is refused.                  *)
EXTENDS Vault, SequenceTheorems, TLAPS

-----------------------------------------------------------------------------
(* What is in the hands of a writer follows from where it is.               *)
Typed ==
    /\ VaultTypeOK
    /\ \A w \in Writer :
          /\ pc[w] # "serving"
          /\ pc[w] # "idle" => op[w] \in Ops
          /\ pc[w] = "write" => key[w] \in Keys
    /\ pc[Gateway] \in {"idle", "key", "cut", "fill", "load", "serving"}

(* Without an overlap one writer is under way, it is the one that has cut   *)
(* the file, and none has got past a damaged one.                           *)
Alone ==
    "overlap" \notin why =>
        /\ \A v, w \in Writer : Busy(v) /\ Busy(w) => v = w
        /\ \A w \in Writer : pc[w] = "write" => vault = Empty
        /\ vault = Torn => \A w \in Writer : pc[w] \notin {"save", "write"}

(* What an operation has left to write leads to what it was asked for, only *)
(* the keyring backend visits the keyring, and its gateway never starts one.*)
Meant(w) ==
    LET last == Edit(op[w].name, op[w].to)
    IN  \/ edits[w] = <<last>>
        \/ op[w].do = "set" /\ edits[w] = <<Edit(op[w].name, None), last>>

Shaped ==
    /\ \A w \in Writer : pc[w] # "idle" =>
          Meant(w) /\ (pc[w] = "ring" => backend = "keyring")
    /\ \A n \in Name : refs[n].scheme = "vault" => refs[n].secret \in Secret
    /\ backend = "keyring" => pc[Gateway] \in {"idle", "serving"}
    /\ pc[Gateway] \notin {"cut", "fill"} /\ (backend = "vault" => keyFile # None)

(* Without an incident key and vault are whole unless a writer has just cut *)
(* them, the vault opens under the key, and it, or the map about to replace *)
(* it, agrees with the references.                                          *)
Agree(m, n) ==
    /\ refs[n].scheme = "vault" => m[n] = refs[n].secret
    /\ backend = "vault" /\ refs[n] = NoRef => m[n] = None

Midway(w) == \/ pc[w] = "write"
             \/ pc[w] = "save" /\ op[w].do = "set" /\ Len(edits[w]) = 1

Whole ==
    /\ backend = "vault" => keyFile \in Keys
    /\ keyFile = Empty => \E w \in Writer : pc[w] = "fill"
    /\ \A w \in Writer : pc[w] = "cut" => keyFile = None
    /\ \A w \in Writer : pc[w] = "fill" => keyFile = Empty
    /\ \A w \in Writer : pc[w] \in {"load", "save", "write"} =>
          keyFile \in Keys /\ key[w] = keyFile
    /\ vault # Torn
    /\ vault = Empty => \E w \in Writer : pc[w] = "write"
    /\ vault \in Sealed => keyFile = vault.key

Agreed ==
    /\ \A w \in Writer : pc[w] \in {"save", "write"} =>
          \A n \in Name \ {op[w].name} : Agree(mem[w], n)
    /\ \A w \in Writer : pc[w] = "write" => mem[w][op[w].name] = Head(edits[w]).to
    /\ (\A w \in Writer : ~Midway(w)) => \A n \in Name : Agree(Contents(vault), n)

Kept == why \subseteq {"glimpse"} => Whole /\ Agreed

(* What Whole and Agreed say while one writer is under way.                 *)
KeptBy(w) ==
    /\ backend = "vault" => keyFile \in Keys
    /\ keyFile = Empty => pc[w] = "fill"
    /\ pc[w] = "cut" => keyFile = None
    /\ pc[w] = "fill" => keyFile = Empty
    /\ pc[w] \in {"load", "save", "write"} => keyFile \in Keys /\ key[w] = keyFile
    /\ vault # Torn
    /\ vault = Empty => pc[w] = "write"
    /\ vault \in Sealed => keyFile = vault.key
    /\ pc[w] \in {"save", "write"} =>
          \A n \in Name \ {op[w].name} : Agree(mem[w], n)
    /\ pc[w] = "write" => mem[w][op[w].name] = Head(edits[w]).to
    /\ ~Midway(w) => \A n \in Name : Agree(Contents(vault), n)

-----------------------------------------------------------------------------
(* The shape of what an operation is begun with.                            *)
LEMMA EditsOfOps ==
    ASSUME NEW o \in Ops
    PROVE  /\ o.name \in Name /\ o.to \in Secret \cup {None}
           /\ o.do \in {"add", "set", "drop"}
           /\ Edit(o.name, o.to) \in Edits /\ Edit(o.name, None) \in Edits
  BY DEF Ops, Edit, Edits

LEMMA TailOfPair ==
    ASSUME NEW S, NEW x \in S, NEW y \in S
    PROVE  Tail(<<x, y>>) = <<y>>
<1>1. <<x, y>> \in Seq(S) /\ <<x, y>> # <<>> /\ Len(<<x, y>>) = 2 /\ <<x, y>>[2] = y
  OBVIOUS
<1>2. Tail(<<x, y>>) \in Seq(S) /\ Len(Tail(<<x, y>>)) = 1 /\ Tail(<<x, y>>)[1] = y
  BY <1>1, HeadTailProperties
<1>3. <<y>> \in Seq(S) /\ Len(<<y>>) = 1 /\ <<y>>[1] = y
  OBVIOUS
<1> QED
  BY <1>2, <1>3, SeqEqual

(* An operation that ends gives up everything it held.                      *)
LEMMA FinishTyped ==
    ASSUME Typed, NEW a \in Actor, Finish(a), UNCHANGED <<backend, reachable, seen>>,
           keyFile' \in Keys \cup {None, Empty},
           vault' \in Sealed \cup {None, Empty, Torn}, keyring' \in Maps,
           refs' \in [Name -> Refs], made' \in Keys, begun' \in 0..MaxOps,
           why' \subseteq {"overlap", "glimpse", "death"}
    PROVE  Typed'
<1> USE DEF Typed, VaultTypeOK, Finish, Goto
<1>1. mem' \in [Actor -> Maps] /\ edits' \in [Actor -> Seq(Edits)]
  BY DEF Maps, NoSecrets
<1>2. \A b \in Actor : Len(edits'[b]) <= 2
  BY <1>1
<1>3. \A b \in Actor : pc'[b] = "idle" => mem'[b] = NoSecrets /\ key'[b] = None
  OBVIOUS
<1>4. \A w \in Writer : pc'[w] # "idle" <=> edits'[w] # <<>>
  BY DEF Actor
<1> QED
  BY <1>1, <1>2, <1>3, <1>4, VaultAssumption DEF Actor

LEMMA ReferTyped ==
    ASSUME VaultTypeOK, NEW a \in Actor, op[a] \in Ops,
           NEW scheme \in {"vault", "keyring"}, Refer(a, scheme)
    PROVE  refs' \in [Name -> Refs]
<1>1. op[a].name \in Name /\ op[a].to \in Secret \cup {None}
  BY EditsOfOps
<1> QED
  BY <1>1 DEF VaultTypeOK, Refer, Refs, NoRef

-----------------------------------------------------------------------------
(* One lemma per group of actions.                                          *)
LEMMA BeginTyped ==
    ASSUME Typed, NEW w \in Writer, Begin(w)
    PROVE  Typed'
<1> USE DEF Typed, VaultTypeOK
<1>1. PICK o \in Ops :
        /\ pc[w] = "idle" /\ begun < MaxOps
        /\ Goto(w, FirstStep)
        /\ op' = [op EXCEPT ![w] = o]
        /\ edits' = [edits EXCEPT ![w] =
                        IF o.do = "set" THEN <<Edit(o.name, None), Edit(o.name, o.to)>>
                        ELSE <<Edit(o.name, o.to)>>]
        /\ begun' = begun + 1
        /\ why' = why \cup WritersMeet \cup (IF Busy(Gateway) THEN {"glimpse"} ELSE {})
        /\ UNCHANGED <<backend, diskVars, reachable, key, mem, refs, seen, made>>
  BY DEF Begin
<1>2. Edit(o.name, o.to) \in Edits /\ Edit(o.name, None) \in Edits
  BY EditsOfOps
<1>3. /\ <<Edit(o.name, None), Edit(o.name, o.to)>> \in Seq(Edits) \ {<<>>}
      /\ <<Edit(o.name, o.to)>> \in Seq(Edits) \ {<<>>}
      /\ Len(<<Edit(o.name, None), Edit(o.name, o.to)>>) = 2
      /\ Len(<<Edit(o.name, o.to)>>) = 1
  BY <1>2
<1>4. edits' \in [Actor -> Seq(Edits)] /\ (\A a \in Actor : Len(edits'[a]) <= 2)
      /\ edits'[w] # <<>>
  BY <1>1, <1>3 DEF Actor
<1>5. pc' = [pc EXCEPT ![w] = FirstStep] /\ FirstStep \in {"key", "ring"}
  BY <1>1 DEF Goto, FirstStep
<1>6. why' \subseteq {"overlap", "glimpse", "death"} /\ begun' \in 0..MaxOps
  BY <1>1, VaultAssumption DEF WritersMeet
<1>7. \A v \in Writer : pc'[v] # "idle" <=> edits'[v] # <<>>
  BY <1>1, <1>4, <1>5 DEF Actor
<1> QED
  BY <1>1, <1>4, <1>5, <1>6, <1>7, VaultAssumption DEF Actor, diskVars

LEMMA GatewayTyped ==
    ASSUME Typed, StartGateway \/ StopGateway \/ KeyringTurns
    PROVE  Typed'
<1>1. CASE StartGateway
  BY <1>1, VaultAssumption
     DEF Typed, VaultTypeOK, StartGateway, Goto, Actor, ReaderMeets, diskVars
<1>2. CASE StopGateway
  BY <1>2, FinishTyped DEF StopGateway, Typed, VaultTypeOK, Actor, diskVars
<1>3. CASE KeyringTurns
  BY <1>3 DEF KeyringTurns, Typed, VaultTypeOK, diskVars, managerVars
<1> QED
  BY <1>1, <1>2, <1>3

LEMMA RingTyped ==
    ASSUME Typed, NEW w \in Writer, Ring(w)
    PROVE  Typed'
<1> DEFINE o == op[w]
<1>1. w \in Actor /\ o \in Ops /\ o.name \in Name /\ o.to \in Secret \cup {None}
  BY EditsOfOps DEF Ring, Typed, Actor
<1>2. CASE o.do = "drop" \/ reachable
  <2>1. keyring' \in Maps
    BY <1>1, <1>2 DEF Ring, Typed, VaultTypeOK, Maps
  <2>2. Refer(w, "keyring") /\ Finish(w)
    BY <1>2 DEF Ring
  <2>3. refs' \in [Name -> Refs]
    BY <2>2, <1>1, ReferTyped DEF Typed
  <2> QED
    BY <2>1, <2>2, <2>3, <1>1, FinishTyped DEF Ring, Typed, VaultTypeOK
<1>3. CASE ~(o.do = "drop" \/ reachable)
  <2>1. /\ Goto(w, "key") /\ edits' = [edits EXCEPT ![w] = <<Edit(o.name, o.to)>>]
        /\ UNCHANGED <<backend, keyFile, vault, keyring, reachable, op, key, mem,
                       refs, seen, made, begun, why>>
    BY <1>3 DEF Ring
  <2>2. /\ <<Edit(o.name, o.to)>> \in Seq(Edits) \ {<<>>}
        /\ Len(<<Edit(o.name, o.to)>>) = 1
    BY <1>1, EditsOfOps
  <2>3. edits' \in [Actor -> Seq(Edits)] /\ (\A a \in Actor : Len(edits'[a]) <= 2)
        /\ edits'[w] # <<>>
    BY <2>1, <2>2, <1>1 DEF Typed, VaultTypeOK
  <2>4. \A v \in Writer : pc'[v] # "idle" <=> edits'[v] # <<>>
    BY <2>1, <2>3 DEF Typed, VaultTypeOK, Goto, Actor
  <2> QED
    BY <2>1, <2>3, <2>4, <1>1, VaultAssumption DEF Ring, Typed, VaultTypeOK, Goto, Actor
<1> QED
  BY <1>2, <1>3

LEMMA KeyTyped ==
    ASSUME Typed, NEW a \in Actor, ReadKey(a) \/ CutKey(a) \/ FillKey(a)
    PROVE  Typed'
<1> USE VaultAssumption DEF Typed, VaultTypeOK, Goto, Actor, diskVars
<1>1. CASE ReadKey(a)
  BY <1>1 DEF ReadKey
<1>2. CASE CutKey(a)
  BY <1>2 DEF CutKey
<1>3. CASE FillKey(a)
  <2>1. made' \in Keys
    BY <1>3 DEF FillKey, Keys
  <2> QED
    BY <1>3, <2>1 DEF FillKey
<1> QED
  BY <1>1, <1>2, <1>3

LEMMA LoadTyped ==
    ASSUME Typed, NEW a \in Actor, Load(a)
    PROVE  Typed'
<1>1. CASE Blank(vault) \/ Opens(key[a], vault)
  <2>1. Contents(vault) \in Maps
    BY <1>1 DEF Contents, Opens, Sealed, Maps, NoSecrets
  <2>2. mem' \in [Actor -> Maps]
    BY <2>1, <1>1 DEF Load, Typed, VaultTypeOK
  <2> QED
    BY <2>2, <1>1, VaultAssumption DEF Load, Typed, VaultTypeOK, Goto, Actor, diskVars
<1>2. CASE ~(Blank(vault) \/ Opens(key[a], vault))
  BY <1>2, FinishTyped DEF Load, Typed, VaultTypeOK, diskVars
<1> QED
  BY <1>1, <1>2

LEMMA SaveTyped ==
    ASSUME Typed, NEW w \in Writer, Open(w) \/ Write(w)
    PROVE  Typed'
<1>0. w \in Actor /\ edits[w] \in Seq(Edits)
  BY DEF Actor, Typed, VaultTypeOK
<1>1. CASE Open(w) /\ key[w] \in Keys
  <2>1. edits[w] # <<>>
    BY <1>1 DEF Open, Typed, VaultTypeOK
  <2>2. Head(edits[w]) \in Edits
    BY <2>1, <1>0
  <2>3. Edited(mem[w], Head(edits[w])) \in Maps
    BY <2>2, <1>0, <1>1 DEF Typed, VaultTypeOK, Edits, Maps, Edited
  <2>4. mem' \in [Actor -> Maps]
    BY <2>3, <1>0, <1>1 DEF Open, Typed, VaultTypeOK
  <2> QED
    BY <2>4, <1>0, <1>1, VaultAssumption DEF Open, Typed, VaultTypeOK, Goto, Actor
<1>2. CASE Open(w) /\ key[w] \notin Keys
  BY <1>2, <1>0, FinishTyped DEF Open, Typed, VaultTypeOK
<1>3. ASSUME Write(w) PROVE vault' \in Sealed \cup {Torn}
  BY <1>0, <1>3 DEF Write, Written, Typed, VaultTypeOK, Sealed
<1>4. CASE Write(w) /\ Len(edits[w]) > 1
  <2>0. edits[w] # <<>> /\ Len(edits[w]) <= 2 /\ Len(edits[w]) \in Nat
    BY <1>0, <1>4 DEF Typed, VaultTypeOK
  <2>1. Tail(edits[w]) \in Seq(Edits) \ {<<>>} /\ Len(Tail(edits[w])) <= 2
    <3>1. Tail(edits[w]) \in Seq(Edits) /\ Len(Tail(edits[w])) = Len(edits[w]) - 1
      BY <1>0, <2>0, HeadTailProperties
    <3>2. Len(Tail(edits[w])) # 0 /\ Len(Tail(edits[w])) <= 2
      <4>1. Len(edits[w]) > 1
        BY <1>4
      <4>2. \A n \in Nat : n > 1 /\ n <= 2 => n - 1 # 0 /\ n - 1 <= 2
        OBVIOUS
      <4> QED
        BY <2>0, <3>1, <4>1, <4>2, Zenon
    <3>3. Len(<<>>) = 0
      OBVIOUS
    <3> QED
      BY <3>1, <3>2, <3>3
  <2>2. edits' = [edits EXCEPT ![w] = Tail(edits[w])] /\ Goto(w, "save")
    BY <1>4 DEF Write
  <2>3. edits' \in [Actor -> Seq(Edits)] /\ (\A a \in Actor : Len(edits'[a]) <= 2)
        /\ edits'[w] # <<>>
    BY <2>1, <2>2, <1>0 DEF Typed, VaultTypeOK
  <2>4. \A v \in Writer : pc'[v] # "idle" <=> edits'[v] # <<>>
    BY <2>2, <2>3, <1>4 DEF Write, Goto, Typed, VaultTypeOK, Actor
  <2> QED
    BY <2>2, <2>3, <2>4, <1>0, <1>3, <1>4, VaultAssumption
       DEF Write, Typed, VaultTypeOK, Goto, Actor
<1>5. CASE Write(w) /\ ~(Len(edits[w]) > 1)
  <2>1. Refer(w, "vault") /\ Finish(w) /\ op[w] \in Ops
    BY <1>5 DEF Write, Typed
  <2>2. refs' \in [Name -> Refs]
    BY <2>1, <1>0, ReferTyped DEF Typed
  <2> QED
    BY <2>1, <2>2, <1>0, <1>3, <1>5, FinishTyped DEF Write, Typed, VaultTypeOK
<1> QED
  BY <1>1, <1>2, <1>4, <1>5

LEMMA DieTyped ==
    ASSUME Typed, NEW a \in Actor, Die(a)
    PROVE  Typed'
  BY FinishTyped DEF Die, Typed, VaultTypeOK

LEMMA TypedStep == Typed /\ [VaultNext]_vaultVars => Typed'
<1> SUFFICES ASSUME Typed, [VaultNext]_vaultVars PROVE Typed'
  OBVIOUS
<1>1. CASE UNCHANGED vaultVars
  BY <1>1 DEF Typed, VaultTypeOK, vaultVars, diskVars, managerVars
<1>2. CASE VaultNext
  BY <1>2, BeginTyped, GatewayTyped, RingTyped, KeyTyped, LoadTyped, SaveTyped, DieTyped
     DEF VaultNext
<1> QED
  BY <1>1, <1>2

LEMMA TypedInit == VaultInit => Typed
<1> SUFFICES ASSUME VaultInit PROVE Typed
  OBVIOUS
<1>1. NoSecrets \in Maps /\ refs \in [Name -> Refs]
  BY DEF VaultInit, NoSecrets, Maps, NoRef, Refs
<1>2. 1 \in Keys /\ 0 \in 0..MaxOps
  BY VaultAssumption DEF Keys
<1> QED
  BY <1>1, <1>2, VaultAssumption DEF VaultInit, Typed, VaultTypeOK, Actor

(* Every file, key, map and reference stays in its type, and what a manager *)
(* held is gone when its operation is over, for any writers and backends.   *)
THEOREM VaultTypeCorrect == VaultSpec => []VaultTypeOK
<1>1. Typed => VaultTypeOK
  BY DEF Typed
<1> QED
  BY TypedInit, TypedStep, <1>1, PTL DEF VaultSpec

-----------------------------------------------------------------------------
(* While one writer is under way and none overlapped, the others are idle.  *)
LEMMA OthersIdle ==
    ASSUME Typed, Alone, "overlap" \notin why, NEW w \in Writer, Busy(w)
    PROVE  \A v \in Writer : v # w => pc[v] = "idle"
  BY DEF Typed, Alone, Busy

(* A step of one writer that moves no other keeps them alone.               *)
LEMMA AloneByOne ==
    ASSUME Typed, Alone, NEW w \in Writer, Busy(w), why \subseteq why',
           \A v \in Writer \ {w} : pc'[v] = pc[v],
           "overlap" \notin why => (pc'[w] = "write" => vault' = Empty),
           "overlap" \notin why => (vault' = Torn => pc'[w] \notin {"save", "write"})
    PROVE  Alone'
<1> SUFFICES ASSUME "overlap" \notin why'
             PROVE  /\ \A u, v \in Writer : Busy(u)' /\ Busy(v)' => u = v
                    /\ \A v \in Writer : pc'[v] = "write" => vault' = Empty
                    /\ vault' = Torn => \A v \in Writer : pc'[v] \notin {"save", "write"}
  BY DEF Alone
<1>1. "overlap" \notin why
  OBVIOUS
<1>2. \A v \in Writer : v # w => pc'[v] = "idle"
  BY <1>1, OthersIdle
<1> QED
  BY <1>1, <1>2 DEF Busy

LEMMA AloneStep == Typed /\ Alone /\ [VaultNext]_vaultVars => Alone'
<1> SUFFICES ASSUME Typed, Alone, [VaultNext]_vaultVars PROVE Alone'
  OBVIOUS
<1>1. ASSUME NEW w \in Writer, Begin(w) PROVE Alone'
  <2>1. PICK o \in Ops :
          /\ Goto(w, FirstStep) /\ UNCHANGED vault
          /\ why' = why \cup WritersMeet \cup (IF Busy(Gateway) THEN {"glimpse"} ELSE {})
    BY <1>1 DEF Begin, diskVars
  <2>2. SUFFICES ASSUME "overlap" \notin why'
                 PROVE  /\ \A u, v \in Writer : Busy(u)' /\ Busy(v)' => u = v
                        /\ \A v \in Writer : pc'[v] = "write" => vault' = Empty
                        /\ vault' = Torn => \A v \in Writer : pc'[v] \notin {"save", "write"}
    BY DEF Alone
  <2>3. \A v \in Writer : ~Busy(v)
    BY <2>1, <2>2 DEF WritersMeet
  <2>4. pc'[w] \in {"key", "ring"} /\ \A v \in Writer : v # w => pc'[v] = pc[v]
    BY <2>1 DEF Goto, FirstStep, Typed, VaultTypeOK, Actor
  <2> QED
    BY <2>1, <2>3, <2>4 DEF Busy
<1>2. CASE StartGateway \/ StopGateway \/ KeyringTurns \/ UNCHANGED vaultVars
  <2>1. /\ \A v \in Writer : pc'[v] = pc[v]
        /\ UNCHANGED vault /\ why \subseteq why'
    BY <1>2, VaultAssumption
       DEF StartGateway, StopGateway, KeyringTurns, vaultVars, managerVars, diskVars,
           Goto, Finish, Typed, VaultTypeOK, Actor
  <2> QED
    BY <2>1 DEF Alone, Busy
<1>3. ASSUME NEW w \in Writer, Ring(w) PROVE Alone'
  <2>1. pc[w] = "ring" /\ pc' \in {[pc EXCEPT ![w] = "idle"], [pc EXCEPT ![w] = "key"]}
        /\ UNCHANGED <<vault, why>>
    BY <1>3 DEF Ring, Finish, Goto
  <2> QED
    BY <2>1, AloneByOne DEF Busy, Typed, VaultTypeOK, Actor
<1>4. ASSUME NEW a \in Actor, ReadKey(a) \/ CutKey(a) \/ FillKey(a) PROVE Alone'
  <2>1. /\ pc[a] \in {"key", "cut", "fill"} /\ UNCHANGED <<vault, why>>
        /\ pc' \in {[pc EXCEPT ![a] = p] : p \in {"load", "cut", "fill"}}
    BY <1>4 DEF ReadKey, CutKey, FillKey, Goto, diskVars
  <2>2. CASE a \in Writer
    <3>1. pc'[a] \in {"load", "cut", "fill"} /\ \A v \in Writer \ {a} : pc'[v] = pc[v]
      <4>1. PICK p \in {"load", "cut", "fill"} : pc' = [pc EXCEPT ![a] = p]
        BY <2>1
      <4> QED
        BY <4>1, <2>2 DEF Typed, VaultTypeOK, Actor
    <3> QED
      BY <3>1, <2>1, <2>2, AloneByOne DEF Busy
  <2>3. CASE a = Gateway
    BY <2>1, <2>3, VaultAssumption DEF Alone, Busy, Typed, VaultTypeOK, Actor
  <2> QED
    BY <2>2, <2>3 DEF Actor
<1>5. ASSUME NEW a \in Actor, Load(a) PROVE Alone'
  <2>1. UNCHANGED <<vault, why>> /\ pc[a] = "load"
    BY <1>5 DEF Load, diskVars
  <2>2. CASE a \in Writer
    <3>1. \/ pc' = [pc EXCEPT ![a] = "idle"]
          \/ pc' = [pc EXCEPT ![a] = "save"] /\ (Blank(vault) \/ Opens(key[a], vault))
      BY <1>5, <2>2, VaultAssumption DEF Load, Finish, Goto
    <3>2. Blank(vault) \/ Opens(key[a], vault) => vault # Torn
      BY VaultAssumption DEF Blank, Opens
    <3>3. /\ \A v \in Writer \ {a} : pc'[v] = pc[v]
          /\ pc'[a] # "write" /\ (vault' = Torn => pc'[a] \notin {"save", "write"})
      <4>1. CASE pc' = [pc EXCEPT ![a] = "idle"]
        BY <4>1, <2>2 DEF Typed, VaultTypeOK, Actor
      <4>2. CASE pc' = [pc EXCEPT ![a] = "save"] /\ vault # Torn
        BY <4>2, <2>1, <2>2 DEF Typed, VaultTypeOK, Actor
      <4> QED
        BY <4>1, <4>2, <3>1, <3>2
    <3> QED
      BY <3>3, <2>1, <2>2, AloneByOne DEF Busy
  <2>3. CASE a = Gateway
    <3>1. \A v \in Writer : pc'[v] = pc[v]
      BY <1>5, <2>3, VaultAssumption DEF Load, Finish, Goto, Typed, VaultTypeOK, Actor
    <3> QED
      BY <3>1, <2>1 DEF Alone, Busy
  <2> QED
    BY <2>2, <2>3 DEF Actor
<1>6. ASSUME NEW w \in Writer, Open(w) PROVE Alone'
  <2>1. /\ pc[w] = "save" /\ UNCHANGED why
        /\ \/ pc' = [pc EXCEPT ![w] = "write"] /\ vault' = Empty
           \/ pc' = [pc EXCEPT ![w] = "idle"] /\ UNCHANGED vault
    BY <1>6 DEF Open, Finish, Goto
  <2>2. Empty # Torn
    BY VaultAssumption
  <2> QED
    BY <2>1, <2>2, AloneByOne DEF Busy, Typed, VaultTypeOK, Actor
<1>7. ASSUME NEW w \in Writer, Write(w) PROVE Alone'
  <2>1. /\ pc[w] = "write" /\ UNCHANGED why /\ vault' \in Written(w)
        /\ pc' \in {[pc EXCEPT ![w] = "save"], [pc EXCEPT ![w] = "idle"]}
    BY <1>7 DEF Write, Finish, Goto
  <2>2. ASSUME "overlap" \notin why PROVE vault' # Torn
    <3>1. vault = Empty
      BY <2>1, <2>2 DEF Alone
    <3>2. vault' \in Sealed
      BY <2>1, <3>1 DEF Written, Sealed, Typed, VaultTypeOK, Actor
    <3> QED
      BY <3>2, VaultAssumption
  <2> QED
    BY <2>1, <2>2, AloneByOne DEF Busy, Typed, VaultTypeOK, Actor
<1>8. ASSUME NEW a \in Actor, Die(a) PROVE Alone'
  <2>1. /\ Busy(a) /\ pc' = [pc EXCEPT ![a] = "idle"] /\ why \subseteq why'
        /\ vault' \in IF pc[a] = "write" THEN {vault, Torn} ELSE {vault}
    BY <1>8 DEF Die, Finish, Goto
  <2>2. CASE a \in Writer
    BY <2>1, <2>2, AloneByOne DEF Typed, VaultTypeOK, Actor
  <2>3. CASE a = Gateway
    BY <2>1, <2>3, VaultAssumption DEF Alone, Busy, Typed, VaultTypeOK, Actor
  <2> QED
    BY <2>2, <2>3 DEF Actor
<1> QED
  BY <1>1, <1>2, <1>3, <1>4, <1>5, <1>6, <1>7, <1>8 DEF VaultNext

(* A damaged vault is never replaced while no two operations overlap:       *)
(* whoever opens it for writing has decrypted it first.                     *)
LEMMA DamageStep ==
    Typed /\ Alone /\ [VaultNext]_vaultVars
        => [vault = Torn /\ "overlap" \notin why => vault' = Torn]_vaultVars
<1> SUFFICES ASSUME Typed, Alone, VaultNext, vault = Torn, "overlap" \notin why
             PROVE  vault' = Torn
  OBVIOUS
<1>1. \A w \in Writer : pc[w] \notin {"save", "write"}
  BY DEF Alone
<1>2. \A w \in Writer : ~Open(w) /\ ~Write(w)
  BY <1>1 DEF Open, Write
<1>3. \A a \in Actor : pc[a] # "write"
  BY <1>1 DEF Typed, Actor
<1>4. ASSUME NEW a \in Actor, Die(a) PROVE vault' = Torn
  BY <1>3, <1>4 DEF Die
<1>5. ASSUME NEW a \in Actor, ReadKey(a) \/ CutKey(a) \/ FillKey(a) \/ Load(a)
      PROVE  vault' = Torn
  BY <1>5 DEF ReadKey, CutKey, FillKey, Load, diskVars
<1>6. CASE StartGateway \/ StopGateway \/ KeyringTurns
  BY <1>6 DEF StartGateway, StopGateway, KeyringTurns, diskVars
<1>7. ASSUME NEW w \in Writer, Begin(w) \/ Ring(w) PROVE vault' = Torn
  BY <1>7 DEF Begin, Ring, diskVars
<1> QED
  BY <1>2, <1>4, <1>5, <1>6, <1>7 DEF VaultNext

(* DamageRefused for any number of writers, secrets, deaths and operations. *)
THEOREM DamageAlwaysRefused == VaultSpec => DamageRefused
<1>1. VaultInit => Typed /\ Alone
  <2>1. VaultInit => Alone
    BY VaultAssumption DEF VaultInit, Alone, Busy, Actor
  <2> QED
    BY <2>1, TypedInit
<1>2. Typed /\ Alone /\ [VaultNext]_vaultVars => (Typed /\ Alone)'
  BY TypedStep, AloneStep
<1> QED
  BY <1>1, <1>2, DamageStep, PTL DEF VaultSpec, DamageRefused

-----------------------------------------------------------------------------
(* Each operation keeps its shape.                                          *)
LEMMA ShapedByOne ==
    ASSUME Typed, Shaped, NEW w \in Writer, UNCHANGED backend,
           \A v \in Writer \ {w} : pc'[v] = pc[v] /\ op'[v] = op[v] /\ edits'[v] = edits[v],
           pc'[Gateway] = pc[Gateway], keyFile' = None => keyFile = None,
           pc'[w] # "idle" => Meant(w)' /\ pc'[w] # "ring",
           UNCHANGED refs \/ \E scheme \in {"vault", "keyring"} : op[w] \in Ops /\ Refer(w, scheme)
    PROVE  Shaped'
<1>1. ASSUME NEW n \in Name, refs'[n].scheme = "vault" PROVE refs'[n].secret \in Secret
  <2>1. CASE UNCHANGED refs
    BY <1>1, <2>1 DEF Shaped
  <2>2. ASSUME NEW scheme \in {"vault", "keyring"}, op[w] \in Ops, Refer(w, scheme)
        PROVE  refs'[n].secret \in Secret
    <3>1. op[w].name \in Name /\ (op[w].do # "drop" => op[w].to \in Secret)
      BY <2>2 DEF Ops
    <3> QED
      BY <1>1, <2>2, <3>1 DEF Refer, Shaped, NoRef, Typed, VaultTypeOK
  <2> QED
    BY <2>1, <2>2
<1>2. \A v \in Writer : pc'[v] # "idle" =>
          Meant(v)' /\ (pc'[v] = "ring" => backend' = "keyring")
  BY DEF Shaped, Meant
<1> QED
  BY <1>1, <1>2 DEF Shaped

LEMMA ShapedStep == Typed /\ Shaped /\ [VaultNext]_vaultVars => Shaped'
<1> SUFFICES ASSUME Typed, Shaped, [VaultNext]_vaultVars PROVE Shaped'
  OBVIOUS
<1> USE VaultAssumption
<1>1. ASSUME NEW w \in Writer, Begin(w) PROVE Shaped'
  <2>1. PICK o \in Ops :
          /\ Goto(w, FirstStep) /\ op' = [op EXCEPT ![w] = o]
          /\ edits' = [edits EXCEPT ![w] =
                          IF o.do = "set" THEN <<Edit(o.name, None), Edit(o.name, o.to)>>
                          ELSE <<Edit(o.name, o.to)>>]
          /\ UNCHANGED <<backend, keyFile, refs>>
    BY <1>1 DEF Begin, diskVars
  <2>2. op'[w] = o /\ Meant(w)'
    BY <2>1 DEF Meant, Typed, VaultTypeOK, Actor
  <2>3. \A v \in Writer : v # w => pc'[v] = pc[v] /\ op'[v] = op[v] /\ edits'[v] = edits[v]
    BY <2>1 DEF Goto, Typed, VaultTypeOK, Actor
  <2>4. pc'[w] = FirstStep /\ pc'[Gateway] = pc[Gateway]
    BY <2>1 DEF Goto, Typed, VaultTypeOK, Actor
  <2>5. FirstStep = "ring" => backend' = "keyring"
    BY <2>1 DEF FirstStep, Typed, VaultTypeOK
  <2> QED
    BY <2>1, <2>2, <2>3, <2>4, <2>5 DEF Shaped, Meant
<1>2. CASE StartGateway
  <2>1. /\ pc' = [pc EXCEPT ![Gateway] = IF backend = "vault" THEN "key" ELSE "serving"]
        /\ UNCHANGED <<backend, keyFile, op, edits, refs>>
    BY <1>2 DEF StartGateway, Goto, diskVars
  <2>2. pc'[Gateway] \in {"key", "serving"} /\ (backend = "keyring" => pc'[Gateway] = "serving")
        /\ \A w \in Writer : pc'[w] = pc[w]
    BY <2>1 DEF Typed, VaultTypeOK, Actor
  <2> QED
    BY <2>1, <2>2 DEF Shaped, Meant
<1>3. ASSUME NEW a \in Actor, a = Gateway, StopGateway \/ Die(a) PROVE Shaped'
  <2>1. Finish(Gateway) /\ UNCHANGED <<backend, keyFile, refs>>
    BY <1>3 DEF StopGateway, Die, diskVars
  <2>2. /\ pc'[Gateway] = "idle"
        /\ \A w \in Writer : pc'[w] = pc[w] /\ op'[w] = op[w] /\ edits'[w] = edits[w]
    BY <2>1 DEF Finish, Goto, Typed, VaultTypeOK, Actor
  <2> QED
    BY <2>1, <2>2 DEF Shaped, Meant
<1>4. CASE KeyringTurns \/ UNCHANGED vaultVars
  BY <1>4 DEF KeyringTurns, vaultVars, managerVars, diskVars, Shaped, Meant
<1>5. ASSUME NEW w \in Writer, Ring(w) PROVE Shaped'
  <2>0. w \in Actor /\ op[w] \in Ops
    BY <1>5 DEF Ring, Typed, Actor
  <2>1. CASE op[w].do = "drop" \/ reachable
    <3>1. Refer(w, "keyring") /\ Finish(w) /\ UNCHANGED <<backend, keyFile>>
      BY <1>5, <2>1 DEF Ring
    <3> QED
      BY <2>0, <3>1, ShapedByOne DEF Finish, Goto, Typed, VaultTypeOK, Actor
  <2>2. CASE ~(op[w].do = "drop" \/ reachable)
    <3>1. /\ Goto(w, "key") /\ edits' = [edits EXCEPT ![w] = <<Edit(op[w].name, op[w].to)>>]
          /\ UNCHANGED <<backend, keyFile, refs, op>>
      BY <1>5, <2>2 DEF Ring
    <3>2. Meant(w)'
      BY <2>0, <3>1 DEF Meant, Typed, VaultTypeOK
    <3> QED
      BY <2>0, <3>1, <3>2, ShapedByOne DEF Goto, Typed, VaultTypeOK, Actor
  <2> QED
    BY <2>1, <2>2
<1>6. ASSUME NEW a \in Actor, ReadKey(a) \/ CutKey(a) \/ FillKey(a) PROVE Shaped'
  <2>1. /\ UNCHANGED <<backend, refs, op, edits>> /\ (keyFile' = None => keyFile = None)
        /\ pc[a] \in {"key", "cut", "fill"}
        /\ pc' = [pc EXCEPT ![a] = "load"] \/ pc' = [pc EXCEPT ![a] = "cut"]
              \/ pc' = [pc EXCEPT ![a] = "fill"]
    BY <1>6 DEF ReadKey, CutKey, FillKey, Goto, diskVars, Typed, VaultTypeOK, Keys
  <2>2. CASE a \in Writer
    <3>1. Meant(a)'
      BY <2>1, <2>2 DEF Shaped, Meant
    <3>2. pc'[a] # "ring" /\ pc'[Gateway] = pc[Gateway]
          /\ \A v \in Writer \ {a} : pc'[v] = pc[v]
      BY <2>1, <2>2 DEF Typed, VaultTypeOK, Actor
    <3> QED
      BY <2>1, <2>2, <3>1, <3>2, ShapedByOne
  <2>3. CASE a = Gateway
    <3>1. backend = "vault" /\ keyFile # None
      BY <2>1, <2>3 DEF Shaped, Typed, VaultTypeOK
    <3>2. pc' = [pc EXCEPT ![a] = "load"]
      BY <1>6, <2>1, <2>3, <3>1 DEF ReadKey, CutKey, FillKey, Goto, Shaped
    <3>3. pc'[Gateway] = "load" /\ \A w \in Writer : pc'[w] = pc[w]
      BY <2>3, <3>2 DEF Typed, VaultTypeOK, Actor
    <3> QED
      BY <2>1, <3>1, <3>3 DEF Shaped, Meant
  <2> QED
    BY <2>2, <2>3 DEF Actor
<1>7. ASSUME NEW a \in Actor, Load(a) PROVE Shaped'
  <2>1. /\ UNCHANGED <<backend, keyFile, refs>> /\ pc[a] = "load"
        /\ \/ UNCHANGED <<op, edits>> /\ pc' = [pc EXCEPT ![a] = IF a = Gateway THEN "serving" ELSE "save"]
           \/ Finish(a)
    BY <1>7 DEF Load, Goto, diskVars
  <2>2. /\ \A v \in Writer \ {a} : pc'[v] = pc[v] /\ op'[v] = op[v] /\ edits'[v] = edits[v]
        /\ pc'[a] \in {"idle", IF a = Gateway THEN "serving" ELSE "save"}
        /\ pc'[a] # "idle" => UNCHANGED <<op, edits>>
        /\ a # Gateway => pc'[Gateway] = pc[Gateway]
    BY <2>1 DEF Finish, Goto, Typed, VaultTypeOK, Actor
  <2>3. CASE a \in Writer
    <3>1. pc'[a] # "idle" => Meant(a)' /\ pc'[a] # "ring"
      BY <2>1, <2>2, <2>3 DEF Shaped, Meant
    <3> QED
      BY <2>1, <2>2, <2>3, <3>1, ShapedByOne
  <2>4. CASE a = Gateway
    BY <2>1, <2>2, <2>4 DEF Shaped, Meant
  <2> QED
    BY <2>3, <2>4 DEF Actor
<1>8. ASSUME NEW w \in Writer, Open(w) PROVE Shaped'
  <2>1. /\ UNCHANGED <<backend, keyFile, refs>> /\ pc[w] = "save"
        /\ \/ UNCHANGED <<op, edits>> /\ pc' = [pc EXCEPT ![w] = "write"]
           \/ Finish(w)
    BY <1>8 DEF Open, Goto
  <2>2. /\ \A v \in Writer \ {w} : pc'[v] = pc[v] /\ op'[v] = op[v] /\ edits'[v] = edits[v]
        /\ pc'[w] \in {"idle", "write"} /\ pc'[Gateway] = pc[Gateway]
        /\ pc'[w] # "idle" => UNCHANGED <<op, edits>>
    BY <2>1 DEF Finish, Goto, Typed, VaultTypeOK, Actor
  <2>3. pc'[w] # "idle" => Meant(w)'
    BY <2>1, <2>2 DEF Shaped, Meant
  <2> QED
    BY <2>1, <2>2, <2>3, ShapedByOne
<1>9. ASSUME NEW w \in Writer, Write(w) PROVE Shaped'
  <2>0. w \in Actor /\ op[w] \in Ops /\ pc[w] = "write" /\ UNCHANGED <<backend, keyFile>>
    BY <1>9 DEF Write, Typed, Actor
  <2>1. CASE Len(edits[w]) > 1
    <3>1. /\ UNCHANGED <<op, refs>> /\ pc' = [pc EXCEPT ![w] = "save"]
          /\ edits' = [edits EXCEPT ![w] = Tail(edits[w])]
      BY <1>9, <2>1 DEF Write, Goto
    <3>2. edits[w] = <<Edit(op[w].name, None), Edit(op[w].name, op[w].to)>>
      <4>1. Meant(w)
        BY <2>0 DEF Shaped
      <4>2. Len(<<Edit(op[w].name, op[w].to)>>) = 1 /\ ~(1 > 1)
        OBVIOUS
      <4> QED
        BY <2>1, <4>1, <4>2, Zenon DEF Meant
    <3>3. Tail(edits[w]) = <<Edit(op[w].name, op[w].to)>>
      <4>1. /\ Edit(op[w].name, None) \in Edits
            /\ Edit(op[w].name, op[w].to) \in Edits
        BY <2>0, EditsOfOps
      <4>2. Tail(<<Edit(op[w].name, None), Edit(op[w].name, op[w].to)>>)
              = <<Edit(op[w].name, op[w].to)>>
        BY <4>1, TailOfPair
      <4> QED
        BY <3>2, <4>2
    <3>4. Meant(w)'
      BY <2>0, <3>1, <3>3 DEF Meant, Typed, VaultTypeOK
    <3> QED
      BY <2>0, <3>1, <3>4, ShapedByOne DEF Typed, VaultTypeOK, Actor
  <2>2. CASE ~(Len(edits[w]) > 1)
    <3>1. Refer(w, "vault") /\ Finish(w)
      BY <1>9, <2>2 DEF Write
    <3> QED
      BY <2>0, <3>1, ShapedByOne DEF Finish, Goto, Typed, VaultTypeOK, Actor
  <2> QED
    BY <2>1, <2>2
<1>10. ASSUME NEW w \in Writer, Die(w) PROVE Shaped'
  BY <1>10, ShapedByOne DEF Die, Finish, Goto, Typed, VaultTypeOK, Actor
<1> QED
  BY <1>1, <1>2, <1>3, <1>4, <1>5, <1>6, <1>7, <1>8, <1>9, <1>10 DEF VaultNext, Actor

-----------------------------------------------------------------------------
(* With one writer under way, Whole and Agreed are about that one.          *)
LEMMA Focus ==
    ASSUME Typed, Alone, Kept, why \subseteq {"glimpse"}, NEW w \in Writer, Busy(w)
    PROVE  KeptBy(w)
<1>1. \A v \in Writer : v # w => pc[v] = "idle"
  BY OthersIdle
<1>2. Whole /\ Agreed
  BY DEF Kept
<1>3. \A v \in Writer : Midway(v) => v = w
  BY <1>1 DEF Midway
<1> QED
  BY <1>1, <1>2, <1>3 DEF Whole, Agreed, KeptBy

LEMMA KeptByOne ==
    ASSUME Typed, Alone, NEW w \in Writer, Busy(w), why \subseteq why',
           \A v \in Writer \ {w} : pc'[v] = pc[v],
           why' \subseteq {"glimpse"} => KeptBy(w)'
    PROVE  Kept'
<1> SUFFICES ASSUME why' \subseteq {"glimpse"} PROVE Whole' /\ Agreed'
  BY DEF Kept
<1>1. \A v \in Writer : v # w => pc'[v] = "idle"
  BY OthersIdle
<1>2. \A v \in Writer : v # w => ~Midway(v)'
  BY <1>1 DEF Midway
<1>3. Whole'
  BY <1>1 DEF Whole, KeptBy
<1>4. Agreed'
  BY <1>1, <1>2 DEF Agreed, KeptBy
<1> QED
  BY <1>3, <1>4

(* A step that moves no writer and touches no file keeps what is kept.      *)
LEMMA KeptByNone ==
    ASSUME Kept, why \subseteq why', UNCHANGED <<backend, keyFile, vault, refs>>,
           \A w \in Writer : /\ pc'[w] = pc[w] /\ op'[w] = op[w] /\ edits'[w] = edits[w]
                             /\ key'[w] = key[w] /\ mem'[w] = mem[w]
    PROVE  Kept'
<1> SUFFICES ASSUME why' \subseteq {"glimpse"} PROVE Whole' /\ Agreed'
  BY DEF Kept
<1>1. Whole /\ Agreed
  BY DEF Kept
<1>2. Whole'
  BY <1>1 DEF Whole
<1>3. \A w \in Writer : Midway(w)' <=> Midway(w)
  BY DEF Midway
<1>4. Agreed'
  BY <1>1, <1>3 DEF Agreed, Agree
<1> QED
  BY <1>2, <1>4

LEMMA BeginKept ==
    ASSUME Typed, Alone, Kept, NEW w \in Writer, Begin(w)
    PROVE  Kept'
<1> SUFFICES ASSUME why' \subseteq {"glimpse"} PROVE Whole' /\ Agreed'
  BY DEF Kept
<1>1. PICK o \in Ops :
        /\ Goto(w, FirstStep)
        /\ why' = why \cup WritersMeet \cup (IF Busy(Gateway) THEN {"glimpse"} ELSE {})
        /\ UNCHANGED <<backend, diskVars, key, mem, refs>>
  BY DEF Begin
<1>2. \A v \in Writer : ~Busy(v)
  BY <1>1 DEF WritersMeet
<1>3. \A v \in Writer : pc[v] = "idle" /\ pc'[v] \in {"idle", "key", "ring"}
  BY <1>1, <1>2 DEF Busy, Typed, Goto, FirstStep, VaultTypeOK, Actor
<1>4. Whole /\ Agreed
  BY <1>1 DEF Kept
<1>5. Whole'
  BY <1>1, <1>3, <1>4 DEF Whole, diskVars
<1>6. \A v \in Writer : ~Midway(v) /\ ~Midway(v)'
  BY <1>3 DEF Midway
<1>7. Agreed'
  BY <1>1, <1>3, <1>4, <1>6 DEF Agreed, Agree, diskVars
<1> QED
  BY <1>5, <1>7

LEMMA RingKept ==
    ASSUME Typed, Alone, Shaped, Kept, NEW w \in Writer, Ring(w)
    PROVE  Kept'
<1>1. /\ pc[w] = "ring" /\ backend = "keyring" /\ Busy(w)
      /\ UNCHANGED <<backend, keyFile, vault, why>>
      /\ pc'[w] \in {"idle", "key"} /\ \A v \in Writer \ {w} : pc'[v] = pc[v]
  BY DEF Ring, Finish, Goto, Busy, Shaped, Typed, VaultTypeOK, Actor
<1>2. \A n \in Name : refs'[n].scheme = "vault" => refs'[n] = refs[n]
  BY DEF Ring, Refer, NoRef, Typed, VaultTypeOK
<1>3. ASSUME why \subseteq {"glimpse"} PROVE KeptBy(w)'
  <2>1. KeptBy(w) /\ ~Midway(w)
    BY <1>1, <1>3, Focus DEF Midway
  <2>2. \A n \in Name : Agree(Contents(vault), n)'
    BY <1>1, <1>2, <2>1 DEF KeptBy, Agree
  <2> QED
    BY <1>1, <2>1, <2>2 DEF KeptBy
<1> QED
  BY <1>1, <1>3, KeptByOne

LEMMA KeyKept ==
    ASSUME Typed, Alone, Shaped, Kept, NEW a \in Actor,
           ReadKey(a) \/ CutKey(a) \/ FillKey(a)
    PROVE  Kept'
<1>1. /\ pc[a] \in {"key", "cut", "fill"}
      /\ UNCHANGED <<backend, vault, op, edits, mem, refs, why>>
      /\ \A b \in Actor \ {a} : pc'[b] = pc[b] /\ key'[b] = key[b]
  BY DEF ReadKey, CutKey, FillKey, Goto, diskVars, Typed, VaultTypeOK
<1>2. CASE a \in Writer
  <2>1. Busy(a)
    BY <1>1 DEF Busy
  <2>2. ASSUME why \subseteq {"glimpse"} PROVE KeptBy(a)'
    <3>1. KeptBy(a) /\ ~Midway(a)
      BY <1>1, <1>2, <2>1, <2>2, Focus DEF Midway
    <3>2. \A n \in Name : Agree(Contents(vault), n)'
      BY <1>1, <3>1 DEF KeptBy, Agree
    <3>3. pc'[a] \notin {"save", "write"}
      BY DEF ReadKey, CutKey, FillKey, Goto, Typed, VaultTypeOK
    <3>4. vault # Empty /\ (keyFile = None => vault \notin Sealed)
      BY <1>1, <3>1, VaultAssumption DEF KeptBy, Sealed
    <3>5. CASE ReadKey(a)
      <4>1. /\ pc[a] = "key" /\ UNCHANGED keyFile
            /\ pc'[a] = (IF keyFile # None THEN "load" ELSE "cut")
            /\ keyFile # None => key'[a] = keyFile
        BY <3>5 DEF ReadKey, Goto, diskVars, Typed, VaultTypeOK
      <4>2. keyFile # Empty
        BY <3>1, <4>1 DEF KeptBy
      <4>3. keyFile # None => keyFile \in Keys
        BY <4>2 DEF Typed, VaultTypeOK
      <4> QED
        BY <1>1, <3>1, <3>2, <3>3, <3>4, <4>1, <4>2, <4>3 DEF KeptBy
    <3>6. CASE CutKey(a)
      <4>1. pc[a] = "cut" /\ keyFile' = Empty /\ pc'[a] = "fill"
        BY <3>6 DEF CutKey, Goto, Typed, VaultTypeOK
      <4>2. keyFile = None /\ backend # "vault"
        BY <3>1, <4>1, VaultAssumption DEF KeptBy
      <4> QED
        BY <1>1, <3>1, <3>2, <3>3, <3>4, <4>1, <4>2 DEF KeptBy
    <3>7. CASE FillKey(a)
      <4>1. /\ pc[a] = "fill" /\ keyFile' \in Keys /\ key'[a] = keyFile' /\ pc'[a] = "load"
        BY <3>7 DEF FillKey, Goto, Typed, VaultTypeOK, Keys
      <4>2. vault \notin Sealed
        BY <3>1, <4>1, VaultAssumption DEF KeptBy, Sealed
      <4> QED
        BY <1>1, <3>1, <3>2, <3>3, <3>4, <4>1, <4>2, VaultAssumption DEF KeptBy
    <3> QED
      BY <3>5, <3>6, <3>7
  <2> QED
    BY <1>1, <1>2, <2>1, <2>2, KeptByOne DEF Actor
<1>3. CASE a = Gateway
  <2>1. ReadKey(a) /\ keyFile # None
    <3>1. pc[a] = "key"
      BY <1>1, <1>3 DEF Shaped
    <3>2. backend = "vault"
      BY <1>3, <3>1, VaultAssumption DEF Shaped, Typed, VaultTypeOK
    <3> QED
      BY <3>1, <3>2 DEF CutKey, FillKey, Shaped
  <2>2. UNCHANGED keyFile
    BY <2>1 DEF ReadKey, diskVars
  <2> QED
    BY <1>1, <1>3, <2>2, KeptByNone, VaultAssumption DEF Actor
<1> QED
  BY <1>2, <1>3 DEF Actor

LEMMA LoadKept ==
    ASSUME Typed, Alone, Kept, NEW a \in Actor, Load(a)
    PROVE  Kept'
<1>1. /\ pc[a] = "load" /\ UNCHANGED <<backend, keyFile, vault, refs, why>>
      /\ \A b \in Actor \ {a} : /\ pc'[b] = pc[b] /\ op'[b] = op[b] /\ edits'[b] = edits[b]
                                 /\ key'[b] = key[b] /\ mem'[b] = mem[b]
  BY DEF Load, Finish, Goto, diskVars, Typed, VaultTypeOK
<1>2. CASE a \in Writer
  <2>1. Busy(a)
    BY <1>1 DEF Busy
  <2>2. ASSUME why \subseteq {"glimpse"} PROVE KeptBy(a)'
    <3>1. KeptBy(a) /\ ~Midway(a)
      BY <1>1, <1>2, <2>1, <2>2, Focus DEF Midway
    <3>2. \A n \in Name : Agree(Contents(vault), n)'
      BY <1>1, <3>1 DEF KeptBy, Agree
    <3>3. \/ pc'[a] = "idle"
          \/ /\ pc'[a] = "save" /\ key'[a] = key[a] /\ op'[a] = op[a]
             /\ mem'[a] = Contents(vault)
      BY <1>2, VaultAssumption DEF Load, Finish, Goto, Typed, VaultTypeOK
    <3>4. pc'[a] = "save" => \A n \in Name : Agree(mem[a], n)'
      BY <1>1, <3>2, <3>3 DEF Agree
    <3> QED
      BY <1>1, <3>1, <3>2, <3>3, <3>4 DEF KeptBy
  <2> QED
    BY <1>1, <1>2, <2>1, <2>2, KeptByOne DEF Actor
<1>3. CASE a = Gateway
  BY <1>1, <1>3, KeptByNone, VaultAssumption DEF Actor
<1> QED
  BY <1>2, <1>3 DEF Actor

LEMMA OpenKept ==
    ASSUME Typed, Alone, Shaped, Kept, NEW w \in Writer, Open(w)
    PROVE  Kept'
<1>1. /\ pc[w] = "save" /\ Busy(w) /\ w \in Actor /\ op[w] \in Ops
      /\ UNCHANGED <<backend, keyFile, refs, why>>
      /\ \A v \in Writer \ {w} : pc'[v] = pc[v]
  BY DEF Open, Finish, Goto, Busy, Typed, VaultTypeOK, Actor
<1>2. ASSUME why \subseteq {"glimpse"} PROVE KeptBy(w)'
  <2>1. KeptBy(w) /\ key[w] \in Keys
    BY <1>1, <1>2, Focus DEF KeptBy
  <2>2. /\ mem' = [mem EXCEPT ![w] = Edited(mem[w], Head(edits[w]))]
        /\ vault' = Empty /\ pc'[w] = "write" /\ UNCHANGED <<op, edits, key>>
    BY <1>1, <2>1 DEF Open, Goto, Typed, VaultTypeOK
  <2>3. Head(edits[w]).name = op[w].name
    <3>1. Meant(w)
      BY <1>1 DEF Shaped
    <3>2. Head(<<Edit(op[w].name, op[w].to)>>) = Edit(op[w].name, op[w].to)
      OBVIOUS
    <3>3. Head(<<Edit(op[w].name, None), Edit(op[w].name, op[w].to)>>) = Edit(op[w].name, None)
      OBVIOUS
    <3>4. Head(edits[w]) \in {Edit(op[w].name, op[w].to), Edit(op[w].name, None)}
      BY <3>1, <3>2, <3>3, Zenon DEF Meant
    <3> QED
      BY <3>4 DEF Edit
  <2>4. op[w].name \in Name /\ mem[w] \in Maps
    BY <1>1, EditsOfOps DEF Typed, VaultTypeOK
  <2>5. /\ mem'[w][op[w].name] = Head(edits[w]).to
        /\ \A n \in Name \ {op[w].name} : mem'[w][n] = mem[w][n]
    BY <1>1, <2>2, <2>3, <2>4 DEF Edited, Maps, Typed, VaultTypeOK
  <2>6. \A n \in Name \ {op[w].name} : Agree(mem[w], n)'
    BY <1>1, <2>1, <2>5 DEF KeptBy, Agree
  <2>7. Midway(w)' /\ vault' \notin Sealed /\ vault' # Torn
    BY <2>2, VaultAssumption DEF Midway
  <2> QED
    BY <1>1, <2>1, <2>2, <2>5, <2>6, <2>7 DEF KeptBy
<1> QED
  BY <1>1, <1>2, KeptByOne

LEMMA WriteKept ==
    ASSUME Typed, Alone, Shaped, Kept, NEW w \in Writer, Write(w)
    PROVE  Kept'
<1>1. /\ pc[w] = "write" /\ Busy(w) /\ w \in Actor /\ op[w] \in Ops
      /\ op[w].name \in Name /\ (op[w].do = "drop" <=> op[w].to = None)
      /\ vault' \in Written(w) /\ UNCHANGED <<backend, keyFile, why>>
      /\ \A v \in Writer \ {w} : pc'[v] = pc[v]
  <2>1. pc[w] = "write" /\ w \in Actor /\ op[w] \in Ops
    BY DEF Write, Typed, Actor
  <2>2. op[w].name \in Name /\ (op[w].do = "drop" <=> op[w].to = None)
    <3>1. CASE op[w] \in [do: {"add", "set"}, name: Name, to: Secret]
      BY <3>1, VaultAssumption
    <3>2. CASE op[w] \in [do: {"drop"}, name: Name, to: {None}]
      BY <3>2
    <3> QED
      BY <2>1, <3>1, <3>2 DEF Ops
  <2>3. \A v \in Writer \ {w} : pc'[v] = pc[v]
    <3>1. pc' \in {[pc EXCEPT ![w] = "save"], [pc EXCEPT ![w] = "idle"]}
      BY DEF Write, Finish, Goto
    <3> QED
      BY <2>1, <3>1 DEF Typed, VaultTypeOK, Actor
  <2>4. vault' \in Written(w) /\ UNCHANGED <<backend, keyFile, why>>
    BY DEF Write
  <2> QED
    BY <2>1, <2>2, <2>3, <2>4 DEF Busy
<1>2. ASSUME why \subseteq {"glimpse"} PROVE KeptBy(w)'
  <2>1. KeptBy(w) /\ vault = Empty
    BY <1>1, <1>2, Focus DEF KeptBy, Alone
  <2>2. /\ vault' = [key |-> key[w], map |-> mem[w]] /\ vault' \in Sealed
        /\ vault'.key = keyFile' /\ Contents(vault') = mem[w]
    <3>1. vault' = [key |-> key[w], map |-> mem[w]]
      BY <1>1, <2>1 DEF Written
    <3>2. vault' \in Sealed
      BY <1>1, <3>1 DEF Sealed, Typed, VaultTypeOK
    <3>3. ~Blank(vault')
      BY <3>2, VaultAssumption DEF Blank
    <3> QED
      BY <1>1, <2>1, <3>1, <3>2, <3>3 DEF KeptBy, Contents
  <2>3. vault' # Torn /\ vault' # Empty
    BY <2>2, VaultAssumption
  <2>4. \A n \in Name \ {op[w].name} : Agree(mem[w], n)
    BY <1>1, <2>1 DEF KeptBy
  <2>5. CASE Len(edits[w]) > 1
    <3>1. /\ edits' = [edits EXCEPT ![w] = Tail(edits[w])] /\ pc'[w] = "save"
          /\ UNCHANGED <<op, key, mem, refs>>
      BY <1>1, <2>5 DEF Write, Goto, Typed, VaultTypeOK
    <3>2. op[w].do = "set" /\ edits'[w] = <<Edit(op[w].name, op[w].to)>>
      <4>1. Len(<<Edit(op[w].name, op[w].to)>>) = 1 /\ ~(1 > 1)
        OBVIOUS
      <4>2. Meant(w)
        BY <1>1 DEF Shaped
      <4>3. /\ op[w].do = "set"
            /\ edits[w] = <<Edit(op[w].name, None), Edit(op[w].name, op[w].to)>>
        BY <2>5, <4>1, <4>2, Zenon DEF Meant
      <4>4. /\ Edit(op[w].name, None) \in Edits
            /\ Edit(op[w].name, op[w].to) \in Edits
        BY <1>1, EditsOfOps
      <4>5. Tail(<<Edit(op[w].name, None), Edit(op[w].name, op[w].to)>>)
              = <<Edit(op[w].name, op[w].to)>>
        BY <4>4, TailOfPair
      <4> QED
        BY <1>1, <3>1, <4>3, <4>5 DEF Typed, VaultTypeOK
    <3>3. Midway(w)'
      BY <3>1, <3>2 DEF Midway
    <3>4. \A n \in Name \ {op[w].name} : Agree(mem[w], n)'
      BY <1>1, <2>4, <3>1 DEF Agree
    <3> QED
      BY <1>1, <2>1, <2>2, <2>3, <3>1, <3>3, <3>4 DEF KeptBy
  <2>6. CASE ~(Len(edits[w]) > 1)
    <3>1. Refer(w, "vault") /\ Finish(w) /\ pc'[w] = "idle"
      BY <1>1, <2>6 DEF Write, Finish, Goto, Typed, VaultTypeOK
    <3>2. mem[w][op[w].name] = op[w].to
      <4>1. Len(<<Edit(op[w].name, None), Edit(op[w].name, op[w].to)>>) = 2 /\ 2 > 1
        OBVIOUS
      <4>2. Meant(w)
        BY <1>1 DEF Shaped
      <4>3. edits[w] = <<Edit(op[w].name, op[w].to)>>
        BY <2>6, <4>1, <4>2, Zenon DEF Meant
      <4> QED
        BY <1>1, <2>1, <4>3 DEF KeptBy, Edit
    <3>3. /\ \A n \in Name \ {op[w].name} : refs'[n] = refs[n]
          /\ refs'[op[w].name] = (IF op[w].do = "drop" THEN NoRef
                                 ELSE [scheme |-> "vault", secret |-> op[w].to])
      BY <1>1, <3>1 DEF Refer, Typed, VaultTypeOK
    <3>4. \A n \in Name : Agree(Contents(vault), n)'
      <4>1. ASSUME NEW n \in Name, n # op[w].name PROVE Agree(Contents(vault), n)'
        BY <1>1, <2>2, <2>4, <3>3, <4>1 DEF Agree
      <4>2. ASSUME NEW n \in Name, n = op[w].name PROVE Agree(Contents(vault), n)'
        <5>1. Contents(vault')[n] = op[w].to
          BY <2>2, <3>2, <4>2
        <5>2. CASE op[w].do = "drop"
          <6>1. refs'[n] = NoRef /\ Contents(vault')[n] = None
            BY <1>1, <3>3, <4>2, <5>1, <5>2
          <6>2. NoRef.scheme # "vault"
            BY DEF NoRef
          <6> QED
            BY <6>1, <6>2 DEF Agree
        <5>3. CASE op[w].do # "drop"
          <6>1. refs'[n] = [scheme |-> "vault", secret |-> op[w].to]
            BY <3>3, <4>2, <5>3
          <6>2. refs'[n] # NoRef /\ refs'[n].secret = op[w].to
            BY <6>1 DEF NoRef
          <6> QED
            BY <5>1, <6>2 DEF Agree
        <5> QED
          BY <5>2, <5>3
      <4> QED
        BY <4>1, <4>2
    <3> QED
      BY <1>1, <2>1, <2>2, <2>3, <3>1, <3>4 DEF KeptBy
  <2> QED
    BY <2>5, <2>6
<1> QED
  BY <1>1, <1>2, KeptByOne

LEMMA DieKept ==
    ASSUME Typed, Alone, Shaped, Kept, NEW a \in Actor, Die(a)
    PROVE  Kept'
<1>1. /\ Busy(a) /\ why \subseteq why' /\ UNCHANGED <<backend, keyFile, refs>>
      /\ pc'[a] = "idle"
      /\ \A b \in Actor \ {a} : /\ pc'[b] = pc[b] /\ op'[b] = op[b] /\ edits'[b] = edits[b]
                                 /\ key'[b] = key[b] /\ mem'[b] = mem[b]
  BY DEF Die, Finish, Goto, Typed, VaultTypeOK
<1>2. CASE a \in Writer
  <2>1. ASSUME why' \subseteq {"glimpse"} PROVE KeptBy(a)'
    <3>1. ~Cut(a) /\ UNCHANGED vault /\ why \subseteq {"glimpse"}
      BY <2>1 DEF Die, Cut
    <3>2. KeptBy(a) /\ ~Midway(a) /\ pc[a] \notin {"fill", "write"}
      BY <1>1, <1>2, <3>1, Focus DEF Midway, Cut
    <3>3. \A n \in Name : Agree(Contents(vault), n)'
      BY <1>1, <3>1, <3>2 DEF KeptBy, Agree
    <3> QED
      BY <1>1, <3>1, <3>2, <3>3 DEF KeptBy
  <2> QED
    BY <1>1, <1>2, <2>1, KeptByOne DEF Actor
<1>3. CASE a = Gateway
  <2>1. UNCHANGED vault
    BY <1>3 DEF Die, Typed
  <2> QED
    BY <1>1, <1>3, <2>1, KeptByNone, VaultAssumption DEF Actor
<1> QED
  BY <1>2, <1>3 DEF Actor

LEMMA KeptStep ==
    Typed /\ Alone /\ Shaped /\ Kept /\ [VaultNext]_vaultVars => Kept'
<1> SUFFICES ASSUME Typed, Alone, Shaped, Kept, [VaultNext]_vaultVars PROVE Kept'
  OBVIOUS
<1>1. CASE StartGateway \/ StopGateway \/ KeyringTurns \/ UNCHANGED vaultVars
  <2>1. /\ why \subseteq why' /\ UNCHANGED <<backend, keyFile, vault, refs>>
        /\ \A w \in Writer : /\ pc'[w] = pc[w] /\ op'[w] = op[w] /\ edits'[w] = edits[w]
                             /\ key'[w] = key[w] /\ mem'[w] = mem[w]
    BY <1>1, VaultAssumption
       DEF StartGateway, StopGateway, KeyringTurns, vaultVars, managerVars, diskVars,
           Goto, Finish, Typed, VaultTypeOK, Actor
  <2> QED
    BY <2>1, KeptByNone
<1>2. CASE VaultNext
  BY <1>1, <1>2, BeginKept, RingKept, KeyKept, LoadKept, OpenKept, WriteKept, DieKept
     DEF VaultNext
<1> QED
  BY <1>1, <1>2

(* StoredSecretsKept for any number of writers, names and operations, with  *)
(* either backend: as long as no two operations overlapped and nobody died  *)
(* with a file cut, the vault opens and holds what is referred to.          *)
THEOREM StoredSecretsAlwaysKept == VaultSpec => []StoredSecretsKept
<1> DEFINE Inv == Typed /\ Alone /\ Shaped /\ Kept
<1>1. VaultInit => Inv
  <2> SUFFICES ASSUME VaultInit PROVE Inv
    OBVIOUS
  <2>1. Typed
    BY TypedInit
  <2>2. \A a \in Actor : pc[a] = "idle"
    BY DEF VaultInit
  <2>3. Alone
    BY <2>2 DEF Alone, Busy, VaultInit, Actor
  <2>4. Shaped
    BY <2>2, VaultAssumption DEF Shaped, VaultInit, NoRef, Actor, Keys
  <2>5. Whole
    BY <2>2, VaultAssumption DEF Whole, VaultInit, Actor, Keys
  <2>6. Agreed
    <3>1. \A n \in Name : Agree(Contents(vault), n)
      BY DEF VaultInit, Agree, Contents, Blank, NoSecrets, NoRef
    <3> QED
      BY <2>2, <3>1 DEF Agreed, Actor
  <2> QED
    BY <2>1, <2>3, <2>4, <2>5, <2>6 DEF Kept
<1>2. Inv /\ [VaultNext]_vaultVars => Inv'
  BY TypedStep, AloneStep, ShapedStep, KeptStep
<1>3. Inv => StoredSecretsKept
  <2> SUFFICES ASSUME Inv, Quiet, why \subseteq {"glimpse"}, NEW n \in Name
               PROVE  /\ refs[n].scheme = "vault" =>
                            Opens(keyFile, vault) /\ vault.map[n] = refs[n].secret
                      /\ backend = "vault" /\ refs[n] = NoRef => Contents(vault)[n] = None
    BY DEF StoredSecretsKept
  <2>1. \A w \in Writer : pc[w] = "idle" /\ ~Midway(w)
    BY DEF Quiet, Busy, Typed, Midway
  <2>2. Whole /\ Agree(Contents(vault), n)
    BY <2>1 DEF Kept, Agreed
  <2>3. ASSUME refs[n].scheme = "vault"
        PROVE  Opens(keyFile, vault) /\ vault.map[n] = refs[n].secret
    <3>1. refs[n].secret # None /\ Contents(vault)[n] = refs[n].secret
      BY <2>2, <2>3, VaultAssumption DEF Shaped, Agree
    <3>2. ~Blank(vault)
      BY <3>1 DEF Contents, NoSecrets
    <3>3. vault \in Sealed
      BY <2>2, <3>2 DEF Blank, Whole, Typed, VaultTypeOK
    <3> QED
      BY <2>2, <3>1, <3>2, <3>3 DEF Whole, Opens, Contents
  <2> QED
    BY <2>2, <2>3 DEF Agree
<1> QED
  BY <1>1, <1>2, <1>3, PTL DEF VaultSpec
=============================================================================
