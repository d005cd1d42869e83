------------------------ MODULE ConsoleConfigProofs ------------------------
(* Proofs about ConsoleConfig for any numbers of console requests, commands, *)
(* providers, routes, aliases and changes: types, that every configuration  *)
(* in use is closed under its references, that the file is only cut short   *)
(* or mixed up after two saves used path.tmp at once, and, of changes that  *)
(* do not overlap, that the gateway and the history follow the file and     *)
(* that no provider is left without its secret.                             *)
EXTENDS ConsoleConfig, TLAPS

-----------------------------------------------------------------------------
(* Lemmas about the operators on configurations.                            *)

(* What Load reads from a readable file is a configuration, and a valid one *)
(* if what the file holds is: the built-in defaults refer to nothing.       *)
LEMMA LoadedConfig ==
    ASSUME NEW f \in Content, Readable(f)
    PROVE  /\ Loaded(f) \in Configs
           /\ (f \in Configs => Valid(f)) => Valid(Loaded(f))
<1>1. NoEntries \in Configs
  BY DEF NoEntries, Configs
<1>2. Valid(NoEntries)
  BY ConsoleConfigAssumption DEF NoEntries, Valid, Exists
<1> QED
  BY <1>1, <1>2, ConsoleConfigAssumption DEF Content, Readable, Loaded

(* A change of one entry makes a configuration of a configuration.          *)
LEMMA RevisedConfig ==
    ASSUME NEW ch \in Changes, ch.do # "rollback", NEW c \in Configs,
           NEW seen, ch.key \in Provider => seen \in Scheme \cup {None}
    PROVE  Revised(ch, c, seen) \in Configs
<1>1. ch \in Change
  BY ConsoleConfigAssumption
<1>2. CASE ch.key \in Provider
  <2>1. ch.to \in Scheme \cup {None, "keep"}
    BY <1>1, <1>2, ConsoleConfigAssumption DEF Change
  <2>2. (IF ch.to = "keep" THEN seen ELSE ch.to) \in Scheme \cup {None}
    BY <2>1, <1>2
  <2>3. Revised(ch, c, seen) =
          [c EXCEPT !.providers[ch.key] = IF ch.to = "keep" THEN seen ELSE ch.to]
    BY <1>2, ConsoleConfigAssumption DEF Revised
  <2> QED
    BY <2>2, <2>3, <1>2 DEF Configs
<1>3. CASE ch.key \in Route
  <2>1. ch.do # "drop" => ch.to \in SUBSET Provider
    BY <1>1, <1>3, ConsoleConfigAssumption DEF Change
  <2>2. Revised(ch, c, seen) =
          [c EXCEPT !.routes[ch.key] = IF ch.do = "drop" THEN {} ELSE ch.to]
    BY <1>3, ConsoleConfigAssumption DEF Revised
  <2> QED
    BY <2>1, <2>2, <1>3 DEF Configs
<1>4. CASE ch.key \in Alias
  <2>1. ch.to \in Route \cup Provider \cup {None}
    BY <1>1, <1>4, ConsoleConfigAssumption DEF Change
  <2>2. Revised(ch, c, seen) = [c EXCEPT !.aliases[ch.key] = ch.to]
    BY <1>4, ConsoleConfigAssumption DEF Revised
  <2> QED
    BY <2>1, <2>2, <1>4 DEF Configs
<1>5. ch.key \in Provider \cup Route \cup Alias
  BY <1>1 DEF Change
<1> QED
  BY <1>2, <1>3, <1>4, <1>5

-----------------------------------------------------------------------------
(* Type correctness, strengthened with what an actor holds in each place:   *)
(* the change it makes, and the copy it will save.                          *)
Holds(a) ==
    /\ pc[a] # "idle" => change[a] \in Changes
    /\ pc[a] \in {"check", "vault", "remove", "store", "load"} =>
          change[a].do # "rollback"
    /\ pc[a] \in {"vault", "remove", "store"} =>
          change[a].key \in Provider /\ copy[a] \in Configs
    /\ pc[a] = "load" /\ (a \in Cli \/ change[a].key \in Provider) =>
          copy[a] \in Configs
    /\ pc[a] \in {"open", "write", "rename", "record", "reload"} =>
          copy[a] \in Configs

Typed == ConfigTypeOK /\ \A a \in Actor : Holds(a)

LEMMA TypedInit == ConfigInit => Typed
<1> SUFFICES ASSUME ConfigInit PROVE Typed
  OBVIOUS
<1>1. file \in Content /\ tmp \in Content \cup {None}
  BY ConsoleConfigAssumption DEF ConfigInit, Content
<1>2. ConfigTypeOK
  BY <1>1, ConsoleConfigAssumption DEF ConfigInit, ConfigTypeOK, Place
<1>3. \A a \in Actor : Holds(a)
  BY DEF ConfigInit, Holds
<1> QED
  BY <1>2, <1>3 DEF Typed

(* An actor that gives up or is done changes nothing else of the invariant. *)
LEMMA FinishTyped ==
    ASSUME Typed, NEW a \in Actor, Finish(a),
           UNCHANGED <<fileVars, secrets, history, known, begun>>,
           running' \in Configs, why' \subseteq Incident
    PROVE  Typed'
<1>1. ConfigTypeOK'
  BY ConsoleConfigAssumption
     DEF Typed, ConfigTypeOK, Finish, Goto, Place, fileVars
<1>2. \A b \in Actor : Holds(b)'
  BY DEF Typed, ConfigTypeOK, Holds, Finish, Goto
<1> QED
  BY <1>1, <1>2 DEF Typed

(* What an accepted change makes is a valid configuration.                  *)
LEMMA OutcomeConfig ==
    ASSUME Typed, NEW a \in Actor, pc[a] = "load", Accepts(a)
    PROVE  Outcome(a) \in Configs /\ Valid(Outcome(a))
<1>1. change[a] \in Changes /\ change[a].do # "rollback"
  BY DEF Typed, Holds
<1>2. change[a] \in Change
  BY <1>1, ConsoleConfigAssumption
<1>3. Base(a) \in Configs
  <2>1. CASE a \in Cli
    BY <2>1 DEF Typed, Holds, Base
  <2>2. CASE a \notin Cli
    BY <2>2, LoadedConfig DEF Typed, ConfigTypeOK, Base, Accepts, Actor
  <2> QED
    BY <2>1, <2>2
<1>4. change[a].key \in Provider => Seen(a) \in Scheme \cup {None}
  BY DEF Typed, Holds, Seen, Configs
<1>5. Outcome(a) \in Configs
  BY <1>1, <1>3, <1>4, RevisedConfig DEF Outcome
<1> QED
  BY <1>5 DEF Accepts

(* Typed is inductive.                                                      *)
LEMMA TypedStep == Typed /\ [ConfigNext]_configVars => Typed'
<1> SUFFICES ASSUME Typed, [ConfigNext]_configVars PROVE Typed'
  OBVIOUS
<1> USE DEF Actor
<1>1. ASSUME NEW a \in Actor, NEW ch \in Changes, Begin(a, ch) PROVE Typed'
  <2>1. ConfigTypeOK'
    <3>1. begun' \in 0..MaxChanges
      BY <1>1, ConsoleConfigAssumption DEF Typed, ConfigTypeOK, Begin
    <3>2. why' \subseteq Incident
      BY <1>1 DEF Typed, ConfigTypeOK, Begin, Incident
    <3> QED
      BY <1>1, <3>1, <3>2
         DEF Typed, ConfigTypeOK, Begin, Goto, Place, fileVars, gatewayVars
  <2>2. \A b \in Actor : Holds(b)'
    BY <1>1 DEF Typed, ConfigTypeOK, Holds, Begin, Goto, LooksFirst
  <2> QED
    BY <2>1, <2>2 DEF Typed
<1>2. ASSUME NEW a \in Actor, NEW ch \in Changes, BeginRollback(a, ch) PROVE Typed'
  <2>1. history[ch.key] \in Configs
    BY <1>2 DEF Typed, ConfigTypeOK, BeginRollback
  <2>2. ConfigTypeOK'
    <3>1. begun' \in 0..MaxChanges
      BY <1>2, ConsoleConfigAssumption DEF Typed, ConfigTypeOK, BeginRollback
    <3>2. why' \subseteq Incident
      BY <1>2 DEF Typed, ConfigTypeOK, BeginRollback, Incident
    <3> QED
      BY <1>2, <2>1, <3>1, <3>2
         DEF Typed, ConfigTypeOK, BeginRollback, Goto, Place, fileVars, gatewayVars
  <2>3. \A b \in Actor : Holds(b)'
    BY <1>2, <2>1 DEF Typed, ConfigTypeOK, Holds, BeginRollback, Goto
  <2> QED
    BY <2>2, <2>3 DEF Typed
<1>3. ASSUME NEW a \in Actor, Look(a) PROVE Typed'
  <2>1. Loaded(file) \in Configs
    BY <1>3, LoadedConfig DEF Typed, ConfigTypeOK, Look
  <2>2. ConfigTypeOK'
    BY <1>3, <2>1 DEF Typed, ConfigTypeOK, Look, Goto, Place, fileVars, gatewayVars
  <2>3. \A b \in Actor : Holds(b)'
    BY <1>3, <2>1 DEF Typed, ConfigTypeOK, Holds, Look, Goto, NeedsVault
  <2> QED
    BY <2>2, <2>3 DEF Typed
<1>4. ASSUME NEW a \in Actor,
             LoadVault(a) \/ RemoveSecret(a) \/ StoreSecret(a)
      PROVE  Typed'
  <2>1. change[a].key \in Provider
    BY <1>4 DEF Typed, Holds, LoadVault, RemoveSecret, StoreSecret
  <2>2. ConfigTypeOK'
    BY <1>4, <2>1
       DEF Typed, ConfigTypeOK, LoadVault, RemoveSecret, StoreSecret, Goto, Place,
           fileVars, gatewayVars
  <2>3. \A b \in Actor : Holds(b)'
    BY <1>4 DEF Typed, ConfigTypeOK, Holds, LoadVault, RemoveSecret, StoreSecret, Goto
  <2> QED
    BY <2>2, <2>3 DEF Typed
<1>5. ASSUME NEW a \in Actor, Revise(a) PROVE Typed'
  <2>1. Outcome(a) \in Configs
    BY <1>5, OutcomeConfig DEF Revise
  <2>2. ConfigTypeOK'
    BY <1>5, <2>1 DEF Typed, ConfigTypeOK, Revise, Goto, Place, fileVars, gatewayVars
  <2>3. \A b \in Actor : Holds(b)'
    BY <1>5, <2>1 DEF Typed, ConfigTypeOK, Holds, Revise, Goto
  <2> QED
    BY <2>2, <2>3 DEF Typed
<1>6. ASSUME NEW a \in Actor, Open(a) \/ Write(a) PROVE Typed'
  <2>1. copy[a] \in Configs
    BY <1>6 DEF Typed, Holds, Open, Write
  <2>2. tmp' \in Content \cup {None} /\ file' \in Content
    BY <1>6, <2>1 DEF Typed, ConfigTypeOK, Open, Write, Overlay, Content
  <2>3. ConfigTypeOK'
    BY <1>6, <2>2 DEF Typed, ConfigTypeOK, Open, Write, Goto, Place, Incident, gatewayVars
  <2>4. \A b \in Actor : Holds(b)'
    BY <1>6 DEF Typed, ConfigTypeOK, Holds, Open, Write, Goto
  <2> QED
    BY <2>3, <2>4 DEF Typed
<1>7. ASSUME NEW a \in Actor, Rename(a) \/ CliRename(a) PROVE Typed'
  <2>1. ConfigTypeOK'
    <3>1. at' = Moved(a) /\ file' = tmp /\ tmp # None /\ tmp' = None
      BY <1>7 DEF Rename, CliRename
    <3>2. Moved(a) \in [Actor -> {"tmp", "file", "gone"}]
      BY DEF Moved
    <3>3. file' \in Content
      BY <3>1 DEF Typed, ConfigTypeOK
    <3>4. CASE Rename(a)
      BY <3>1, <3>2, <3>3, <3>4 DEF Typed, ConfigTypeOK, Rename, Goto, Place, gatewayVars
    <3>5. CASE CliRename(a)
      <4>1. pc' \in [Actor -> Place] /\ why' \subseteq Incident
        BY <3>5 DEF Typed, ConfigTypeOK, CliRename, Goto, Place, Incident
      <4> QED
        BY <3>1, <3>2, <3>3, <3>5, <4>1 DEF Typed, ConfigTypeOK, CliRename, gatewayVars
    <3> QED
      BY <1>7, <3>4, <3>5
  <2>2. \A b \in Actor : Holds(b)'
    BY <1>7 DEF Typed, ConfigTypeOK, Holds, Rename, CliRename, Goto
  <2> QED
    BY <2>1, <2>2 DEF Typed
<1>8. ASSUME NEW a \in Actor, Record(a) PROVE Typed'
  <2>1. copy[a] \in Configs
    BY <1>8 DEF Typed, Holds, Record
  <2>2. ConfigTypeOK'
    BY <1>8, <2>1
       DEF Typed, ConfigTypeOK, Record, Recorded, AfterRecord, Goto, Place, fileVars, gatewayVars
  <2>3. \A b \in Actor : Holds(b)'
    BY <1>8, <2>1 DEF Typed, ConfigTypeOK, Holds, Record, AfterRecord, Goto
  <2> QED
    BY <2>2, <2>3 DEF Typed
<1>9. ASSUME NEW a \in Actor,
             \/ LookRefuses(a) \/ ReviseRefuses(a) \/ RenameFails(a)
             \/ StoreFails(a) \/ Killed(a)
      PROVE  Typed'
  <2>1. Finish(a) /\ UNCHANGED <<fileVars, secrets, history, gatewayVars, begun>>
    BY <1>9 DEF LookRefuses, ReviseRefuses, RenameFails, StoreFails, Killed
  <2>2. why' \subseteq Incident
    BY <1>9 DEF LookRefuses, ReviseRefuses, RenameFails, StoreFails, Killed, Incident,
                Typed, ConfigTypeOK
  <2> QED
    BY <2>1, <2>2, FinishTyped DEF Typed, ConfigTypeOK, gatewayVars
<1>10. ASSUME NEW a \in Actor, Reload(a) PROVE Typed'
  BY <1>10, FinishTyped DEF Typed, ConfigTypeOK, Holds, Reload
<1>11. ASSUME NEW a \in Actor, NoManager(a) \/ RecordFails(a) PROVE Typed'
  <2>1. CASE Finish(a)
    BY <1>11, <2>1, FinishTyped
       DEF NoManager, RecordFails, Typed, ConfigTypeOK, gatewayVars, Incident
  <2>2. CASE UNCHANGED <<change, copy, mem, at>> /\ ~Finish(a)
    <3>1. ConfigTypeOK'
      BY <1>11, <2>2
         DEF NoManager, RecordFails, Typed, ConfigTypeOK, Goto, Place, Incident,
             fileVars, gatewayVars
    <3>2. \A b \in Actor : Holds(b)'
      BY <1>11, <2>2 DEF NoManager, RecordFails, Typed, ConfigTypeOK, Holds, Goto
    <3> QED
      BY <3>1, <3>2 DEF Typed
  <2> QED
    BY <1>11, <2>1, <2>2 DEF NoManager, RecordFails
<1>12. CASE Restart
  <2>1. Loaded(file) \in Configs
    BY <1>12, LoadedConfig DEF Typed, ConfigTypeOK, Restart
  <2>2. ConfigTypeOK'
    BY <1>12, <2>1
       DEF Typed, ConfigTypeOK, Restart, Ended, Place, Incident, fileVars
  <2>3. \A b \in Actor : Holds(b)'
    BY <1>12 DEF Typed, ConfigTypeOK, Holds, Restart, Ended
  <2> QED
    BY <2>2, <2>3 DEF Typed
<1>13. CASE UNCHANGED configVars
  BY <1>13
     DEF configVars, fileVars, gatewayVars, actorVars, Typed, ConfigTypeOK, Holds
<1> QED
  BY <1>1, <1>2, <1>3, <1>4, <1>5, <1>6, <1>7, <1>8, <1>9, <1>10, <1>11, <1>12, <1>13
     DEF ConfigNext, HandlerStep

(* Every variable keeps its type: a save only ever writes a configuration,  *)
(* a revision only ever records one, and the gateway only ever runs one.    *)
THEOREM TypeCorrect == ConfigSpec => []ConfigTypeOK
<1>1. Typed => ConfigTypeOK
  BY DEF Typed
<1> QED
  BY TypedInit, TypedStep, <1>1, PTL DEF ConfigSpec

-----------------------------------------------------------------------------
(* References.  Between Validate and the end of the change an actor holds a *)
(* valid copy, so what Save writes, InsertConfigHistory records and Reload  *)
(* runs is valid; path.tmp is included because a rename may move another    *)
(* saver's file.                                                            *)
Checked == {"open", "write", "rename", "record", "reload"}

AllValid ==
    /\ \A c \in {file, tmp, running} : c \in Configs => Valid(c)
    /\ \A i \in DOMAIN history : Valid(history[i])
    /\ \A a \in Actor : pc[a] \in Checked => Valid(copy[a])

LEMMA ValidStep ==
    Typed /\ AllValid /\ [ConfigNext]_configVars => AllValid'
<1> SUFFICES ASSUME Typed, AllValid, [ConfigNext]_configVars PROVE AllValid'
  OBVIOUS
<1> USE DEF Actor
<1>1. ASSUME NEW a \in Actor, NEW ch \in Changes,
             Begin(a, ch) \/ BeginRollback(a, ch)
      PROVE  AllValid'
  BY <1>1
     DEF Typed, ConfigTypeOK, AllValid, Checked, Begin, BeginRollback, Goto, fileVars, gatewayVars
<1>2. ASSUME NEW a \in Actor,
             \/ Look(a) \/ LookRefuses(a) \/ LoadVault(a) \/ NoManager(a)
             \/ RemoveSecret(a) \/ StoreSecret(a) \/ ReviseRefuses(a)
             \/ RenameFails(a) \/ StoreFails(a) \/ Killed(a)
      PROVE  AllValid'
  <2>1. UNCHANGED <<file, tmp, running, history>>
    BY <1>2 DEF Look, LookRefuses, LoadVault, NoManager, RemoveSecret, StoreSecret,
                ReviseRefuses, RenameFails, StoreFails, Killed, fileVars, gatewayVars
  <2>2. pc'[a] \notin Checked /\ \A b \in Actor \ {a} : pc'[b] = pc[b] /\ copy'[b] = copy[b]
    BY <1>2 DEF Typed, ConfigTypeOK, Checked, Goto, Finish, Look, LookRefuses, LoadVault,
                NoManager, RemoveSecret, StoreSecret, ReviseRefuses, RenameFails,
                StoreFails, Killed
  <2> QED
    BY <2>1, <2>2 DEF AllValid
<1>3. ASSUME NEW a \in Actor, Revise(a) PROVE AllValid'
  <2>1. Valid(Outcome(a))
    BY <1>3, OutcomeConfig DEF Revise
  <2> QED
    BY <1>3, <2>1
       DEF Typed, ConfigTypeOK, AllValid, Checked, Revise, Goto, fileVars, gatewayVars
<1>4. ASSUME NEW a \in Actor, Open(a) PROVE AllValid'
  BY <1>4, ConsoleConfigAssumption
     DEF Typed, ConfigTypeOK, AllValid, Checked, Open, Goto, gatewayVars
<1>5. ASSUME NEW a \in Actor, Write(a) PROVE AllValid'
  <2>1. Valid(copy[a])
    BY <1>5 DEF Write, AllValid, Checked
  <2>2. tmp' \in {tmp, copy[a], Torn} /\ file' \in {file, copy[a], Torn}
    BY <1>5 DEF Write, Overlay
  <2>3. UNCHANGED <<running, history, copy>>
    BY <1>5 DEF Write, gatewayVars
  <2>4. \A b \in Actor : pc'[b] \in Checked => pc[b] \in Checked
    BY <1>5 DEF Typed, ConfigTypeOK, Write, Goto, Checked
  <2> QED
    BY <2>1, <2>2, <2>3, <2>4, ConsoleConfigAssumption DEF AllValid
<1>6. ASSUME NEW a \in Actor, Rename(a) \/ CliRename(a) PROVE AllValid'
  BY <1>6, ConsoleConfigAssumption
     DEF Typed, ConfigTypeOK, AllValid, Checked, Rename, CliRename, Goto, gatewayVars
<1>7. ASSUME NEW a \in Actor, Record(a) PROVE AllValid'
  <2>1. copy[a] \in Configs /\ Valid(copy[a])
    BY <1>7 DEF Record, Typed, Holds, AllValid, Checked
  <2>2. \A i \in DOMAIN history' : Valid(history'[i])
    BY <1>7, <2>1 DEF Record, Recorded, Typed, ConfigTypeOK, AllValid
  <2>3. \A b \in Actor : pc'[b] \in Checked => pc[b] \in Checked
    BY <1>7 DEF Typed, ConfigTypeOK, Record, AfterRecord, Goto, Checked
  <2> QED
    BY <1>7, <2>2, <2>3 DEF AllValid, Record, fileVars, gatewayVars
<1>8. ASSUME NEW a \in Actor, RecordFails(a) PROVE AllValid'
  BY <1>8
     DEF Typed, ConfigTypeOK, AllValid, Checked, RecordFails, Finish, Goto, fileVars, gatewayVars
<1>9. ASSUME NEW a \in Actor, Reload(a) PROVE AllValid'
  BY <1>9 DEF Typed, ConfigTypeOK, AllValid, Checked, Reload, Finish, Goto, fileVars
<1>10. CASE Restart
  <2>1. Valid(Loaded(file))
    BY <1>10, LoadedConfig DEF Typed, ConfigTypeOK, AllValid, Restart
  <2> QED
    BY <1>10, <2>1
       DEF Typed, ConfigTypeOK, AllValid, Checked, Restart, Ended, fileVars
<1>11. CASE UNCHANGED configVars
  BY <1>11 DEF configVars, fileVars, gatewayVars, actorVars, AllValid
<1> QED
  BY <1>1, <1>2, <1>3, <1>4, <1>5, <1>6, <1>7, <1>8, <1>9, <1>10, <1>11
     DEF ConfigNext, HandlerStep

(* However handlers and commands interleave and die, the file, the running  *)
(* configuration and every snapshot are closed under their references.      *)
THEOREM AlwaysReferencesClosed == ConfigSpec => []ReferencesClosed
<1>1. ConfigInit => AllValid
  BY ConsoleConfigAssumption DEF ConfigInit, AllValid, Checked
<1>2. AllValid => ReferencesClosed
  BY DEF AllValid, ReferencesClosed
<1> QED
  BY TypedInit, TypedStep, ValidStep, <1>1, <1>2, PTL DEF ConfigSpec

-----------------------------------------------------------------------------
(* The file.  Until two saves have used path.tmp at once there is at most   *)
(* one save between its truncation and its rename, path.tmp is the file it  *)
(* opened, empty until its one write and whole after it, so the rename      *)
(* replaces one whole configuration by another.                             *)
OneSaver ==
    "shared" \notin why =>
        /\ file \in Configs
        /\ \A a, b \in Actor : pc[a] \in Saving /\ pc[b] \in Saving => a = b
        /\ \A a \in Actor : pc[a] = "write" => at[a] = "tmp" /\ tmp = Empty
        /\ \A a \in Actor : pc[a] = "rename" => tmp \in Configs

LEMMA OneSaverStep ==
    Typed /\ OneSaver /\ [ConfigNext]_configVars => OneSaver'
<1> SUFFICES ASSUME Typed, OneSaver, [ConfigNext]_configVars, "shared" \notin why'
             PROVE  OneSaver'
  BY DEF OneSaver
<1> USE DEF Actor, Saving
<1>0. "shared" \notin why
  BY DEF ConfigNext, HandlerStep, Begin, BeginRollback, Look, LookRefuses, LoadVault,
         NoManager, RemoveSecret, StoreSecret, Revise, ReviseRefuses, Open, Write,
         Rename, CliRename, RenameFails, Record, RecordFails, Reload, StoreFails,
         Killed, Restart, configVars
<1>1. ASSUME NEW a \in Actor, NEW ch \in Changes,
             Begin(a, ch) \/ BeginRollback(a, ch)
      PROVE  OneSaver'
  BY <1>0, <1>1 DEF Typed, ConfigTypeOK, OneSaver, Begin, BeginRollback, Goto, fileVars
<1>2. ASSUME NEW a \in Actor,
             \/ Look(a) \/ LookRefuses(a) \/ LoadVault(a) \/ NoManager(a)
             \/ RemoveSecret(a) \/ StoreSecret(a) \/ Revise(a) \/ ReviseRefuses(a)
             \/ RenameFails(a) \/ Record(a) \/ RecordFails(a) \/ Reload(a)
             \/ StoreFails(a) \/ Killed(a)
      PROVE  OneSaver'
  <2>1. UNCHANGED <<file, tmp>>
    BY <1>2 DEF Look, LookRefuses, LoadVault, NoManager, RemoveSecret, StoreSecret,
                Revise, ReviseRefuses, RenameFails, Record, RecordFails, Reload,
                StoreFails, Killed, fileVars
  <2>2. pc'[a] \notin Saving /\ \A b \in Actor \ {a} : pc'[b] = pc[b] /\ at'[b] = at[b]
    BY <1>2 DEF Typed, ConfigTypeOK, Goto, Finish, Look, LookRefuses, LoadVault,
                NoManager, RemoveSecret, StoreSecret, Revise, ReviseRefuses,
                RenameFails, Record, AfterRecord, RecordFails, Reload, StoreFails, Killed
  <2> QED
    BY <1>0, <2>1, <2>2 DEF OneSaver
<1>3. ASSUME NEW a \in Actor, Open(a) PROVE OneSaver'
  <2>1. \A b \in Actor : pc[b] \notin Saving
    BY <1>3 DEF Open
  <2> QED
    BY <1>0, <1>3, <2>1 DEF Typed, ConfigTypeOK, OneSaver, Open, Goto
<1>4. ASSUME NEW a \in Actor, Write(a) PROVE OneSaver'
  <2>1. tmp' = copy[a] /\ file' = file /\ copy[a] \in Configs
    BY <1>0, <1>4 DEF OneSaver, Write, Overlay, Typed, Holds
  <2>2. \A b \in Actor : pc'[b] \in Saving => b = a
    BY <1>0, <1>4 DEF Typed, ConfigTypeOK, OneSaver, Write, Goto
  <2>3. pc'[a] = "rename"
    BY <1>4 DEF Typed, ConfigTypeOK, Write, Goto
  <2> QED
    BY <1>0, <2>1, <2>2, <2>3 DEF OneSaver
<1>5. ASSUME NEW a \in Actor, Rename(a) \/ CliRename(a) PROVE OneSaver'
  <2>1. file' \in Configs
    BY <1>0, <1>5 DEF OneSaver, Rename, CliRename
  <2>2. \A b \in Actor : pc'[b] \notin Saving
    BY <1>0, <1>5 DEF Typed, ConfigTypeOK, OneSaver, Rename, CliRename, Goto
  <2> QED
    BY <2>1, <2>2 DEF OneSaver
<1>6. CASE Restart
  <2>1. \A b \in Actor : pc'[b] \in Saving => pc'[b] = pc[b] /\ at'[b] = at[b]
    BY <1>6 DEF Typed, ConfigTypeOK, Restart, Ended
  <2> QED
    BY <1>0, <1>6, <2>1 DEF OneSaver, Restart, fileVars
<1>7. CASE UNCHANGED configVars
  BY <1>7 DEF configVars, fileVars, actorVars, OneSaver
<1> QED
  BY <1>1, <1>2, <1>3, <1>4, <1>5, <1>6, <1>7 DEF ConfigNext, HandlerStep

(* A death at any step of Save leaves a whole configuration behind; only    *)
(* two saves at once can cut the file short or mix it up.                   *)
THEOREM AlwaysWholeFile == ConfigSpec => []WholeFile
<1>1. ConfigInit => OneSaver
  BY ConsoleConfigAssumption DEF ConfigInit, OneSaver, Saving
<1>2. OneSaver => WholeFile
  BY ConsoleConfigAssumption DEF OneSaver, WholeFile
<1> QED
  BY TypedInit, TypedStep, OneSaverStep, <1>1, <1>2, PTL DEF ConfigSpec

-----------------------------------------------------------------------------
(* Changes that do not overlap.  Until a change begins while another is     *)
(* under way there is one actor at most, its save has path.tmp to itself,   *)
(* and what it renamed is the copy it goes on to record and run.            *)
Serial ==
    "overlap" \notin why =>
        /\ "shared" \notin why
        /\ \A a, b \in Actor : Busy(a) /\ Busy(b) => a = b
        /\ \A a \in Actor : pc[a] = "rename" => tmp = copy[a]
        /\ \A a \in Actor : pc[a] \in {"record", "reload"} => file = copy[a] /\ a \in Console

(* No incident is forgotten.                                                *)
LEMMA WhyGrows == [ConfigNext]_configVars => why \subseteq why'
BY DEF ConfigNext, HandlerStep, Begin, BeginRollback, Look, LookRefuses, LoadVault,
       NoManager, RemoveSecret, StoreSecret, Revise, ReviseRefuses, Open, Write,
       Rename, CliRename, RenameFails, Record, RecordFails, Reload, StoreFails,
       Killed, Restart, configVars

(* The steps of one actor between its beginning and its end that leave the  *)
(* file, path.tmp, the gateway and the history alone.                       *)
Between(a) ==
    \/ Look(a) \/ LookRefuses(a) \/ LoadVault(a) \/ NoManager(a)
    \/ RemoveSecret(a) \/ StoreSecret(a) \/ Revise(a) \/ ReviseRefuses(a)
    \/ RenameFails(a) \/ StoreFails(a) \/ Killed(a)

LEMMA BetweenSteps ==
    ASSUME Typed, NEW a \in Actor, Between(a)
    PROVE  /\ UNCHANGED <<file, tmp, running, known, history, begun>>
           /\ Busy(a)
           /\ pc'[a] \in {"idle", "vault", "remove", "store", "load", "open"}
           /\ \A b \in Actor \ {a} : /\ pc'[b] = pc[b] /\ copy'[b] = copy[b]
                                     /\ change'[b] = change[b] /\ mem'[b] = mem[b]
<1> USE DEF Typed, ConfigTypeOK, Goto, Finish, Busy, fileVars, gatewayVars
<1>1. CASE Look(a)
  BY <1>1 DEF Look
<1>2. CASE LookRefuses(a) \/ RenameFails(a) \/ StoreFails(a) \/ Killed(a) \/ ReviseRefuses(a)
  BY <1>2 DEF LookRefuses, RenameFails, StoreFails, Killed, ReviseRefuses
<1>3. CASE LoadVault(a)
  BY <1>3 DEF LoadVault
<1>4. CASE NoManager(a)
  BY <1>4 DEF NoManager
<1>5. CASE RemoveSecret(a) \/ StoreSecret(a)
  BY <1>5 DEF RemoveSecret, StoreSecret
<1>6. CASE Revise(a)
  BY <1>6 DEF Revise
<1> QED
  BY <1>1, <1>2, <1>3, <1>4, <1>5, <1>6 DEF Between

LEMMA SerialStep ==
    Typed /\ OneSaver /\ Serial /\ [ConfigNext]_configVars => Serial'
<1> SUFFICES ASSUME Typed, OneSaver, Serial, [ConfigNext]_configVars, "overlap" \notin why'
             PROVE  Serial'
  BY DEF Serial
<1>0. "overlap" \notin why
  BY WhyGrows
<1>1. /\ "shared" \notin why
      /\ \A a, b \in Actor : Busy(a) /\ Busy(b) => a = b
      /\ \A a \in Actor : pc[a] = "rename" => tmp = copy[a]
      /\ \A a \in Actor : pc[a] \in {"record", "reload"} => file = copy[a] /\ a \in Console
  BY <1>0 DEF Serial
<1>2. ASSUME NEW a \in Actor, NEW ch \in Changes, Begin(a, ch) \/ BeginRollback(a, ch)
      PROVE  Serial'
  <2>1. \A b \in Actor : ~Busy(b)
    BY <1>2 DEF Begin, BeginRollback
  <2>2. /\ pc'[a] \in {"check", "load", "open"}
        /\ \A b \in Actor \ {a} : pc'[b] = "idle"
        /\ "shared" \notin why'
    BY <1>1, <1>2, <2>1 DEF Typed, ConfigTypeOK, Begin, BeginRollback, Goto, Busy
  <2> QED
    BY <2>2 DEF Serial, Busy
<1>3. ASSUME NEW a \in Actor, Between(a) PROVE Serial'
  <2>1. "shared" \notin why'
    BY <1>1, <1>3 DEF Between, Look, LookRefuses, LoadVault, NoManager, RemoveSecret,
                      StoreSecret, Revise, ReviseRefuses, RenameFails, StoreFails, Killed
  <2>2. \A b \in Actor \ {a} : pc[b] = "idle" /\ pc'[b] = "idle"
    BY <1>1, <1>3, BetweenSteps DEF Busy
  <2>3. pc'[a] \in {"idle", "vault", "remove", "store", "load", "open"}
    BY <1>3, BetweenSteps
  <2> QED
    BY <2>1, <2>2, <2>3 DEF Serial, Busy
<1>4. ASSUME NEW a \in Actor, HandlerStep(a), ~Between(a) PROVE Serial'
  <2>0. Busy(a)
    BY <1>4 DEF HandlerStep, Between, Busy, Open, Write, Rename, CliRename, Record,
                RecordFails, Reload
  <2>1. \A b \in Actor \ {a} : pc[b] = "idle"
    BY <1>1, <2>0 DEF Busy
  <2>2. CASE Open(a)
    BY <1>1, <2>1, <2>2 DEF Serial, Typed, ConfigTypeOK, Open, Goto, Busy, Saving
  <2>3. CASE Write(a)
    <3>1. tmp' = copy[a] /\ copy' = copy /\ why' = why /\ pc' = [pc EXCEPT ![a] = "rename"]
      BY <1>1, <2>3 DEF OneSaver, Write, Goto, Overlay, Typed, Holds
    <3> QED
      BY <1>1, <2>1, <3>1 DEF Serial, Typed, ConfigTypeOK, Busy
  <2>4. CASE Rename(a)
    BY <1>1, <2>1, <2>4 DEF Serial, Typed, ConfigTypeOK, Rename, Goto, Busy
  <2>5. CASE CliRename(a)
    BY <1>1, <2>1, <2>5 DEF Serial, Typed, ConfigTypeOK, CliRename, Goto, Busy
  <2>6. CASE Record(a)
    BY <1>1, <2>1, <2>6
       DEF Serial, Typed, ConfigTypeOK, Record, AfterRecord, Goto, Busy, fileVars
  <2>7. CASE RecordFails(a)
    BY <1>1, <2>1, <2>7
       DEF Serial, Typed, ConfigTypeOK, RecordFails, Finish, Goto, Busy, fileVars
  <2>8. CASE Reload(a)
    BY <1>1, <2>1, <2>8
       DEF Serial, Typed, ConfigTypeOK, Reload, Finish, Goto, Busy, fileVars
  <2> QED
    BY <1>4, <2>2, <2>3, <2>4, <2>5, <2>6, <2>7, <2>8 DEF HandlerStep, Between
<1>5. CASE Restart
  <2>1. \A b \in Actor : pc'[b] # "idle" => b \notin Console /\ pc'[b] = pc[b] /\ copy'[b] = copy[b]
    BY <1>5 DEF Typed, ConfigTypeOK, Restart, Ended
  <2>2. file' = file /\ tmp' = tmp /\ "shared" \notin why'
    BY <1>1, <1>5 DEF Restart, fileVars
  <2> QED
    BY <1>1, <2>1, <2>2 DEF Serial, Busy
<1>6. CASE UNCHANGED configVars
  BY <1>1, <1>6 DEF Serial, Busy, configVars, fileVars, gatewayVars, actorVars
<1> QED
  BY <1>2, <1>3, <1>4, <1>5, <1>6 DEF ConfigNext

-----------------------------------------------------------------------------
(* The gateway.  While every change came from the console, one at a time,   *)
(* and no statement failed, the gateway runs what the file holds except     *)
(* between a rename and the reload that follows it.                         *)
Followed ==
    why \cap {"overlap", "cli", "store"} = {} =>
        running = file \/ \E a \in Actor : pc[a] \in {"record", "reload"}

(* What a step of one actor finds when changes do not overlap: nobody else  *)
(* is under way.                                                            *)
LEMMA Alone ==
    ASSUME Serial, "overlap" \notin why, NEW a \in Actor, Busy(a)
    PROVE  \A b \in Actor \ {a} : pc[b] = "idle"
BY DEF Serial, Busy

LEMMA FollowedStep ==
    Typed /\ OneSaver /\ Serial /\ Followed /\ [ConfigNext]_configVars => Followed'
<1> SUFFICES ASSUME Typed, OneSaver, Serial, Followed, [ConfigNext]_configVars,
                    why' \cap {"overlap", "cli", "store"} = {}
             PROVE  running' = file' \/ \E a \in Actor : pc'[a] \in {"record", "reload"}
  BY DEF Followed
<1>0. /\ why \cap {"overlap", "cli", "store"} = {}
      /\ running = file \/ \E a \in Actor : pc[a] \in {"record", "reload"}
  BY WhyGrows DEF Followed
<1>1. /\ "shared" \notin why
      /\ \A a \in Actor : pc[a] \in {"record", "reload"} => file = copy[a] /\ a \in Console
      /\ file \in Configs
  BY <1>0 DEF Serial, OneSaver
<1>2. ASSUME NEW a \in Actor, NEW ch \in Changes, Begin(a, ch) \/ BeginRollback(a, ch)
      PROVE  running' = file'
  <2>1. \A b \in Actor : ~Busy(b)
    BY <1>2 DEF Begin, BeginRollback
  <2> QED
    BY <1>0, <1>2, <2>1 DEF Begin, BeginRollback, Busy, fileVars, gatewayVars
<1>3. ASSUME NEW a \in Actor, Between(a) PROVE running' = file'
  <2>1. pc[a] \notin {"record", "reload"}
    BY <1>1, <1>3, ConsoleConfigAssumption
       DEF Between, Look, LookRefuses, LoadVault, NoManager, RemoveSecret, StoreSecret,
           Revise, ReviseRefuses, RenameFails, StoreFails, Killed
  <2>2. \A b \in Actor \ {a} : pc[b] = "idle"
    BY <1>0, <1>3, BetweenSteps, Alone
  <2> QED
    BY <1>0, <1>3, <2>1, <2>2, BetweenSteps
<1>4. ASSUME NEW a \in Actor, Open(a) \/ Write(a) PROVE running' = file'
  <2>1. running' = running /\ file' = file
    BY <1>1, <1>4 DEF Open, Write, OneSaver, gatewayVars
  <2>2. Busy(a) /\ pc[a] \notin {"record", "reload"}
    BY <1>4 DEF Open, Write, Busy
  <2>3. \A b \in Actor \ {a} : pc[b] = "idle"
    BY <1>0, <2>2, Alone
  <2> QED
    BY <1>0, <2>1, <2>2, <2>3
<1>5. ASSUME NEW a \in Actor, Rename(a) \/ Record(a) PROVE pc'[a] \in {"record", "reload"}
  BY <1>5 DEF Typed, ConfigTypeOK, Rename, Record, AfterRecord, Goto
<1>6. ASSUME NEW a \in Actor, CliRename(a) \/ RecordFails(a) PROVE FALSE
  BY <1>6 DEF CliRename, RecordFails
<1>7. ASSUME NEW a \in Actor, Reload(a) PROVE running' = file'
  BY <1>1, <1>7 DEF Reload, fileVars
<1>8. CASE Restart
  BY <1>1, <1>8, ConsoleConfigAssumption DEF Restart, Loaded, fileVars
<1>9. CASE UNCHANGED configVars
  BY <1>0, <1>9 DEF configVars, fileVars, gatewayVars, actorVars
<1> QED
  BY <1>2, <1>3, <1>4, <1>5, <1>6, <1>7, <1>8, <1>9 DEF ConfigNext, HandlerStep, Between

(* With no change under way the gateway runs what the file holds, unless    *)
(* changes overlapped, a command edited the file or the database failed; a  *)
(* crash is no exception, a restart reads the file.                         *)
THEOREM AlwaysRuntimeFollowsFile == ConfigSpec => []RuntimeFollowsFile
<1>1. ConfigInit => Serial /\ Followed /\ OneSaver
  BY ConsoleConfigAssumption DEF ConfigInit, Serial, Followed, OneSaver, Busy, Saving
<1>2. Followed => RuntimeFollowsFile
  BY DEF Followed, RuntimeFollowsFile, Quiet, Busy
<1> QED
  BY TypedInit, TypedStep, OneSaverStep, SerialStep, FollowedStep, <1>1, <1>2, PTL
     DEF ConfigSpec

-----------------------------------------------------------------------------
(* The history.  With the same exceptions and a death, the last revision is *)
(* what the file holds, except between a rename and the insert.             *)
LastRevision == IF history = <<>> THEN Initial ELSE history[Len(history)]

Chronicled ==
    why \cap {"overlap", "cli", "store", "crash"} = {} =>
        file = LastRevision \/ \E a \in Actor : pc[a] = "record"

LEMMA ChronicledStep ==
    Typed /\ OneSaver /\ Serial /\ Chronicled /\ [ConfigNext]_configVars => Chronicled'
<1> SUFFICES ASSUME Typed, OneSaver, Serial, Chronicled, [ConfigNext]_configVars,
                    why' \cap {"overlap", "cli", "store", "crash"} = {}
             PROVE  file' = LastRevision' \/ \E a \in Actor : pc'[a] = "record"
  BY DEF Chronicled
<1>0. /\ why \cap {"overlap", "cli", "store", "crash"} = {}
      /\ file = LastRevision \/ \E a \in Actor : pc[a] = "record"
  BY WhyGrows DEF Chronicled
<1>1. /\ "shared" \notin why
      /\ \A a \in Actor : pc[a] \in {"record", "reload"} => file = copy[a] /\ a \in Console
  BY <1>0 DEF Serial
<1>a. history' = history => LastRevision' = LastRevision
  BY DEF LastRevision
<1>2. ASSUME NEW a \in Actor, NEW ch \in Changes, Begin(a, ch) \/ BeginRollback(a, ch)
      PROVE  file' = LastRevision'
  <2>1. \A b \in Actor : ~Busy(b)
    BY <1>2 DEF Begin, BeginRollback
  <2> QED
    BY <1>0, <1>2, <1>a, <2>1 DEF Begin, BeginRollback, Busy, fileVars
<1>3. ASSUME NEW a \in Actor, Between(a) PROVE file' = LastRevision'
  <2>1. pc[a] # "record"
    BY <1>1, <1>3, ConsoleConfigAssumption
       DEF Between, Look, LookRefuses, LoadVault, NoManager, RemoveSecret, StoreSecret,
           Revise, ReviseRefuses, RenameFails, StoreFails, Killed
  <2>2. \A b \in Actor \ {a} : pc[b] = "idle"
    BY <1>0, <1>3, BetweenSteps, Alone
  <2> QED
    BY <1>0, <1>3, <1>a, <2>1, <2>2, BetweenSteps
<1>4. ASSUME NEW a \in Actor, Open(a) \/ Write(a) \/ Reload(a) PROVE file' = LastRevision'
  <2>1. history' = history /\ file' = file
    BY <1>1, <1>4 DEF Open, Write, Reload, OneSaver, fileVars
  <2>2. Busy(a) /\ pc[a] # "record"
    BY <1>4 DEF Open, Write, Reload, Busy
  <2>3. \A b \in Actor \ {a} : pc[b] = "idle"
    BY <1>0, <2>2, Alone
  <2> QED
    BY <1>0, <1>a, <2>1, <2>2, <2>3
<1>5. ASSUME NEW a \in Actor, Rename(a) PROVE pc'[a] = "record"
  BY <1>5 DEF Typed, ConfigTypeOK, Rename, Goto
<1>6. ASSUME NEW a \in Actor, CliRename(a) \/ RecordFails(a) PROVE FALSE
  BY <1>6 DEF CliRename, RecordFails
<1>7. ASSUME NEW a \in Actor, Record(a) PROVE file' = LastRevision'
  <2>1. file' = copy[a] /\ history' = Append(history, copy[a])
    BY <1>1, <1>7 DEF Record, Recorded, fileVars
  <2>2. history \in Seq(Configs) /\ copy[a] \in Configs
    BY <1>7 DEF Record, Typed, ConfigTypeOK, Holds
  <2>3. history' # <<>> /\ history'[Len(history')] = copy[a]
    BY <2>1, <2>2
  <2> QED
    BY <2>1, <2>3 DEF LastRevision
<1>8. CASE Restart
  <2>1. \A b \in Console : ~Busy(b)
    BY <1>8 DEF Restart
  <2> QED
    BY <1>0, <1>1, <1>8, <1>a, <2>1 DEF Restart, Busy, fileVars
<1>9. CASE UNCHANGED configVars
  BY <1>0, <1>9, <1>a DEF configVars, fileVars, actorVars
<1> QED
  BY <1>2, <1>3, <1>4, <1>5, <1>6, <1>7, <1>8, <1>9 DEF ConfigNext, HandlerStep, Between

(* A restore point is never missing or stale after changes made one at a    *)
(* time at the console: the last revision is what the file holds.           *)
THEOREM AlwaysHistoryEndsWithFile == ConfigSpec => []HistoryEndsWithFile
<1>1. ConfigInit => Serial /\ Chronicled /\ OneSaver
  BY ConsoleConfigAssumption
     DEF ConfigInit, Serial, Chronicled, LastRevision, OneSaver, Busy, Saving
<1>2. Chronicled => HistoryEndsWithFile
  BY DEF Chronicled, HistoryEndsWithFile, LastRevision, Quiet, Busy
<1> QED
  BY TypedInit, TypedStep, OneSaverStep, SerialStep, ChronicledStep, <1>1, <1>2, PTL
     DEF ConfigSpec

-----------------------------------------------------------------------------
(* Secrets.  Lemmas on what a change does to the references.                *)

(* A change touches the credential of the provider it names, and no other.  *)
LEMMA RevisedProviders ==
    ASSUME NEW ch \in Changes, ch.do # "rollback", NEW c \in Configs, NEW seen,
           NEW p \in Provider
    PROVE  Revised(ch, c, seen).providers[p] =
             IF ch.key = p THEN (IF ch.to = "keep" THEN seen ELSE ch.to)
             ELSE c.providers[p]
<1>1. ch \in Change
  BY ConsoleConfigAssumption
<1>2. CASE ch.key \in Provider
  <2>1. Revised(ch, c, seen) =
          [c EXCEPT !.providers[ch.key] = IF ch.to = "keep" THEN seen ELSE ch.to]
    BY <1>2, ConsoleConfigAssumption DEF Revised
  <2> QED
    BY <2>1 DEF Configs
<1>3. CASE ch.key \in Route
  BY <1>3, ConsoleConfigAssumption DEF Revised, Configs
<1>4. CASE ch.key \in Alias
  BY <1>4, ConsoleConfigAssumption DEF Revised, Configs
<1> QED
  BY <1>1, <1>2, <1>3, <1>4 DEF Change

(* What Change says of the value a change carries.                          *)
LEMMA ChangeValue ==
    ASSUME NEW ch \in Changes
    PROVE  /\ ch.do = "drop" => ch.to = None
           /\ ch.do # "rollback" /\ ch.key \in Provider /\ ch.do # "drop" =>
                 ch.to \in Scheme \cup {"keep"}
           /\ ch.to = "keep" => ch.do # "drop"
BY ConsoleConfigAssumption DEF Change

(* Deleting a provider nobody uses leaves a valid configuration valid.      *)
LEMMA UnusedDropValid ==
    ASSUME NEW ch \in Changes, ch.do = "drop", ch.key \in Provider,
           NEW c \in Configs, Valid(c), ~InUse(c, ch.key), NEW seen
    PROVE  Valid(Revised(ch, c, seen))
<1> DEFINE d == Revised(ch, c, seen)
<1>1. d.routes = c.routes /\ d.aliases = c.aliases
  <2>1. d = [c EXCEPT !.providers[ch.key] = IF ch.to = "keep" THEN seen ELSE ch.to]
    BY ConsoleConfigAssumption DEF Revised
  <2> QED
    BY <2>1 DEF Configs
<1>2. \A p \in Provider : p # ch.key => d.providers[p] = c.providers[p]
  BY RevisedProviders
<1>3. \A r \in Route : ch.key \notin c.routes[r]
  BY DEF InUse
<1>4. \A a \in Alias : c.aliases[a] # ch.key
  BY DEF InUse
<1>5. \A r \in Route : c.routes[r] \subseteq Provider
  BY DEF Configs
<1> HIDE DEF d
<1>6. Valid(d)
  BY <1>1, <1>2, <1>3, <1>4, <1>5 DEF Valid, Exists
<1> QED
  BY <1>6 DEF d

(* What an actor knows on its way to the secret and back: the file it       *)
(* looked at is still the file, its copy of the vault is still the vault,   *)
(* only a change that is no delete stores a secret, and what it is about to *)
(* save names no secret the vault does not have.                            *)
Holding(a) ==
    /\ pc[a] \in {"vault", "remove", "store"} \/ (pc[a] = "load" /\ LooksFirst(a, change[a])) =>
          copy[a] = file /\ LookAllows(a, change[a], file)
    /\ pc[a] \in {"vault", "remove", "store"} => NeedsVault(change[a], file)
    /\ pc[a] \in {"remove", "store"} => mem[a] = secrets
    /\ pc[a] = "store" => change[a].do # "drop"
    /\ pc[a] = "load" /\ change[a].key \in Provider /\ change[a].to = "vault" =>
          change[a].key \in secrets
    /\ pc[a] \in {"open", "write", "rename"} =>
          \A p \in Provider : copy[a].providers[p] = "vault" => p \in secrets

(* The actor has removed the secret of p and is about to store a new one or *)
(* to delete p.                                                             *)
Withdraws(a, p) ==
    /\ change[a] # None /\ change[a].key = p
    /\ \/ pc[a] = "store"
       \/ pc[a] \in {"load", "open", "write", "rename"} /\ change[a].do = "drop"

Guarded ==
    why \cap {"overlap", "store", "crash", "rollback", "unguarded"} = {} =>
        /\ \A a \in Actor : Holding(a)
        /\ \A p \in Provider : file.providers[p] = "vault" =>
              p \in secrets \/ \E a \in Actor : Withdraws(a, p)

LEMMA GuardedStep ==
    Typed /\ AllValid /\ OneSaver /\ Serial /\ Guarded /\ [ConfigNext]_configVars => Guarded'
<1> SUFFICES ASSUME Typed, AllValid, OneSaver, Serial, Guarded, [ConfigNext]_configVars,
                    why' \cap {"overlap", "store", "crash", "rollback", "unguarded"} = {}
             PROVE  Guarded'
  BY DEF Guarded
<1>0. /\ why \cap {"overlap", "store", "crash", "rollback", "unguarded"} = {}
      /\ \A a \in Actor : Holding(a)
      /\ \A p \in Provider : file.providers[p] = "vault" =>
            p \in secrets \/ \E a \in Actor : Withdraws(a, p)
  BY WhyGrows DEF Guarded
<1>1. "shared" \notin why /\ file \in Configs
  BY <1>0 DEF Serial, OneSaver
<1>2. Loaded(file) = file /\ Readable(file) /\ Valid(file)
  BY <1>1, ConsoleConfigAssumption DEF Loaded, Readable, AllValid
<1>3. ASSUME NEW a \in Actor, NEW ch \in Changes, Begin(a, ch) \/ BeginRollback(a, ch)
      PROVE  Guarded'
  <2>1. Begin(a, ch)
    BY <1>3 DEF BeginRollback
  <2>2. \A b \in Actor : pc[b] = "idle"
    BY <2>1 DEF Begin, Busy
  <2>3. /\ pc'[a] = (IF LooksFirst(a, ch) THEN "check" ELSE "load") /\ change'[a] = ch
        /\ \A b \in Actor \ {a} : pc'[b] = "idle"
        /\ file' = file /\ secrets' = secrets
    BY <2>1, <2>2 DEF Begin, Goto, Typed, ConfigTypeOK, fileVars
  <2>4. Holding(a)'
    BY <2>3 DEF Holding, LooksFirst
  <2>5. \A p \in Provider : file.providers[p] = "vault" => p \in secrets
    BY <1>0, <2>2 DEF Withdraws
  <2> QED
    BY <2>3, <2>4, <2>5 DEF Guarded, Holding
<1>4. ASSUME NEW a \in Actor, HandlerStep(a) PROVE Guarded'
  <2>0. Busy(a)
    BY <1>4 DEF HandlerStep, Busy, Look, LookRefuses, LoadVault, NoManager, RemoveSecret,
                StoreSecret, Revise, ReviseRefuses, Open, Write, Rename, CliRename,
                RenameFails, Record, RecordFails, Reload, StoreFails, Killed
  <2>1. \A b \in Actor \ {a} : pc[b] = "idle"
    BY <1>0, <2>0, Alone
  <2>2. \A p \in Provider : file.providers[p] = "vault" => p \in secrets \/ Withdraws(a, p)
    BY <1>0, <2>1 DEF Withdraws
  <2>3. change[a] \in Changes /\ change[a] # None /\ Holding(a) /\ Holds(a)
    BY <1>0, <2>0, ConsoleConfigAssumption DEF Busy, Typed, Holds
  <2>4. CASE Look(a)
    <3>1. /\ pc'[a] = (IF NeedsVault(change[a], file) THEN "vault" ELSE "load")
          /\ copy'[a] = file /\ LookAllows(a, change[a], file)
          /\ UNCHANGED <<file, secrets, change>>
          /\ \A b \in Actor \ {a} : pc'[b] = "idle"
      BY <1>2, <2>1, <2>4 DEF Look, Goto, Typed, ConfigTypeOK, fileVars
    <3>2. Holding(a)'
      BY <3>1 DEF Holding, NeedsVault
    <3>3. \A p \in Provider : file.providers[p] = "vault" => p \in secrets
      BY <2>2, <2>4 DEF Look, Withdraws
    <3> QED
      BY <3>1, <3>2, <3>3 DEF Guarded, Holding
  <2>5. CASE LookRefuses(a)
    <3>1. /\ \A b \in Actor : pc'[b] = "idle"
          /\ UNCHANGED <<file, secrets>>
      BY <2>1, <2>5 DEF LookRefuses, Finish, Goto, Typed, ConfigTypeOK, fileVars
    <3>2. \A p \in Provider : file.providers[p] = "vault" => p \in secrets
      BY <2>2, <2>5 DEF LookRefuses, Withdraws
    <3> QED
      BY <3>1, <3>2 DEF Guarded, Holding
  <2>6. CASE LoadVault(a)
    <3>1. /\ pc'[a] \in {"store", "remove"} /\ mem'[a] = secrets
          /\ UNCHANGED <<file, secrets, change, copy>>
          /\ \A b \in Actor \ {a} : pc'[b] = "idle"
      BY <2>1, <2>6 DEF LoadVault, Goto, Typed, ConfigTypeOK, fileVars
    <3>2. copy[a] = file /\ LookAllows(a, change[a], file) /\ NeedsVault(change[a], file)
      BY <2>3, <2>6 DEF LoadVault, Holding
    <3>3. pc'[a] = "store" => change[a].do # "drop"
      <4>1. pc'[a] = "store" /\ change[a].do = "drop" => file.providers[change[a].key] # "vault"
        BY <2>6, <3>2 DEF LoadVault, Goto, Typed, ConfigTypeOK
      <4>2. change[a].do = "drop" => change[a].to # "vault"
        BY <2>3, ChangeValue, ConsoleConfigAssumption DEF Scheme
      <4> QED
        BY <3>2, <4>1, <4>2 DEF NeedsVault
    <3>4. Holding(a)'
      BY <3>1, <3>2, <3>3 DEF Holding
    <3>5. \A p \in Provider : file.providers[p] = "vault" => p \in secrets
      BY <2>2, <2>6 DEF LoadVault, Withdraws
    <3> QED
      BY <3>1, <3>4, <3>5 DEF Guarded, Holding
  <2>7. CASE RemoveSecret(a)
    <3>1. /\ pc'[a] = (IF change[a].do = "drop" THEN "load" ELSE "store")
          /\ mem'[a] = secrets' /\ secrets' = secrets \ {change[a].key}
          /\ UNCHANGED <<file, change, copy>>
          /\ \A b \in Actor \ {a} : pc'[b] = "idle"
      BY <2>1, <2>3, <2>7 DEF RemoveSecret, Goto, Typed, ConfigTypeOK, fileVars, Holding
    <3>2. copy[a] = file /\ LookAllows(a, change[a], file) /\ NeedsVault(change[a], file)
      BY <2>3, <2>7 DEF RemoveSecret, Holding
    <3>3. change[a].do = "drop" => change[a].to # "vault"
      BY <2>3, ChangeValue, ConsoleConfigAssumption DEF Scheme
    <3>4. Holding(a)'
      BY <3>1, <3>2, <3>3 DEF Holding
    <3>5. \A p \in Provider : file.providers[p] = "vault" => p \in secrets' \/ Withdraws(a, p)'
      BY <2>2, <2>3, <2>7, <3>1 DEF RemoveSecret, Withdraws
    <3> QED
      BY <3>1, <3>4, <3>5 DEF Guarded, Holding
  <2>8. CASE StoreSecret(a)
    <3>1. /\ pc'[a] = "load" /\ secrets' = secrets \cup {change[a].key}
          /\ UNCHANGED <<file, change, copy>>
          /\ \A b \in Actor \ {a} : pc'[b] = "idle"
      BY <2>1, <2>3, <2>8 DEF StoreSecret, Goto, Typed, ConfigTypeOK, fileVars, Holding
    <3>2. copy[a] = file /\ LookAllows(a, change[a], file)
      BY <2>3, <2>8 DEF StoreSecret, Holding
    <3>3. Holding(a)'
      BY <3>1, <3>2 DEF Holding
    <3>4. \A p \in Provider : file.providers[p] = "vault" => p \in secrets'
      BY <2>2, <3>1 DEF Withdraws
    <3> QED
      BY <3>1, <3>3, <3>4 DEF Guarded, Holding
  <2>9. CASE Revise(a)
    <3>1. /\ pc[a] = "load" /\ pc'[a] = "open" /\ copy'[a] = Outcome(a)
          /\ UNCHANGED <<file, secrets, change>>
          /\ \A b \in Actor \ {a} : pc'[b] = "idle"
      BY <2>1, <2>9 DEF Revise, Goto, Typed, ConfigTypeOK, fileVars
    <3>2. /\ change[a].do # "rollback"
          /\ LooksFirst(a, change[a]) => copy[a] = file
          /\ change[a].key \in Provider /\ change[a].to = "vault" => change[a].key \in secrets
      BY <2>3, <3>1 DEF Holds, Holding
    <3>3. Base(a) = file
      BY <1>2, <3>2 DEF Base, LooksFirst
    <3>4. ASSUME NEW p \in Provider, Outcome(a).providers[p] = "vault" PROVE p \in secrets
      <4>1. CASE change[a].key # p
        BY <1>1, <2>2, <2>3, <3>2, <3>3, <3>4, <4>1, RevisedProviders DEF Outcome, Withdraws
      <4>2. CASE change[a].key = p /\ change[a].to # "keep"
        BY <1>1, <2>3, <3>2, <3>3, <3>4, <4>2, RevisedProviders DEF Outcome
      <4>3. CASE change[a].key = p /\ change[a].to = "keep"
        <5>1. file.providers[p] = "vault"
          BY <1>1, <2>3, <3>2, <3>3, <3>4, <4>3, RevisedProviders DEF Outcome, Seen, LooksFirst
        <5>2. change[a].do # "drop"
          BY <2>3, <4>3, ChangeValue
        <5> QED
          BY <2>2, <3>1, <5>1, <5>2 DEF Withdraws
      <4> QED
        BY <4>1, <4>2, <4>3
    <3>5. Holding(a)'
      BY <3>1, <3>4 DEF Holding
    <3>6. \A p \in Provider : file.providers[p] = "vault" => p \in secrets' \/ Withdraws(a, p)'
      BY <2>2, <3>1 DEF Withdraws
    <3> QED
      BY <3>1, <3>5, <3>6 DEF Guarded, Holding
  <2>10. CASE ReviseRefuses(a)
    <3>1. /\ pc[a] = "load" /\ ~Accepts(a) /\ a \in Console
          /\ UNCHANGED <<file, secrets>>
          /\ \A b \in Actor : pc'[b] = "idle"
      BY <2>1, <2>10
         DEF ReviseRefuses, Finish, Goto, Typed, ConfigTypeOK, fileVars, Actor
    <3>2. ~(change[a].do = "drop" /\ change[a].key \in Provider)
      <4> SUFFICES ASSUME change[a].do = "drop", change[a].key \in Provider PROVE Accepts(a)
        BY <3>1
      <4>1. ~InUse(file, change[a].key)
        BY <2>3, <3>1 DEF Holding, LooksFirst, LookAllows
      <4>2. Base(a) = file
        BY <1>2, <3>1, ConsoleConfigAssumption DEF Base
      <4>3. Valid(Outcome(a))
        BY <1>1, <1>2, <2>3, <4>1, <4>2, UnusedDropValid DEF Outcome
      <4> QED
        BY <1>2, <4>3 DEF Accepts, ClosureAllows
    <3>3. \A p \in Provider : file.providers[p] = "vault" => p \in secrets
      BY <2>2, <3>1, <3>2 DEF Withdraws
    <3> QED
      BY <3>1, <3>3 DEF Guarded, Holding
  <2>11. CASE Open(a) \/ Write(a)
    <3>1. /\ pc[a] \in {"open", "write"} /\ pc'[a] \in {"write", "rename"}
          /\ UNCHANGED <<file, secrets, change, copy>>
          /\ \A b \in Actor \ {a} : pc'[b] = "idle"
      BY <1>1, <2>1, <2>11 DEF Open, Write, OneSaver, Goto, Typed, ConfigTypeOK
    <3>2. Holding(a)'
      BY <2>3, <3>1 DEF Holding
    <3>3. \A p \in Provider : file.providers[p] = "vault" => p \in secrets' \/ Withdraws(a, p)'
      BY <2>2, <3>1 DEF Withdraws
    <3> QED
      BY <3>1, <3>2, <3>3 DEF Guarded, Holding
  <2>12. CASE Rename(a) \/ CliRename(a)
    <3>1. /\ pc[a] = "rename" /\ file' = copy[a] /\ secrets' = secrets
          /\ pc'[a] \in {"record", "idle"}
          /\ \A b \in Actor \ {a} : pc'[b] = "idle"
      BY <1>0, <2>1, <2>12 DEF Serial, Rename, CliRename, Goto, Typed, ConfigTypeOK
    <3>2. \A p \in Provider : file'.providers[p] = "vault" => p \in secrets'
      BY <2>3, <3>1 DEF Holding
    <3> QED
      BY <3>1, <3>2 DEF Guarded, Holding
  <2>13. CASE Record(a) \/ Reload(a)
    <3>1. /\ pc[a] \in {"record", "reload"} /\ UNCHANGED <<file, secrets>>
          /\ pc'[a] \in {"reload", "idle"}
          /\ \A b \in Actor \ {a} : pc'[b] = "idle"
      BY <2>1, <2>13
         DEF Record, AfterRecord, Reload, Finish, Goto, Typed, ConfigTypeOK, fileVars
    <3>2. \A p \in Provider : file.providers[p] = "vault" => p \in secrets
      BY <2>2, <3>1 DEF Withdraws
    <3> QED
      BY <3>1, <3>2 DEF Guarded, Holding
  <2>14. CASE NoManager(a) \/ RenameFails(a)
    BY <1>0, <1>2, <2>3, <2>14, ConsoleConfigAssumption
       DEF NoManager, RenameFails, Serial, Holds
  <2>15. CASE RecordFails(a) \/ StoreFails(a) \/ Killed(a)
    BY <2>15 DEF RecordFails, StoreFails, Killed
  <2> QED
    BY <1>4, <2>4, <2>5, <2>6, <2>7, <2>8, <2>9, <2>10, <2>11, <2>12, <2>13, <2>14, <2>15
       DEF HandlerStep
<1>5. CASE Restart
  <2>1. \A b \in Console : pc[b] = "idle"
    BY <1>5 DEF Restart, Busy
  <2>2. /\ UNCHANGED <<file, secrets>>
        /\ \A b \in Actor : pc'[b] = pc[b]
        /\ \A b \in Actor \ Console :
              change'[b] = change[b] /\ copy'[b] = copy[b] /\ mem'[b] = mem[b]
    BY <1>5, <2>1 DEF Restart, Ended, fileVars
  <2>3. ASSUME NEW b \in Actor PROVE Holding(b)'
    <3>1. CASE b \in Console
      BY <2>1, <2>2, <3>1 DEF Holding
    <3>2. CASE b \notin Console
      BY <1>0, <2>2, <3>2 DEF Holding
    <3> QED
      BY <3>1, <3>2
  <2>4. ASSUME NEW b \in Actor, NEW p \in Provider, Withdraws(b, p) PROVE Withdraws(b, p)'
    <3>1. b \notin Console
      BY <2>1, <2>4 DEF Withdraws
    <3> QED
      BY <2>2, <2>4, <3>1 DEF Withdraws
  <2> QED
    BY <1>0, <2>2, <2>3, <2>4 DEF Guarded
<1>6. CASE UNCHANGED configVars
  BY <1>6 DEF Guarded, Holding, Withdraws, configVars, fileVars, actorVars
<1> QED
  BY <1>3, <1>4, <1>5, <1>6 DEF ConfigNext

(* No handler or command, taken one at a time and not cut short, leaves a   *)
(* provider whose credential_ref names the vault without its secret there:  *)
(* the dependencies looked at before a delete are still those Validate      *)
(* judges after the secret is gone.                                         *)
THEOREM AlwaysSecretsKept == ConfigSpec => []SecretsKept
<1>1. ConfigInit => AllValid /\ OneSaver /\ Serial /\ Guarded
  BY ConsoleConfigAssumption
     DEF ConfigInit, AllValid, Checked, OneSaver, Saving, Serial, Busy, Guarded, Holding
<1>2. Guarded => SecretsKept
  BY DEF Guarded, SecretsKept, Withdraws, Quiet, Busy
<1> QED
  BY TypedInit, TypedStep, ValidStep, OneSaverStep, SerialStep, GuardedStep, <1>1, <1>2, PTL
     DEF ConfigSpec
=============================================================================
