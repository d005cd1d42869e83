---------------------------- MODULE ConsoleConfig ----------------------------
(* How the configuration changes at run time: the console's handlers       *)
(* (console/api_providers.go, api_routes.go, api_aliases.go, api_config.go, *)
(* bridge.go), the CLI commands that edit the same file from a process of   *)
(* their own (cli/provider.go, cli/alias_route.go), config.Load, Validate   *)
(* and Save, and the vault file that a provider's credential_ref names.     *)
(*                                                                          *)
(* No lock orders these: every handler loads the file, changes its own copy *)
(* and saves it, in steps of its own.  Save writes path.tmp and renames it, *)
(* and every saver uses the same path.tmp.                                  *)
(*                                                                          *)
(* A configuration is what Validate's cross-references need: each provider  *)
(* with the scheme of its credential_ref, each route with the providers it  *)
(* names, each alias with the route or the provider it names.  A provider's *)
(* other settings travel with its credential_ref.  The backend is the vault *)
(* (a keyring is the same set of names, changed one at a time), disk writes *)
(* succeed, and a file two savers wrote into at once is unreadable when it  *)
(* is a mixture.                                                            *)
EXTENDS Naturals, Sequences

CONSTANTS Console,      \* requests the console is serving
          Cli,          \* termrouter commands in processes of their own
          Provider, Route, Alias,
          Changes,      \* the changes an operator may ask for, see Change
          Initial,      \* the configuration the gateway starts with
          MaxChanges,   \* bound: changes begun
          Empty, Torn,  \* a file cut to no bytes; a mixture of two writes
          None

Actor == Console \cup Cli

Scheme == {"none", "vault"}

Configs ==
    [providers: [Provider -> Scheme \cup {None}],
     routes: [Route -> SUBSET Provider],         \* {}: no such route
     aliases: [Alias -> Route \cup Provider \cup {None}]]

(* A request to change one entry: "add", "set" or "drop" with a value, or   *)
(* "rollback" to a revision.  "keep" leaves the credential unchanged.       *)
Change ==
         [do: {"add", "set"}, key: Provider, to: Scheme]
    \cup [do: {"set"}, key: Provider, to: {"keep"}]
    \cup [do: {"add", "set"}, key: Route, to: (SUBSET Provider) \ {{}}]
    \cup [do: {"add", "set"}, key: Alias, to: Route \cup Provider]
    \cup [do: {"drop"}, key: Provider \cup Route \cup Alias, to: {None}]
    \cup [do: {"rollback"}, key: 1..MaxChanges, to: {None}]

(* What config.Validate (config.go:793-857, 900-918) asks of references.    *)
Exists(c, p) == c.providers[p] # None

Valid(c) ==
    /\ \A r \in Route : \A p \in c.routes[r] : Exists(c, p)
    /\ \A a \in Alias :
          /\ c.aliases[a] \in Route => c.routes[c.aliases[a]] # {}
          /\ c.aliases[a] \in Provider => Exists(c, c.aliases[a])

ASSUME ConsoleConfigAssumption ==
    /\ Console \cap Cli = {} /\ MaxChanges \in Nat
    /\ Provider \cap Route = {} /\ Provider \cap Alias = {} /\ Route \cap Alias = {}
    /\ Changes \subseteq Change
    /\ None \notin Provider \cup Route \cup Alias \cup Scheme \cup {"keep"}
    /\ None \notin Changes
    /\ {None, Empty, Torn} \cap Configs = {}
    /\ Empty # Torn /\ Empty # None /\ Torn # None
    /\ Initial \in Configs /\ Valid(Initial)

VARIABLES
    file,      \* what the path config.yaml holds
    tmp,       \* what config.yaml.tmp holds, None when there is none
    secrets,   \* the names in the vault file
    history,   \* config_history: the snapshot of each revision
    running,   \* the configuration the gateway's handler was built with
    known,     \* the names in the vault as the gateway's manager read it
    pc, change, copy, mem,
    at,        \* where the file an actor opened as path.tmp is by now
    begun, why
(* why is a history variable: the incidents so far, over which the file,    *)
(* the history, the gateway and the vault may come to disagree:             *)
(*   overlap    a change began while another was under way                  *)
(*   shared     a save opened path.tmp while another save was using it      *)
(*   crash      a process died in the middle of a change                    *)
(*   cli        a command saved, and no gateway was told                    *)
(*   store      the database failed during a change                         *)
(*   rollback   a snapshot was restored                                     *)
(*   unguarded  Validate refused a command that had already removed a secret *)

fileVars == <<file, tmp>>
gatewayVars == <<running, known>>
actorVars == <<pc, change, copy, mem, at>>
configVars == <<fileVars, secrets, history, gatewayVars, actorVars, begun, why>>

Place == {"idle", "check", "vault", "remove", "store", "load", "open",
          "write", "rename", "record", "reload"}
Saving == {"write", "rename"}
Content == Configs \cup {Empty, Torn}
Incident == {"overlap", "shared", "crash", "cli", "store", "rollback", "unguarded"}

ConfigTypeOK ==
    /\ file \in Content /\ tmp \in Content \cup {None}
    /\ secrets \subseteq Provider
    /\ history \in Seq(Configs) /\ running \in Configs /\ known \subseteq Provider
    /\ pc \in [Actor -> Place]
    /\ change \in [Actor -> Changes \cup {None}]
    /\ copy \in [Actor -> Configs \cup {None}]
    /\ mem \in [Actor -> SUBSET Provider]
    /\ at \in [Actor -> {"tmp", "file", "gone"}]
    /\ begun \in 0..MaxChanges /\ why \subseteq Incident

ConfigInit ==
    /\ file = Initial /\ tmp = None /\ running = Initial
    /\ secrets = {p \in Provider : Initial.providers[p] = "vault"} /\ known = secrets
    /\ history = <<>>
    /\ pc = [a \in Actor |-> "idle"]
    /\ change = [a \in Actor |-> None]
    /\ copy = [a \in Actor |-> None]
    /\ mem = [a \in Actor |-> {}]
    /\ at = [a \in Actor |-> "gone"]
    /\ begun = 0 /\ why = {}

-----------------------------------------------------------------------------
(* config.Load: an empty file unmarshals to nothing and leaves the built-in *)
(* defaults, which name no provider, route or alias.                        *)
NoEntries ==
    [providers |-> [p \in Provider |-> None],
     routes |-> [r \in Route |-> {}],
     aliases |-> [a \in Alias |-> None]]

Readable(f) == f # Torn
Loaded(f) == IF f = Empty THEN NoEntries ELSE f

Goto(a, place) == pc' = [pc EXCEPT ![a] = place]

Finish(a) ==
    /\ Goto(a, "idle")
    /\ change' = [change EXCEPT ![a] = None]
    /\ copy' = [copy EXCEPT ![a] = None]
    /\ mem' = [mem EXCEPT ![a] = {}]
    /\ at' = [at EXCEPT ![a] = "gone"]

InUse(c, key) ==
    \/ key \in Provider /\ \E r \in Route : key \in c.routes[r]
    \/ \E a \in Alias : c.aliases[a] = key

Busy(a) == pc[a] # "idle"

(* A console handler that looks before it calls applyMutation, and every    *)
(* CLI command, loads the file first; the others go straight to             *)
(* applyMutation; a rollback loads a snapshot instead.                      *)
LooksFirst(a, ch) ==
    a \in Cli \/ ch.key \in Provider \/ (ch.do = "drop" /\ ch.key \in Route)

(* The CLI has no rollback and changes no reference in place: enabling and  *)
(* disabling a provider, or a route's smart mode, is all it edits.          *)
Offers(a, ch) ==
    a \in Cli => ch.do \in {"add", "drop"} \/ (ch.do = "set" /\ ch.to = "keep")

Begin(a, ch) ==
    /\ ~Busy(a) /\ begun < MaxChanges /\ ch.do # "rollback" /\ Offers(a, ch)
    /\ begun' = begun + 1
    /\ Goto(a, IF LooksFirst(a, ch) THEN "check" ELSE "load")
    /\ change' = [change EXCEPT ![a] = ch]
    /\ why' = why \cup {w \in {"overlap"} : \E b \in Actor : Busy(b)}
    /\ UNCHANGED <<fileVars, secrets, history, gatewayVars, copy, mem, at>>

(* handleRollbackConfig up to Save.                                         *)
BeginRollback(a, ch) ==
    /\ ~Busy(a) /\ begun < MaxChanges /\ ch.do = "rollback" /\ a \in Console
    /\ ch.key \in DOMAIN history /\ Valid(history[ch.key])
    /\ begun' = begun + 1
    /\ Goto(a, "open")
    /\ change' = [change EXCEPT ![a] = ch]
    /\ copy' = [copy EXCEPT ![a] = history[ch.key]]
    /\ why' = why \cup {"rollback"} \cup {w \in {"overlap"} : \E b \in Actor : Busy(b)}
    /\ UNCHANGED <<fileVars, secrets, history, gatewayVars, mem, at>>

-----------------------------------------------------------------------------
(* What the handler (api_providers.go:147-155, 236-245, 305-336,            *)
(* api_routes.go:149-166) or the command refuses on its own look at the     *)
(* file.  A command looks at no dependency of what it removes.              *)
Present(c, key) ==
    \/ key \in Provider /\ Exists(c, key)
    \/ key \in Route /\ c.routes[key] # {}
    \/ key \in Alias /\ c.aliases[key] # None

LookAllowsUnchecked(a, ch, c) == (ch.do = "add") <=> ~Present(c, ch.key)
LookAllows(a, ch, c) ==
    /\ ch.do = "add" => ~Present(c, ch.key)
    /\ (ch.do # "add" /\ ch.key \notin Route) => Present(c, ch.key)
    /\ (ch.do = "drop" /\ a \in Console) => ~InUse(c, ch.key)

(* The changes that write a secret or erase one.                            *)
NeedsVault(ch, c) ==
    /\ ch.key \in Provider
    /\ ch.to = "vault" \/ (ch.do = "drop" /\ c.providers[ch.key] = "vault")

Look(a) ==
    /\ pc[a] = "check"
    /\ Readable(file) /\ LookAllows(a, change[a], Loaded(file))
    /\ copy' = [copy EXCEPT ![a] = Loaded(file)]
    /\ Goto(a, IF NeedsVault(change[a], Loaded(file)) THEN "vault" ELSE "load")
    /\ UNCHANGED <<fileVars, secrets, history, gatewayVars, change, mem, at, begun, why>>

LookRefuses(a) ==
    /\ pc[a] = "check"
    /\ Readable(file) => ~LookAllows(a, change[a], Loaded(file))
    /\ Finish(a)
    /\ UNCHANGED <<fileVars, secrets, history, gatewayVars, begun, why>>

(* credManager: a manager made for this write, with the vault as it is now. *)
LoadVault(a) ==
    /\ pc[a] = "vault" /\ (a \in Console => Readable(file))
    /\ mem' = [mem EXCEPT ![a] = secrets]
    /\ Goto(a, IF change[a].do = "add" THEN "store"
               ELSE IF copy[a].providers[change[a].key] = "vault" THEN "remove"
               ELSE "store")
    /\ UNCHANGED <<fileVars, secrets, history, gatewayVars, change, copy, at, begun, why>>

(* credManager loads the configuration again.  A delete goes on without it. *)
NoManager(a) ==
    /\ pc[a] = "vault" /\ a \in Console /\ ~Readable(file)
    /\ IF change[a].do = "drop"
       THEN Goto(a, "load") /\ UNCHANGED <<change, copy, mem, at>>
       ELSE Finish(a)
    /\ UNCHANGED <<fileVars, secrets, history, gatewayVars, begun, why>>

(* Manager.Remove and Manager.Store: the map in memory, then the whole file. *)
RemoveSecret(a) ==
    /\ pc[a] = "remove"
    /\ mem' = [mem EXCEPT ![a] = @ \ {change[a].key}]
    /\ secrets' = mem'[a]
    /\ Goto(a, IF change[a].do = "drop" THEN "load" ELSE "store")
    /\ UNCHANGED <<fileVars, history, gatewayVars, change, copy, at, begun, why>>

StoreSecret(a) ==
    /\ pc[a] = "store"
    /\ mem' = [mem EXCEPT ![a] = @ \cup {change[a].key}]
    /\ secrets' = mem'[a]
    /\ Goto(a, "load")
    /\ UNCHANGED <<fileVars, history, gatewayVars, change, copy, at, begun, why>>

-----------------------------------------------------------------------------
(* The closures the handlers give applyMutation, and what they refuse.  The *)
(* closures that add, set or delete a provider, and the one that deletes a  *)
(* route, refuse nothing.                                                   *)
ClosureAllows(ch, c) ==
    ch.key \notin Provider =>
        /\ ch.do = "add" => ~Present(c, ch.key)
        /\ ch.do = "set" => Present(c, ch.key)
        /\ (ch.do = "drop" /\ ch.key \in Alias) => Present(c, ch.key)

(* seen: the provider as the handler's first look found it                  *)
Revised(ch, c, seen) ==
    CASE ch.key \in Provider ->
            [c EXCEPT !.providers[ch.key] = IF ch.to = "keep" THEN seen ELSE ch.to]
      [] ch.key \in Route ->
            [c EXCEPT !.routes[ch.key] = IF ch.do = "drop" THEN {} ELSE ch.to]
      [] OTHER ->
            [c EXCEPT !.aliases[ch.key] = ch.to]

(* A command changes the copy it looked at; applyMutation loads another.    *)
Base(a) == IF a \in Cli THEN copy[a] ELSE Loaded(file)
Seen(a) == IF change[a].to = "keep" THEN copy[a].providers[change[a].key] ELSE None
Outcome(a) == Revised(change[a], Base(a), Seen(a))

AcceptsUnvalidated(a) ==
    /\ a \in Console => Readable(file)
    /\ ClosureAllows(change[a], Base(a))
Accepts(a) ==
    /\ a \in Console => Readable(file)
    /\ ClosureAllows(change[a], Base(a))
    /\ Valid(Outcome(a))

(* applyMutation to its Validate, and a command to Save's.                  *)
Revise(a) ==
    /\ pc[a] = "load" /\ Accepts(a)
    /\ copy' = [copy EXCEPT ![a] = Outcome(a)]
    /\ Goto(a, "open")
    /\ UNCHANGED <<fileVars, secrets, history, gatewayVars, change, mem, at, begun, why>>

ReviseRefuses(a) ==
    /\ pc[a] = "load" /\ ~Accepts(a)
    /\ Finish(a)
    /\ why' = why \cup {w \in {"unguarded"} : a \in Cli}
    /\ UNCHANGED <<fileVars, secrets, history, gatewayVars, begun>>

-----------------------------------------------------------------------------
(* config.Save: os.WriteFile truncates path.tmp and then writes through its *)
(* descriptor, wherever a rename has moved that file meanwhile; os.Rename   *)
(* moves whatever path.tmp is by then.                                      *)
OpenInPlace(a) ==
    /\ pc[a] = "open"
    /\ file' = Empty
    /\ at' = [at EXCEPT ![a] = "file"]
    /\ Goto(a, "write")
    /\ UNCHANGED <<tmp, secrets, history, gatewayVars, change, copy, mem, begun, why>>

Open(a) ==
    /\ pc[a] = "open"
    /\ tmp' = Empty
    /\ at' = [at EXCEPT ![a] = "tmp"]
    /\ Goto(a, "write")
    /\ why' = why \cup {w \in {"shared"} : \E b \in Actor : pc[b] \in Saving}
    /\ UNCHANGED <<file, secrets, history, gatewayVars, change, copy, mem, begun>>

(* What a file that held x holds after a write of c from its start: what is *)
(* longer of another saver's text stays behind c.                           *)
Overlay(x, c) == IF x \in {Empty, c} THEN {c} ELSE {c, Torn}

Write(a) ==
    /\ pc[a] = "write"
    /\ tmp' \in (IF at[a] = "tmp" THEN Overlay(tmp, copy[a]) ELSE {tmp})
    /\ file' \in (IF at[a] = "file" THEN Overlay(file, copy[a]) ELSE {file})
    /\ Goto(a, "rename")
    /\ UNCHANGED <<secrets, history, gatewayVars, change, copy, mem, at, begun, why>>

Moved(a) ==
    [b \in Actor |-> IF b # a /\ at[b] = "tmp" THEN "file" ELSE "gone"]

Rename(a) ==
    /\ pc[a] = "rename" /\ tmp # None /\ a \in Console
    /\ file' = tmp /\ tmp' = None
    /\ at' = Moved(a)
    /\ Goto(a, "record")
    /\ UNCHANGED <<secrets, history, gatewayVars, change, copy, mem, begun, why>>

CliRename(a) ==
    /\ pc[a] = "rename" /\ tmp # None /\ a \in Cli
    /\ file' = tmp /\ tmp' = None
    /\ at' = Moved(a)
    /\ Goto(a, "idle")
    /\ change' = [change EXCEPT ![a] = None]
    /\ copy' = [copy EXCEPT ![a] = None]
    /\ mem' = [mem EXCEPT ![a] = {}]
    /\ why' = why \cup {"cli"}
    /\ UNCHANGED <<secrets, history, gatewayVars, begun>>

(* Another saver's rename took path.tmp: this one reports an error.         *)
RenameFails(a) ==
    /\ pc[a] = "rename" /\ tmp = None
    /\ Finish(a)
    /\ UNCHANGED <<fileVars, secrets, history, gatewayVars, begun, why>>

(* InsertConfigHistory.  applyMutation goes on when it fails;               *)
(* handleRollbackConfig returns, with the snapshot saved and not running.   *)
RecordedPrevious(a) == running
Recorded(a) == copy[a]

AfterRecordMissed(a) == IF change[a].do = "rollback" THEN "idle" ELSE "reload"
AfterRecord(a) == "reload"

Record(a) ==
    /\ pc[a] = "record"
    /\ history' = Append(history, Recorded(a))
    /\ Goto(a, AfterRecord(a))
    /\ UNCHANGED <<fileVars, secrets, gatewayVars, change, copy, mem, at, begun, why>>

RecordFails(a) ==
    /\ pc[a] = "record"
    /\ why' = why \cup {"store"}
    /\ IF change[a].do = "rollback"
       THEN Finish(a)
       ELSE Goto(a, "reload") /\ UNCHANGED <<change, copy, mem, at>>
    /\ UNCHANGED <<fileVars, secrets, history, gatewayVars, begun>>

(* app.Server.Reload with the copy that was saved: a new handler over the   *)
(* gateway's one credential manager, which read the vault when it started.  *)
Reload(a) ==
    /\ pc[a] = "reload"
    /\ running' = copy[a]
    /\ Finish(a)
    /\ UNCHANGED <<fileVars, secrets, history, known, begun, why>>

-----------------------------------------------------------------------------
(* loadConfig's GetLatestConfigRevision, or a command's storage.Open, fails. *)
StoreFails(a) ==
    /\ pc[a] \in {"check"} \cup {p \in {"load"} : a \in Console}
    /\ Finish(a)
    /\ why' = why \cup {"store"}
    /\ UNCHANGED <<fileVars, secrets, history, gatewayVars, begun>>

Killed(a) ==
    /\ a \in Cli /\ Busy(a)
    /\ Finish(a)
    /\ why' = why \cup {"crash"}
    /\ UNCHANGED <<fileVars, secrets, history, gatewayVars, begun>>

(* The process with the console and the gateway dies and is started again.  *)
Ended(f, end) == [a \in Actor |-> IF a \in Console THEN end ELSE f[a]]

Restart ==
    /\ Readable(file)
    /\ running' = Loaded(file) /\ known' = secrets
    /\ pc' = Ended(pc, "idle") /\ change' = Ended(change, None)
    /\ copy' = Ended(copy, None) /\ mem' = Ended(mem, {})
    /\ at' = Ended(at, "gone")
    /\ why' = why \cup {w \in {"crash"} : \E a \in Console : Busy(a)}
    /\ UNCHANGED <<fileVars, secrets, history, begun>>

HandlerStep(a) ==
    \/ Look(a) \/ LookRefuses(a)
    \/ LoadVault(a) \/ NoManager(a) \/ RemoveSecret(a) \/ StoreSecret(a)
    \/ Revise(a) \/ ReviseRefuses(a)
    \/ Open(a) \/ Write(a) \/ Rename(a) \/ CliRename(a) \/ RenameFails(a)
    \/ Record(a) \/ RecordFails(a) \/ Reload(a)
    \/ StoreFails(a) \/ Killed(a)

ConfigNext ==
    \/ \E a \in Actor, ch \in Changes : Begin(a, ch) \/ BeginRollback(a, ch)
    \/ \E a \in Actor : HandlerStep(a)
    \/ Restart

ConfigSpec == ConfigInit /\ [][ConfigNext]_configVars

-----------------------------------------------------------------------------
Quiet == \A a \in Actor : ~Busy(a)

(* Whatever handlers and commands race, what the gateway runs, what it      *)
(* would load and every snapshot a rollback can restore name only providers *)
(* and routes they contain.  The handlers' dependency checks do not give    *)
(* this, they read another copy: Validate on what is saved does.            *)
ReferencesClosed ==
    \A c \in {file, running} \cup {history[i] : i \in DOMAIN history} :
        c \in Configs => Valid(c)

(* config.Save survives a death at any step: the file is cut short or mixed *)
(* up only after two saves used path.tmp at once.                           *)
WholeFile == file \in {Empty, Torn} => "shared" \in why

(* With no change under way the gateway runs what the file holds, unless    *)
(* changes overlapped (the last to reload need not be the last to save), a  *)
(* command edited the file, or the database failed (bridge.go:63-70,        *)
(* api_config.go:70-77).                                                    *)
RuntimeFollowsFile ==
    Quiet /\ running # file => why \cap {"overlap", "cli", "store"} # {}

(* The last revision is what the file holds, with the same exceptions and a *)
(* death between Save and InsertConfigHistory.                              *)
HistoryEndsWithFile ==
    (Quiet /\ why \cap {"overlap", "cli", "store", "crash"} = {}) =>
        file = IF history = <<>> THEN Initial ELSE history[Len(history)]

(* Each provider whose credential_ref names the vault has its secret there. *)
(* The exceptions are many: overlapping changes, a database that fails or a *)
(* process that dies after the secret is removed, a rollback to a snapshot  *)
(* whose provider was deleted since, and a command that removes the secret  *)
(* of a provider still in use (cli/provider.go:253-256).  The handler for   *)
(* deletes looks at the dependencies first so as not to be one of them.     *)
SecretsKept ==
    (Quiet /\ why \cap {"overlap", "store", "crash", "rollback", "unguarded"} = {}) =>
        \A p \in Provider :
            file \in Configs /\ file.providers[p] = "vault" => p \in secrets

(* console/server.go:43: "ReloadRuntime applies Console config changes to   *)
(* the live gateway."  So after changes made one at a time at the console,  *)
(* with nothing failing, the gateway has the secret of each provider it     *)
(* runs.                                                                    *)
LiveGatewayAuthenticates ==
    (Quiet /\ why = {}) =>
        \A p \in Provider : running.providers[p] = "vault" => p \in known

(* README.md:1409: "Configuration writes are atomic and use restrictive     *)
(* permissions."                                                            *)
WritesAtomic == file \in Configs
=============================================================================
