-------------------------------- MODULE Vault --------------------------------
(* The secrets at rest: credentials/manager.go with its key file, its vault *)
(* file and the operating system's keyring, as the console's provider       *)
(* handlers, the provider commands and the gateway use it.                  *)
(*                                                                          *)
(* Every console write (credManager), every command (LoadRuntime) and the   *)
(* gateway makes a Manager of its own: it reads the key and the whole vault *)
(* once, changes its own map and writes the whole vault back.  Nothing      *)
(* orders two of them, and os.WriteFile cuts the file before it fills it.   *)
(*                                                                          *)
(* What the configuration says of a provider's credential is changed with   *)
(* the end of the operation in one step here; ConsoleConfig models what may *)
(* happen to that save.  A passphrase always derives the same key, as a     *)
(* key file that is never rewritten holds it.                               *)
EXTENDS Naturals, Sequences

CONSTANTS Writer,       \* console requests and commands that change secrets
          Gateway,      \* the process that resolves them
          Name, Secret,
          Backends,     \* the credential backends tried
          MaxOps,       \* bound: operations and gateway starts
          None, Empty, Torn

Actor == Writer \cup {Gateway}
Keys == Nat \ {0}
Maps == [Name -> Secret \cup {None}]
NoSecrets == [n \in Name |-> None]
Sealed == [key: Keys, map: Maps]

ASSUME VaultAssumption ==
    /\ Gateway \notin Writer /\ MaxOps \in Nat
    /\ Backends \subseteq {"vault", "keyring"}
    /\ None \notin Secret \cup Keys /\ Empty \notin Keys /\ Empty # None
    /\ Torn \notin Sealed \cup {None, Empty} /\ {None, Empty} \cap Sealed = {}

VARIABLES
    backend,   \* credentials.backend
    keyFile,   \* vault.db.key
    vault,     \* vault.db
    keyring,   \* the operating system's store
    reachable, \* whether the keyring answers
    pc, op, edits, key, mem,
    refs,      \* what the configuration refers to: [scheme, secret] by name
    seen,      \* refs when the gateway's manager was made
    made, begun, why
(* why is a history variable, the incidents so far:                         *)
(*   overlap   an operation began while another was under way               *)
(*   glimpse   a gateway and an operation read and wrote at the same time   *)
(*   death     a process died, or a write failed, with a file cut or        *)
(*             between the Remove and the Store that set a credential       *)

diskVars == <<keyFile, vault, keyring>>
managerVars == <<pc, op, edits, key, mem>>
vaultVars == <<backend, diskVars, reachable, managerVars, refs, seen, made, begun, why>>

NoRef == [scheme |-> "none", secret |-> None]
Refs == [scheme: {"none", "vault", "keyring"}, secret: Secret \cup {None}]

(* add and set come with a secret; serve is the gateway's start.            *)
Ops == [do: {"add", "set"}, name: Name, to: Secret]
       \cup [do: {"drop"}, name: Name, to: {None}]
Edit(n, s) == [name |-> n, to |-> s]
Edits == [name: Name, to: Secret \cup {None}]

VaultTypeOK ==
    /\ backend \in Backends /\ reachable \in BOOLEAN
    /\ keyFile \in Keys \cup {None, Empty}
    /\ vault \in Sealed \cup {None, Empty, Torn}
    /\ keyring \in Maps
    /\ pc \in [Actor -> {"idle", "ring", "key", "cut", "fill", "load", "save",
                         "write", "serving"}]
    /\ op \in [Actor -> Ops \cup {None}]
    /\ edits \in [Actor -> Seq(Edits)] /\ \A a \in Actor : Len(edits[a]) <= 2
    /\ key \in [Actor -> Keys \cup {None, Empty}]
    /\ mem \in [Actor -> Maps]
    /\ refs \in [Name -> Refs] /\ seen \in [Name -> Refs]
    /\ made \in Keys /\ begun \in 0..MaxOps
    /\ why \subseteq {"overlap", "glimpse", "death"}
    /\ \A a \in Actor : pc[a] = "idle" => mem[a] = NoSecrets /\ key[a] = None
    /\ \A w \in Writer : pc[w] # "idle" <=> edits[w] # <<>>

(* termrouter init makes a manager, and so the key file of the vault        *)
(* backend, before anything else runs.                                      *)
VaultInit ==
    /\ backend \in Backends
    /\ keyFile = (IF backend = "vault" THEN 1 ELSE None)
    /\ vault = None /\ keyring = NoSecrets /\ reachable \in BOOLEAN
    /\ pc = [a \in Actor |-> "idle"] /\ op = [a \in Actor |-> None]
    /\ edits = [a \in Actor |-> <<>>] /\ key = [a \in Actor |-> None]
    /\ mem = [a \in Actor |-> NoSecrets]
    /\ refs = [n \in Name |-> NoRef] /\ seen = refs
    /\ made = 1 /\ begun = 0 /\ why = {}

-----------------------------------------------------------------------------
Goto(a, place) == pc' = [pc EXCEPT ![a] = place]

Finish(a) ==
    /\ Goto(a, "idle")
    /\ op' = [op EXCEPT ![a] = None] /\ edits' = [edits EXCEPT ![a] = <<>>]
    /\ key' = [key EXCEPT ![a] = None] /\ mem' = [mem EXCEPT ![a] = NoSecrets]

Refer(a, scheme) ==
    refs' = [refs EXCEPT ![op[a].name] =
                IF op[a].do = "drop" THEN NoRef
                ELSE [scheme |-> scheme, secret |-> op[a].to]]

Busy(a) == pc[a] \notin {"idle", "serving"}
WritersMeet == IF \E w \in Writer : Busy(w) THEN {"overlap"} ELSE {}
ReaderMeets == IF \E a \in Actor : Busy(a) THEN {"glimpse"} ELSE {}

(* NewManager: the vault backend reads key and vault at once; for a keyring *)
(* nothing is read.                                                         *)
FirstStep == IF backend = "vault" THEN "key" ELSE "ring"

(* A provider is added, its credential set, or it is removed.  The console  *)
(* sets a credential by Remove and Store on one manager.                    *)
Begin(w) ==
    \E o \in Ops :
        /\ pc[w] = "idle" /\ begun < MaxOps
        /\ (refs[o.name] = NoRef) <=> (o.do = "add")
        /\ Goto(w, FirstStep)
        /\ op' = [op EXCEPT ![w] = o]
        /\ edits' = [edits EXCEPT ![w] =
                        IF o.do = "set" THEN <<Edit(o.name, None), Edit(o.name, o.to)>>
                        ELSE <<Edit(o.name, o.to)>>]
        /\ begun' = begun + 1
        /\ why' = why \cup WritersMeet \cup (IF Busy(Gateway) THEN {"glimpse"} ELSE {})
        /\ UNCHANGED <<backend, diskVars, reachable, key, mem, refs, seen, made>>

StartGateway ==
    /\ pc[Gateway] = "idle" /\ begun < MaxOps
    /\ Goto(Gateway, IF backend = "vault" THEN "key" ELSE "serving")
    /\ seen' = refs
    /\ begun' = begun + 1 /\ why' = why \cup ReaderMeets
    /\ UNCHANGED <<backend, diskVars, reachable, op, edits, key, mem, refs, made>>

-----------------------------------------------------------------------------
(* Store and Remove on the keyring backend.  A reference into the vault is  *)
(* removed through a manager without a key, which refuses to save; both     *)
(* callers ignore the error.                                                *)
Ring(w) ==
    LET o == op[w]
        dropped == IF refs[o.name].scheme = "keyring" /\ reachable
                   THEN [keyring EXCEPT ![o.name] = None] ELSE keyring
    IN  /\ pc[w] = "ring"
        /\ IF o.do = "drop" \/ reachable
           THEN /\ keyring' = (IF o.do = "drop" THEN dropped
                               ELSE [keyring EXCEPT ![o.name] = o.to])
                /\ Refer(w, "keyring")
                /\ Finish(w)
           ELSE /\ Goto(w, "key")                      \* storeVaultFallback
                /\ edits' = [edits EXCEPT ![w] = <<Edit(o.name, o.to)>>]
                /\ UNCHANGED <<keyring, refs, op, key, mem>>
        /\ UNCHANGED <<backend, keyFile, vault, reachable, seen, made, begun, why>>

(* initVault: take the key file's bytes, whatever they are, or make it.     *)
ReadKey(a) ==
    /\ pc[a] = "key"
    /\ IF keyFile # None
       THEN /\ key' = [key EXCEPT ![a] = keyFile] /\ Goto(a, "load")
       ELSE /\ UNCHANGED key /\ Goto(a, "cut")
    /\ UNCHANGED <<backend, diskVars, reachable, op, edits, mem, refs, seen, made,
                   begun, why>>

CutKey(a) ==
    /\ pc[a] = "cut"
    /\ keyFile' = Empty /\ Goto(a, "fill")
    /\ UNCHANGED <<backend, vault, keyring, reachable, op, edits, key, mem, refs,
                   seen, made, begun, why>>

FillKey(a) ==
    /\ pc[a] = "fill"
    /\ made' = made + 1 /\ keyFile' = made'
    /\ key' = [key EXCEPT ![a] = made'] /\ Goto(a, "load")
    /\ UNCHANGED <<backend, vault, keyring, reachable, op, edits, mem, refs, seen,
                   begun, why>>

(* loadVault: no file and an empty file are an empty vault; anything else   *)
(* must decrypt under the key that was read.                                *)
Opens(k, f) == f \in Sealed /\ f.key = k
Blank(f) == f \in {None, Empty}
Contents(f) == IF Blank(f) THEN NoSecrets ELSE f.map

(* A bug: the key is not asked for the file it is to open.                  *)
LoadUnchecked(a) ==
    /\ pc[a] = "load"
    /\ mem' = [mem EXCEPT ![a] = NoSecrets]
    /\ Goto(a, IF a = Gateway THEN "serving" ELSE "save")
    /\ UNCHANGED <<op, edits, key>>
    /\ UNCHANGED <<backend, diskVars, reachable, refs, seen, made, begun, why>>

Load(a) ==
    /\ pc[a] = "load"
    /\ IF Blank(vault) \/ Opens(key[a], vault)
       THEN /\ mem' = [mem EXCEPT ![a] = Contents(vault)]
            /\ Goto(a, IF a = Gateway THEN "serving" ELSE "save")
            /\ UNCHANGED <<op, edits, key>>
       ELSE Finish(a)
    /\ UNCHANGED <<backend, diskVars, reachable, refs, seen, made, begun, why>>

(* Store or Remove up to os.WriteFile's open: the map is changed, sealed    *)
(* and the file cut.  A key that is no key ends the operation before.       *)
(* A bug: a Store that takes its own entry for the whole vault.             *)
EditedAlone(m, e) == [NoSecrets EXCEPT ![e.name] = e.to]

Edited(m, e) == [m EXCEPT ![e.name] = e.to]

Open(w) ==
    /\ pc[w] = "save"
    /\ IF key[w] \in Keys
       THEN /\ mem' = [mem EXCEPT ![w] = Edited(@, Head(edits[w]))]
            /\ vault' = Empty /\ Goto(w, "write")
            /\ UNCHANGED <<op, edits, key>>
       ELSE Finish(w) /\ UNCHANGED vault
    /\ UNCHANGED <<backend, keyFile, keyring, reachable, refs, seen, made, begun, why>>

(* The bytes go in from the start of the file: over another's longer text   *)
(* they leave its tail.  The lengths are not modelled, so they may.         *)
Written(w) == LET text == [key |-> key[w], map |-> mem[w]]
              IN  IF vault = Empty THEN {text} ELSE {text, Torn}

Write(w) ==
    /\ pc[w] = "write"
    /\ vault' \in Written(w)
    /\ IF Len(edits[w]) > 1
       THEN /\ edits' = [edits EXCEPT ![w] = Tail(@)] /\ Goto(w, "save")
            /\ UNCHANGED <<op, key, mem, refs>>
       ELSE Refer(w, "vault") /\ Finish(w)
    /\ UNCHANGED <<backend, keyFile, keyring, reachable, seen, made, begun, why>>

(* The process dies, or the disk takes no more, with the file cut: nothing  *)
(* or a part of the text is in it, and no credential is reported stored.    *)
Cut(a) == \/ pc[a] \in {"fill", "write"}
          \/ pc[a] = "save" /\ op[a].do = "set" /\ Len(edits[a]) = 1

Die(a) ==
    /\ Busy(a)
    /\ Finish(a)
    /\ vault' \in IF pc[a] = "write" THEN {vault, Torn} ELSE {vault}
    /\ why' = IF Cut(a) THEN why \cup {"death"} ELSE why
    /\ UNCHANGED <<backend, keyFile, keyring, reachable, refs, seen, made, begun>>

StopGateway ==
    /\ pc[Gateway] = "serving" /\ Finish(Gateway)
    /\ UNCHANGED <<backend, diskVars, reachable, refs, seen, made, begun, why>>

KeyringTurns ==
    /\ backend = "keyring" /\ reachable' = ~reachable
    /\ UNCHANGED <<backend, diskVars, managerVars, refs, seen, made, begun, why>>

VaultNext ==
    \/ StartGateway \/ StopGateway \/ KeyringTurns
    \/ \E w \in Writer : Begin(w) \/ Ring(w) \/ Open(w) \/ Write(w)
    \/ \E a \in Actor : ReadKey(a) \/ CutKey(a) \/ FillKey(a) \/ Load(a) \/ Die(a)

VaultSpec == VaultInit /\ [][VaultNext]_vaultVars

-----------------------------------------------------------------------------
(* As long as two operations never overlapped and nobody died with a file   *)
(* cut, the vault on disk opens under the key on disk and holds exactly     *)
(* what the configuration refers to, whenever no operation is under way:    *)
(* what was stored is there, what was removed is not, across any sequence   *)
(* of managers that each rewrite the whole file.                            *)
Quiet == \A w \in Writer : ~Busy(w)

StoredSecretsKept ==
    Quiet /\ why \subseteq {"glimpse"} =>
        \A n \in Name :
            /\ refs[n].scheme = "vault" =>
                  Opens(keyFile, vault) /\ vault.map[n] = refs[n].secret
            /\ backend = "vault" /\ refs[n] = NoRef => Contents(vault)[n] = None

(* A damaged vault is refused, never taken for an empty one and written     *)
(* over, as long as no two operations overlap: loadVault's decryption       *)
(* stands between every Store and the file.                                 *)
DamageRefused ==
    [][vault = Torn /\ "overlap" \notin why => vault' = Torn]_vaultVars

(* "Vault file next to config is the reliable headless fallback when        *)
(* keyring is unavailable" (docs/adr/0001-stack-and-storage.md:25): with no *)
(* incident, a gateway started after a credential was stored resolves it.   *)
FallbackReliable ==
    pc[Gateway] = "serving" /\ why = {} =>
        \A n \in Name :
            seen[n].scheme = "vault" => mem[Gateway][n] = seen[n].secret

=============================================================================
