------------------------------ MODULE Profiles ------------------------------
(* Layered model profiles (internal/smart/profile.go, config_bridge.go): the *)
(* configuration keeps up to three layers per profile id, and a capability   *)
(* or property is resolved field by field over the layers of up to three     *)
(* ids.  A value is whatever it came from; two sources that agree are still  *)
(* two values.                                                               *)
EXTENDS Naturals, Sequences

CONSTANTS ProfileId,  \* provider/model keys, bare model names, profile names
          Field,      \* capabilities and properties
          Value,
          None

(* candidateLayers, lowest first.                                            *)
Layers == <<"external", "assessment", "user">>
Layer == {"external", "assessment", "user"}

Entry == [Layer -> [Field -> Value \cup {None}]]
NoEntry == [l \in Layer |-> [f \in Field |-> None]]

(* The ids a candidate is looked up under, in the order they are read.       *)
Keys(profile, key, model) == IF profile = None THEN <<key, model>> ELSE <<profile, key, model>>

(* ResolveDetailed visits id after id and, within one, layer after layer;    *)
(* what it visits later replaces what it visited before.                     *)
Visits(keys) == (DOMAIN keys) \X (DOMAIN Layers)
Before(v, w) == v[1] < w[1] \/ (v[1] = w[1] /\ v[2] < w[2])

At(profiles, keys, v, f) == profiles[keys[v[1]]][Layers[v[2]]][f]
Defined(profiles, keys, f) == {v \in Visits(keys) : At(profiles, keys, v, f) # None}

IsWinner(profiles, keys, f, v) ==
    /\ v \in Defined(profiles, keys, f)
    /\ \A w \in Defined(profiles, keys, f) : w = v \/ Before(w, v)

Resolve(profiles, keys, f) ==
    IF Defined(profiles, keys, f) = {} THEN None
    ELSE At(profiles, keys, CHOOSE v \in Visits(keys) : IsWinner(profiles, keys, f, v), f)

(* An id with no layer left is deleted (handleResetProfile).                 *)
Present(entry) == \E l \in Layer, f \in Field : entry[l][f] # None

(* A put into the layer that wins, whichever it is.                          *)
MergeOnTop(entry, l, fields, x) ==
    [k \in Layer |->
        [f \in Field |-> IF f \in fields /\ (k = l \/ entry[k][f] # None) THEN x ELSE entry[k][f]]]

(* The edits: a put merges the fields it names into the user layer, an apply *)
(* into its own layer, a reset drops the user layer.                         *)
Merge(entry, l, fields, x) ==
    [entry EXCEPT ![l] = [f \in Field |-> IF f \in fields THEN x ELSE entry[l][f]]]

DropUser(entry) == [entry EXCEPT !["user"] = [f \in Field |-> None]]
=============================================================================
