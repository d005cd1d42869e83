-------------------------------- MODULE MCVault --------------------------------
(* Two operations at a time on two providers' secrets, and gateways that    *)
(* start and stop, with the vault backend or a keyring that comes and goes. *)
EXTENDS Vault, TLC

CONSTANTS w1, w2, gw, n1, n2, s1, s2

WriterDef == {w1, w2}
NameDef == {n1, n2}
SecretDef == {s1, s2}
BackendsDef == {"vault", "keyring"}

Symmetry == Permutations(WriterDef) \cup Permutations(NameDef) \cup Permutations(SecretDef)
=============================================================================
