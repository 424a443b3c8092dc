-------------------------- MODULE MCConfigService --------------------------
(* Small instances of ConfigService for TLC. *)
EXTENDS ConfigService, TLC

CONSTANTS k1, k2, m1, m2

\* The handlers are interchangeable, and so are two keys with a default.
Interchangeable == Permutations(Requests) \cup Permutations(DefaultKeys)
=============================================================================
