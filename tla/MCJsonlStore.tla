------------------------------ MODULE MCJsonlStore ------------------------------
(***************************************************************************)
(* Small instances of JsonlStore for TLC.  Session 2 has the legacy key 1, *)
(* which sorts before it as agent:... does before sk_v1_...                *)
(***************************************************************************)
EXTENDS JsonlStore, TLC

CONSTANTS c1, c2

OwnShard == [k \in Keys |-> k]
LegacyKey == [k \in Keys |-> IF k = 2 THEN {1} ELSE {}]
\* The legacy session is written by nobody but an older version, or a caller
\* that has not heard of the new key.
LegacyAppended == [k \in Keys |-> IF k = 1 THEN {"add", "summary"} ELSE Ops]

SymCallers == Permutations({c1, c2})
=============================================================================
