--------------------------- MODULE MCProjectSync ---------------------------
(* Small instances of ProjectSync for TLC. *)
EXTENDS ProjectSync, TLC

CONSTANTS d1, d2, b1, b2

SyncSymmetry == Permutations({d1, d2}) \cup Permutations({b1, b2})

\* The bodies are interchangeable, and symmetry is unsound for liveness: the
\* published project holds the first.
MCInit == Init /\ \A v \in DOMAIN published : published[v].content.body = b1

MCSpec == MCInit /\ [][Next]_vars /\ SyncFairness
=============================================================================
