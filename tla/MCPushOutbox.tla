---------------------------- MODULE MCPushOutbox ----------------------------
(* Small instances of PushOutbox for TLC.                                  *)
EXTENDS PushOutbox, TLC

CONSTANTS g1, g2, n1, n2, d1, d2

\* Every notification goes to one guardian, or each to its own.
OneGuardian == [n \in Notifications |-> g1]
TwoGuardians == [n \in Notifications |-> IF n = n1 THEN g1 ELSE g2]

Interchangeable == Permutations(Workers) \cup Permutations(Tokens) \cup Permutations(Devices)
=============================================================================
