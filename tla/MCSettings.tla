----------------------------- MODULE MCSettings -----------------------------
(* Instances of SettingsPanel for TLC. *)
EXTENDS SettingsPanel, TLC

CONSTANTS a, b, c

\* c is another way of writing a: a list with blank lines, a path with a trailing
\* slash.
Readback == [v \in Values |-> IF v = c THEN a ELSE v]

Entries == [k \in Keys |-> IF k \in ConfigKeys THEN {a, b} ELSE {b, c}]

\* A fresh installation: nothing has been set.
FreshInit == Init /\ stored = [k \in Keys |-> Default]
FreshSpec == FreshInit /\ [][Next]_vars /\ Fairness
=============================================================================
