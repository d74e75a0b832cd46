----------------------------- MODULE MCExchange -----------------------------
(* Instances of Exchange for TLC: two clients, one slot.                    *)
EXTENDS Exchange

CONSTANTS c1, c2, f1

TwoClients == {c1, c2}
OneFile    == {f1}
None       == {}

Scenario(first, second, faults, left) ==
  [want |-> (c1 :> first) @@ (c2 :> second), faults |-> faults, left |-> left]

AllFaults == {"refuse", "suspend", "close", "vanish", "damage", "torn"}

\* Two clients that compete, and one alone with which one thing goes wrong, or
\* two if it wants one block
Trials == {Scenario({1}, {1}, {}, 0), Scenario({1, 2}, {}, AllFaults, 1),
           Scenario({1}, {}, AllFaults, 2)}
=============================================================================
