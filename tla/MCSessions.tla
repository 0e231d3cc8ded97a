------------------------------ MODULE MCSessions ------------------------------
(* Two tabs of a browser whose localStorage may fail at any call.  Failures    *)
(* are explored with fewer sessions than the rest.                          *)
EXTENDS Sessions, TLC

CONSTANT Steady      \* bound: none beyond this one is issued while a tab is adrift

Interchangeable == Permutations(Tabs)

BoundedNext == Next /\ (issued' <= Steady \/ adrift' = {})
BoundedSpec == Init /\ [][BoundedNext]_vars
=============================================================================
