---------------------------- MODULE MC_ListSpec -----------------------------
EXTENDS ListSpec

\* Priorities of the three nodes: two equal, one lower, so that both the
\* strict comparison and FIFO order among equals are exercised.
MCPri == [n \in Node |-> IF n = "n3" THEN 1 ELSE 2]
=============================================================================
