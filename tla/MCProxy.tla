------------------------------ MODULE MCProxy ------------------------------
(* Small instances of the proxy for TLC. *)
EXTENDS ProxyRelay, TLC

AllFaults == FaultKinds
NoFaults == {}
\* Every call may fail but the one whose failure leaves a freed block registered.
CallFaults == FaultKinds \ {"list"}
\* Calls whose failure loses a query but leaves the loop able to serve the rest.
LossFaults == {"socket", "sendto", "reply"}
NoSteps == {}
StepBack == {2}

\* Names of queries, blocks, descriptors and ports carry no meaning.
Symmetry ==
  Permutations(Query) \cup Permutations(Cell) \cup Permutations(Fd)
    \cup Permutations(Port)
=============================================================================
