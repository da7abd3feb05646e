-------------------------- MODULE MCDaqCoordinator --------------------------
(* Instance of DaqCoordinator for TLC: clients as model values.            *)
EXTENDS DaqCoordinator, TLC

\* Clients are interchangeable: nothing orders them, no property names one.
ClientSymmetry == Permutations(Clients)
=============================================================================
