-------------------------- MODULE MCClusterLifecycle --------------------------
(***************************************************************************)
(* Instances of ClusterLifecycle: two nodes, two attempts and two runs.    *)
(***************************************************************************)
EXTENDS ClusterLifecycle

\* Every scenario has the same base port, so that whatever an attempt leaves
\* behind is in the way of the next.
SamePorts == {1}

\* Scenarios draw their base port; the ports of two runs may overlap.
OverlappingPorts == {1, 2}
=============================================================================
