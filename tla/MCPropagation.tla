---------------------------- MODULE MCPropagation ----------------------------
(* Instances of Propagation for TLC. *)
EXTENDS Propagation

CONSTANT p1

\* The processor is that of the tenant whose range moves when the other one is
\* isolated.
TwoTenants == 1 .. 2
=============================================================================
