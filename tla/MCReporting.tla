-------------------------- MODULE MCReporting --------------------------
(* A small instance of the running system with its report for TLC. *)
EXTENDS Reporting

CONSTANTS p1, s1

MCAmount == [p \in Payments |-> IF p = p1 THEN 2 ELSE 1]
MCHost == [r \in Requests |-> s1]
NoFaults == {}

=============================================================================
