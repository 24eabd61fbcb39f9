--------------------------- MODULE MCGateway ---------------------------
(* Small instances of the running system for TLC. *)
EXTENDS GatewayTotals, TLC

CONSTANTS p1, s1

(* Different amounts, so that the sums tell the payments apart. *)
MCAmount == [p \in Payments |-> IF p = p1 THEN 2 ELSE 1]

(* The first server handles every request. *)
MCHost == [r \in Requests |-> s1]

NoFaults  == {}
AllFaults == {"crash", "dberror", "disconnect"}
CrashOnly == {"crash"}

(* Slots are interchangeable, as all have the same host, and so are runs. *)
RunSymmetry == Permutations(Requests) \cup Permutations(Settlements)

=============================================================================
