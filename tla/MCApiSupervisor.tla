-------------------------- MODULE MCApiSupervisor --------------------------
(* Model values and bounds for TLC. *)
EXTENDS ApiSupervisor, TLC

CONSTANTS p1, p2, p3, o1, t1, t2

MCApis2 == {p1, p2}
MCApis3 == {p1, p2, p3}
MCOperations == {o1}
MCStatus == {t1}
MCStatus2 == {t1, t2}
MCNobody == {}

Symmetry == Permutations(MCApis3)

=============================================================================
