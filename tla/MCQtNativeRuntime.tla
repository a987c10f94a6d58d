------------------------- MODULE MCQtNativeRuntime -------------------------
(* Model values and bounds for TLC. *)
EXTENDS QtNativeRuntime, TLC

CONSTANTS w1, w2, w3, p1, p2

MCWindows == {w1, w2, w3}
MCProcesses == {p1, p2}

Symmetry == Permutations(MCWindows) \cup Permutations(MCProcesses)

=============================================================================
