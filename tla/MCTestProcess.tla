--------------------------- MODULE MCTestProcess ---------------------------
(* Small instances of TestProcess for TLC. *)
EXTENDS TestProcess, TLC

\* Process ids and ports are interchangeable, and so are clients of a kind.
Symmetric == Permutations(Pids) \cup Permutations(ControlPorts)
                \cup Permutations(Starts \ Past) \cup Permutations(Stops)
                \cup Permutations(Cleaners)
=============================================================================
