------------------------ MODULE MCControlPlaneGuard ------------------------
(* A project with one control directory, in its root or in an ordinary     *)
(* directory of it, and one control file in a directory of its own.        *)
EXTENDS ControlPlaneGuard, TLC

CONSTANTS root, rad, docs, nested

Order == [ p \in Paths |-> CHOOSE n \in 1 .. 4 : << root, rad, docs, nested >>[n] = p ]

Up == (rad :> root) @@ (docs :> root) @@ (nested :> docs)

ParentUp == [ p \in Paths \ ({Root} \cup Movable) |-> Up[p] ]

Below == [ d \in Paths |->
    IF d = root THEN Paths ELSE {d} \cup { p \in Paths \ {root} : Up[p] = d } ]

Symmetric == Permutations(Sessions)
=============================================================================
