---------------------------- MODULE SealedTree ----------------------------
(***************************************************************************)
(* What the Windows guard promises of a project's tree, whatever happens   *)
(* to single descriptors: a lock seals its entries at once, together with  *)
(* every directory on the way to them; a sealed file can be edited by      *)
(* nobody; nothing goes that is sealed all the way; no file appears in a   *)
(* sealed directory; and only a command of the guard unseals what stays.   *)
(* ControlPlaneGuard implements this specification.                        *)
(***************************************************************************)
CONSTANTS
    Entries, \* what can be sealed
    Files,   \* entries that are files; they may be missing
    Dir,     \* directory of each file
    Path,    \* an entry and the directories above it
    Contents \* of a file; "missing" if there is none

VARIABLES
    content, \* of each file
    sealed   \* entries that are sealed

tree == << content, sealed >>

There(f) == content[f] # "missing"

Init == content \in [Files -> Contents] /\ sealed = {}

\* A lock is granted for entries it has found.
Seal ==
    /\ \E more \in SUBSET Entries :
         /\ \A e \in more : Path[e] \subseteq more /\ (e \in Files => There(e))
         /\ sealed' = sealed \cup more
    /\ UNCHANGED content

\* The end of a session, or an unlock.
Unseal == sealed' \subseteq sealed /\ UNCHANGED content

\* The processes of the project.
Write(f) ==
    /\ There(f) /\ f \notin sealed
    /\ \E new \in Contents \ {"missing"} : content' = [content EXCEPT ![f] = new]
    /\ UNCHANGED sealed

Create(f) ==
    /\ ~There(f) /\ Dir[f] \notin sealed
    /\ \E new \in Contents \ {"missing"} : content' = [content EXCEPT ![f] = new]
    /\ UNCHANGED sealed

\* A file, or a directory with what is in it.
Remove ==
    \E gone \in SUBSET Entries :
        /\ \A e \in gone : ~(Path[e] \subseteq sealed)
        /\ content' = [f \in Files |-> IF f \in gone THEN "missing" ELSE content[f]]
        /\ sealed' = sealed \ gone

Next == Seal \/ Unseal \/ Remove \/ \E f \in Files : Write(f) \/ Create(f)

TreeSpec == Init /\ [][Next]_tree
=============================================================================
