------------------------- MODULE ControlPlaneGuard -------------------------
(***************************************************************************)
(* The Windows session guard of a project's control plane,                 *)
(* src/security/rad_security/guard.py, with the three commands of          *)
(* src/security/rad_secure.py and launcher.py that drive it:               *)
(*                                                                         *)
(*   launch   lock, verify, run the runtime, restore                       *)
(*   lock     check the baseline, lock, verify, exit and leave it locked   *)
(*   unlock   check the baseline, remove the deny entries                  *)
(*                                                                         *)
(* Security descriptors live in the file system and are changed one path   *)
(* at a time by a child process (icacls, powershell), so other commands    *)
(* and the processes of the project run between any two paths.  A security *)
(* descriptor is the set of deny entries for Everyone it holds: the        *)
(* guard's own, and "own" for one the project had before.                  *)
(***************************************************************************)
EXTENDS Naturals

CONSTANTS
    Sessions,    \* guard commands that may run at the same time
    Commands,    \* which of FullCommands they run
    Paths,       \* what a guard may select: directories and control files
    Rank,        \* where a path comes in the order lock() puts them in
    Root,        \* the project root
    ControlDirs, \* directories classified as control plane
    Leaves,      \* control files
    Inside,      \* what lies in each path, itself included
    Movable,     \* directories whose own directory no guard selects
    Parent,      \* directory of each other path but the root
    Baseline,    \* control files the installed baseline records
    Pre,         \* paths that have a deny entry of their own
    Faults       \* which failures the environment produces

FullCommands == { "launch", "lock", "unlock" }

FaultKinds ==
    { "scan",    \* the walk refuses the tree (limit, link, unreadable)
      "capture", \* Get-Acl fails
      "deny",    \* icacls /deny fails
      "set",     \* Set-Acl fails
      "crash" }  \* the command is killed

\* A path and the directories above it.
Way(p) == { d \in Paths : p \in Inside[d] }

\* Paths above which every directory is selected whenever they are: the root,
\* control directories and, for a control file, its own directory.
IsAnchored(p) ==
    /\ Way(p) \cap Movable = {}
    /\ \A d \in Way(p) \ (ControlDirs \cup {p, Root}) : p \in Leaves /\ d = Parent[p]

Anchored == { p \in Paths : IsAnchored(p) }

\* The root comes first, then the control directories by depth, then the other
\* parents by depth, and the control files come last.
ASSUME GuardAssumption ==
    /\ Commands \subseteq FullCommands
    /\ Faults \subseteq FaultKinds
    /\ Leaves \subseteq Paths
    /\ {Root} \cup ControlDirs \subseteq Paths \ Leaves
    /\ Movable \subseteq Paths \ (Leaves \cup {Root})
    /\ Pre \subseteq Paths
    /\ Baseline \subseteq Leaves
    /\ Parent \in [Paths \ ({Root} \cup Movable) -> Paths \ Leaves]
    /\ Inside \in [Paths -> SUBSET Paths]
    /\ Inside[Root] = Paths
    /\ \A l \in Leaves : Inside[l] = {l}
    /\ \A p \in Paths :
         /\ p \in Inside[p] /\ \A q \in Inside[p] : Inside[q] \subseteq Inside[p]
         /\ \A q \in Inside[p] \ {p} : p \notin Inside[q]
    /\ \A p \in DOMAIN Parent :
         p \in Inside[Parent[p]] /\ \A d \in Way(p) \ {p} : Parent[p] \in Inside[d]
    /\ Rank \in [Paths -> Nat]
    /\ \A d \in Paths \ Leaves, l \in Leaves : Rank[d] < Rank[l]
    /\ \A p \in Anchored : \A d \in Way(p) \ {p} : Rank[d] < Rank[p]

VARIABLES
    acl,     \* deny entries of each path
    prior,   \* what acl would be had no guard command ever run (history)
    events,  \* what has happened that a launch does not undo (history)
    kept,    \* entries lock commands have left denied (history)
    swapped, \* entries replaced under a command that had captured denials (history)
    file,    \* each path as the baseline sees it; a directory is never changed
    phase,   \* where each command is
    command, \* what each command is
    plan,    \* entries a command has selected (unlock: those left to do)
    snaps,   \* captured descriptors that have not been restored
    denied   \* entries of the plan that have been denied

sessionVars == << phase, command, plan, snaps, denied >>
history == << prior, events, kept, swapped >>
vars == << acl, history, file, sessionVars >>

Phases == { "idle", "admitted", "capturing", "denying", "undoing", "locked", "running",
            "restoring", "unlocking" }

FileStates == { "missing", "reviewed", "changed" }

Acls == SUBSET {"own", "guard"}

Events == { "lock",   \* a lock command has left its denials
            "unlock", \* an unlock command has removed deny entries
            "loss" }  \* a descriptor could not be restored, or a command was killed

Snapshots == [path : Paths, acl : Acls]

Captured(s) == { x.path : x \in snaps[s] }

(* The state each variable ranges over; at most one snapshot per entry.     *)
TypeOK ==
    /\ acl \in [Paths -> Acls] /\ prior \in [Paths -> Acls]
    /\ events \subseteq Events /\ kept \subseteq Paths /\ swapped \subseteq Paths
    /\ file \in [Paths -> FileStates]
    /\ phase \in [Sessions -> Phases]
    /\ command \in [Sessions -> FullCommands]
    /\ plan \in [Sessions -> SUBSET Paths]
    /\ denied \in [Sessions -> SUBSET Paths]
    /\ snaps \in [Sessions -> SUBSET Snapshots]
    /\ \A s \in Sessions :
         /\ denied[s] \cup Captured(s) \subseteq plan[s]
         /\ \A x, y \in snaps[s] : x.path = y.path => x = y

Exists(p) == file[p] # "missing"

\* What exists lies in directories that exist.
TreeShaped ==
    /\ Exists(Root)
    /\ \A d \in Paths : \A p \in Inside[d] : Exists(p) => Exists(d)

Init ==
    /\ file \in [Paths -> FileStates]
    /\ TreeShaped /\ \A d \in Paths \ Leaves : file[d] # "changed"
    /\ acl = [p \in Paths |-> IF p \in Pre /\ Exists(p) THEN {"own"} ELSE {}]
    /\ prior = acl
    /\ events = {} /\ kept = {} /\ swapped = {}
    /\ phase = [s \in Sessions |-> "idle"]
    /\ command \in [Sessions -> Commands]
    /\ plan = [s \in Sessions |-> {}]
    /\ snaps = [s \in Sessions |-> {}]
    /\ denied = [s \in Sessions |-> {}]

-----------------------------------------------------------------------------
(* control_plane_entries and the entries lock() derives from it.            *)

\* The control files and the control directories the walk finds.
Present == { l \in Leaves : Exists(l) }
Classed == { d \in ControlDirs : Exists(d) }

\* Mutation: parents of the leaves are not locked.
GuardedWithoutParents(files) == {Root} \cup Classed \cup files

Guarded(files) == {Root} \cup Classed \cup { Parent[l] : l \in files } \cup files

\* Entries are visited one after the other, and restored in reverse.
First(entries) == { p \in entries : \A q \in entries : Rank[p] <= Rank[q] }
Last(entries)  == { p \in entries : \A q \in entries : Rank[q] <= Rank[p] }

Material == Present \cup Classed

Denies(p) == "guard" \in acl[p]

Happens(event) == events' = events \cup {event}

Goes(s, from, to) ==
    /\ phase[s] = from
    /\ phase' = [phase EXCEPT ![s] = to]

-----------------------------------------------------------------------------
(* The command line: lock and unlock call verify_project first, a launch    *)
(* verifies the installation and the executable only.                       *)

MatchesBaseline ==
    \A l \in Leaves : file[l] = IF l \in Baseline THEN "reviewed" ELSE "missing"

Begin(s) ==
    /\ \E c \in Commands :
         /\ c = "launch" \/ MatchesBaseline
         /\ command' = [command EXCEPT ![s] = c]
    /\ Goes(s, "idle", "admitted")
    /\ UNCHANGED << acl, history, file, plan, snaps, denied >>

-----------------------------------------------------------------------------
(* ControlPlaneGuard.lock.                                                  *)

\* The walk; it raises before anything changed.
Select(s) ==
    /\ command[s] # "unlock"
    /\ \/ /\ Material # {}
          /\ Goes(s, "admitted", "capturing")
          /\ plan' = [plan EXCEPT ![s] = Guarded(Present)]
       \/ /\ Material = {} \/ "scan" \in Faults
          /\ Goes(s, "admitted", "idle")
          /\ UNCHANGED plan
    /\ UNCHANGED << acl, history, file, command, snaps, denied >>

\* Mutation: descriptors are captured after the entry has been denied.
CaptureDenied(s) ==
    \E p \in First(plan[s] \ Captured(s)) :
        /\ Goes(s, "capturing", "capturing")
        /\ snaps' = [snaps EXCEPT ![s] = @ \cup {[path |-> p, acl |-> acl[p] \cup {"guard"}]}]
        /\ UNCHANGED << acl, history, file, command, plan, denied >>

\* Mutation: what the guard itself has denied is not captured.
CaptureOwn(s) ==
    \E p \in First(plan[s] \ Captured(s)) :
        /\ Goes(s, "capturing", "capturing")
        /\ snaps' = [snaps EXCEPT ![s] = @ \cup {[path |-> p, acl |-> acl[p] \ {"guard"}]}]
        /\ UNCHANGED << acl, history, file, command, plan, denied >>

\* First loop: _acl_sddl of one entry after the other.
Capture(s) ==
    \E p \in First(plan[s] \ Captured(s)) :
        /\ \/ /\ Exists(p)
              /\ Goes(s, "capturing", "capturing")
              /\ snaps' = [snaps EXCEPT ![s] = @ \cup {[path |-> p, acl |-> acl[p]]}]
           \/ /\ ~Exists(p) \/ "capture" \in Faults
              /\ Goes(s, "capturing", "undoing")
              /\ UNCHANGED snaps
        /\ UNCHANGED << acl, history, file, command, plan, denied >>

CaptureDone(s) ==
    /\ Captured(s) = plan[s]
    /\ Goes(s, "capturing", "denying")
    /\ UNCHANGED << acl, history, file, command, plan, snaps, denied >>

\* Mutation: an entry icacls fails on is skipped.
DenySkipping(s) ==
    \E p \in First(plan[s] \ denied[s]) :
        /\ Goes(s, "denying", "denying")
        /\ \/ acl' = [acl EXCEPT ![p] = @ \cup {"guard"}]
           \/ "deny" \in Faults /\ UNCHANGED acl
        /\ denied' = [denied EXCEPT ![s] = @ \cup {p}]
        /\ UNCHANGED << history, file, command, plan, snaps >>

\* Second loop: icacls /deny on one entry after the other.
Deny(s) ==
    \E p \in First(plan[s] \ denied[s]) :
        /\ \/ /\ Exists(p)
              /\ Goes(s, "denying", "denying")
              /\ acl' = [acl EXCEPT ![p] = @ \cup {"guard"}]
              /\ denied' = [denied EXCEPT ![s] = @ \cup {p}]
           \/ /\ ~Exists(p) \/ "deny" \in Faults
              /\ Goes(s, "denying", "undoing")
              /\ UNCHANGED << acl, denied >>
        /\ UNCHANGED << history, file, command, plan, snaps >>

DenyDone(s) ==
    /\ denied[s] = plan[s]
    /\ Goes(s, "denying", "locked")
    /\ UNCHANGED << acl, history, file, command, plan, snaps, denied >>

\* Mutation: the deny entries are removed instead of the descriptor restored.
RemoveLast(s) ==
    \E snap \in snaps[s] :
        /\ snap.path \in Last(Captured(s))
        /\ acl' = [acl EXCEPT ![snap.path] = {}]
        /\ snaps' = [snaps EXCEPT ![s] = @ \ {snap}]
        /\ UNCHANGED << history, file, phase, command, plan, denied >>

\* _set_acl_sddl of the last snapshot left; the caller swallows or collects
\* a failure and goes on with the one before it.
SetLast(s) ==
    \E snap \in snaps[s] :
        /\ snap.path \in Last(Captured(s))
        /\ \/ /\ Exists(snap.path)
              /\ acl' = [acl EXCEPT ![snap.path] = snap.acl]
              /\ UNCHANGED events
           \/ ~Exists(snap.path) /\ UNCHANGED << acl, events >>
           \/ "set" \in Faults /\ Happens("loss") /\ UNCHANGED acl
        /\ snaps' = [snaps EXCEPT ![s] = @ \ {snap}]
        /\ UNCHANGED << prior, kept, swapped, file, phase, command, plan, denied >>

\* Mutation: restore() does not reset what it has applied.
ForgetSnapshots(s) ==
    /\ plan' = [plan EXCEPT ![s] = {}]
    /\ snaps' = [snaps EXCEPT ![s] = {}]
    /\ UNCHANGED << acl, prior, file, command, denied >>

\* The command is over; what it remembered is gone with its process.
Forget(s) ==
    /\ plan' = [plan EXCEPT ![s] = {}]
    /\ snaps' = [snaps EXCEPT ![s] = {}]
    /\ denied' = [denied EXCEPT ![s] = {}]
    /\ UNCHANGED << acl, prior, file, command >>

\* Mutation: a failed lock raises without the rollback.
UndoNothing(s) == Goes(s, "undoing", "idle") /\ Forget(s) /\ UNCHANGED << events, kept, swapped >>

\* The except clause: the snapshots in reverse, then GuardError.
Undo(s) ==
    \/ phase[s] = "undoing" /\ SetLast(s)
    \/ /\ snaps[s] = {} /\ Goes(s, "undoing", "idle") /\ Forget(s)
       /\ UNCHANGED << events, kept, swapped >>

-----------------------------------------------------------------------------
(* verify, the runtime, and restore.                                        *)

\* One control file and one control directory of the tree as it is now are
\* probed, whichever the walk names first.
SomeDenied(entries) == entries = {} \/ \E p \in entries : Denies(p)
SomeOpen(entries)   == \E p \in entries : ~Denies(p)

\* A launch that cannot verify restores; a lock command leaves as it is.
Verify(s) ==
    \/ /\ command[s] = "launch"
       /\ \/ /\ Material # {} /\ SomeDenied(Present) /\ SomeDenied(Classed)
             /\ Goes(s, "locked", "running")
          \/ /\ Material = {} \/ SomeOpen(Present) \/ SomeOpen(Classed)
             /\ Goes(s, "locked", "restoring")
       /\ UNCHANGED << acl, history, file, command, plan, snaps, denied >>
    \/ /\ command[s] = "lock"
       /\ Goes(s, "locked", "idle")
       /\ Happens("lock") /\ kept' = kept \cup { p \in plan[s] : Denies(p) }
       /\ UNCHANGED swapped
       /\ Forget(s)

\* The runtime executable ends.
RuntimeEnds(s) ==
    /\ Goes(s, "running", "restoring")
    /\ UNCHANGED << acl, history, file, command, plan, snaps, denied >>

Restore(s) ==
    \/ phase[s] = "restoring" /\ SetLast(s)
    \/ /\ snaps[s] = {} /\ Goes(s, "restoring", "idle") /\ Forget(s)
       /\ UNCHANGED << events, kept, swapped >>

-----------------------------------------------------------------------------
(* unlock_control_plane.                                                    *)

\* Mutation: only the classified entries are unlocked.
UnlockPlanWithoutParents == GuardedWithoutParents(Present)

UnlockPlan == Guarded(Present)

SelectUnlock(s) ==
    /\ command[s] = "unlock"
    /\ \/ /\ Goes(s, "admitted", "unlocking")
          /\ plan' = [plan EXCEPT ![s] = UnlockPlan]
       \/ /\ "scan" \in Faults
          /\ Goes(s, "admitted", "idle")
          /\ UNCHANGED plan
    /\ UNCHANGED << acl, history, file, command, snaps, denied >>

\* icacls /remove:d for Everyone on the next entry; a failure ends the command.
UnlockEntry(s) ==
    \E p \in First(plan[s]) :
        /\ phase[s] = "unlocking"
        /\ \/ /\ Exists(p)
              /\ acl' = [acl EXCEPT ![p] = {}]
              /\ plan' = [plan EXCEPT ![s] = @ \ {p}]
              /\ Happens("unlock") /\ kept' = kept \ {p}
              /\ UNCHANGED << prior, swapped, file, phase, command, snaps, denied >>
           \/ /\ ~Exists(p) \/ "deny" \in Faults
              /\ Goes(s, "unlocking", "idle")
              /\ Forget(s)
              /\ UNCHANGED << events, kept, swapped >>

UnlockDone(s) ==
    /\ plan[s] = {} /\ Goes(s, "unlocking", "idle") /\ Forget(s)
    /\ UNCHANGED << events, kept, swapped >>

-----------------------------------------------------------------------------
(* The command is killed, and what the project's own processes do.          *)

Crash(s) ==
    /\ "crash" \in Faults
    /\ phase[s] # "idle"
    /\ phase' = [phase EXCEPT ![s] = "idle"]
    /\ Happens("loss") /\ UNCHANGED << kept, swapped >>
    /\ Forget(s)

\* A name is created with the right to add entries to its directory.
MayCreate(p) == p \notin Movable => ~Denies(Parent[p])

\* A name goes, and what is in it with it, with DELETE on it or DELETE_CHILD on
\* its directory; in an ordinary directory nobody denies the latter.
MayRemove(p) == p \notin Movable => ~(Denies(p) /\ Denies(Parent[p]))

\* A deny entry is not inherited: what is new has none.
Create(p) ==
    /\ ~Exists(p) /\ MayCreate(p)
    /\ \A d \in Way(p) \ {p} : Exists(d)
    /\ \E content \in IF p \in Leaves THEN {"reviewed", "changed"} ELSE {"reviewed"} :
         file' = [file EXCEPT ![p] = content]
    /\ UNCHANGED << acl, history, sessionVars >>

EditLeaf(l) ==
    /\ Exists(l) /\ ~Denies(l)
    /\ \E content \in {"reviewed", "changed"} : file' = [file EXCEPT ![l] = content]
    /\ UNCHANGED << acl, history, sessionVars >>

\* A file is deleted or a directory renamed.  What a command has captured of it
\* may later be set on something new of that name.
Remove(p) ==
    /\ p # Root /\ Exists(p) /\ MayRemove(p)
    /\ file' = [q \in Paths |-> IF q \in Inside[p] THEN "missing" ELSE file[q]]
    /\ acl' = [q \in Paths |-> IF q \in Inside[p] THEN {} ELSE acl[q]]
    /\ prior' = [q \in Paths |-> IF q \in Inside[p] THEN {} ELSE prior[q]]
    /\ kept' = kept \ Inside[p]
    /\ swapped' = (swapped \ Inside[p]) \cup
         { q \in Inside[p] : \E s \in Sessions : \E x \in snaps[s] : x.path = q /\ x.acl # {} }
    /\ UNCHANGED << events, sessionVars >>

Next ==
    \/ \E s \in Sessions :
         \/ Begin(s) \/ Select(s) \/ Capture(s) \/ CaptureDone(s) \/ Deny(s) \/ DenyDone(s)
         \/ Undo(s) \/ Verify(s) \/ RuntimeEnds(s) \/ Restore(s)
         \/ SelectUnlock(s) \/ UnlockEntry(s) \/ UnlockDone(s) \/ Crash(s)
    \/ \E p \in Paths \ {Root} : Create(p) \/ Remove(p)
    \/ \E l \in Leaves : EditLeaf(l)

Spec == Init /\ [][Next]_vars

-----------------------------------------------------------------------------
(* What the guard promises.                                                 *)

(* While a session holds its lock every entry it selected denies mutation:  *)
(* a lock that could not deny everything has not been granted, and nothing  *)
(* takes a denial away before the session's own restore.  Directories in    *)
(* ordinary directories, which anyone may rename, and what is in them are   *)
(* not part of the claim.                                                   *)
HeldLockDenies ==
    \A s \in Sessions : phase[s] \in {"locked", "running"} =>
        \A p \in plan[s] \cap Anchored : Denies(p)

(* No control file that was locked is edited, removed or replaced while the *)
(* runtime runs, not even through the ordinary directory that contains it,  *)
(* provided that one lies in a directory the guard denies as well (PH3-006).*)
LeavesSurviveRun ==
    [][ \A s \in Sessions : phase[s] = "running" =>
          \A l \in plan[s] \cap Present \cap Anchored : file'[l] = file[l] ]_vars

(* The same without the proviso, as PH3-006 has it: the parent of a leaf is *)
(* locked so that the leaf cannot be replaced.  The parent can, if it lies  *)
(* in an ordinary directory.                                                *)
LockedLeavesStay ==
    [][ \A s \in Sessions : phase[s] = "running" =>
          \A l \in plan[s] \cap Present : file'[l] = file[l] ]_vars

(* Launches leave no trace: as long as nothing else happened, every         *)
(* descriptor is what the project's own history made it when no command is  *)
(* under way, whether locking succeeded, failed half-way or raced the       *)
(* project's own creations and removals (PH3-009).  Descriptors are put     *)
(* back by path: what was replaced after its captured predecessor gets the  *)
(* deny entries that one had of its own.                                    *)
QuietMeansOriginal ==
    (events = {} /\ \A s \in Sessions : phase[s] = "idle") =>
        \A p \in Paths : acl[p] = prior[p] \/ (p \in swapped /\ acl[p] = {"own"})

(* What the project had denied by itself stays denied, and nothing else     *)
(* looks as if it had, but what replaces something captured: until an       *)
(* unlock runs, no failure, crash or overlap of commands loses an entry of  *)
(* the project's own or invents one, because a guard puts back the exact    *)
(* descriptor (PH3-009).                                                    *)
OwnEntriesKept ==
    "unlock" \notin events =>
        \A p \in Paths :
            /\ "own" \in prior[p] => "own" \in acl[p]
            /\ "own" \in acl[p] => "own" \in prior[p] \/ p \in swapped

(* An unlock that reports success has freed the project from every denial   *)
(* a lock left behind; only what replaced something a launch had captured   *)
(* denied may have got its denials, unseen by an unlock if it is a          *)
(* directory without a control file.                                        *)
UnlockFrees ==
    \A s \in Sessions :
        (phase[s] = "unlocking" /\ plan[s] = {} /\ events \subseteq {"lock", "unlock"}) =>
            \A p \in Paths \ swapped : ~Denies(p)

(* The tree as its users see it: what running sessions hold and what lock   *)
(* commands have left is sealed, as if at one stroke.  A launch that comes  *)
(* after a lock, or fails, or is killed, gives nothing of that away: only   *)
(* an unlock ends what a lock command has begun.                            *)
Sealed ==
    Anchored \cap (kept \cup { p \in Paths :
        \E s \in Sessions : phase[s] \in {"locked", "running"} /\ p \in plan[s] })

Tree == INSTANCE SealedTree WITH
            Entries <- Anchored, Files <- Anchored \cap Leaves,
            Path <- [p \in Anchored |-> Way(p)], Contents <- FileStates,
            Dir <- [l \in Anchored \cap Leaves |-> Parent[l]],
            content <- [l \in Anchored \cap Leaves |-> file[l]], sealed <- Sealed

ImplementsSealedTree == Tree!TreeSpec

(* A stale guard can always be unlocked: when no command is under way, what *)
(* the baseline check of unlock would refuse can be put right, because a    *)
(* missing file and the missing directories above it may be created and a   *)
(* changed file written.                                                    *)
RecoveryPossible ==
    (\A s \in Sessions : phase[s] = "idle") =>
        \A l \in Baseline :
            /\ \A p \in Way(l) : ~Exists(p) => MayCreate(p)
            /\ file[l] = "changed" => ~Denies(l)
=============================================================================
