----------------------- MODULE ControlPlaneGuardProofs -----------------------
(***************************************************************************)
(* Type correctness of the guard, and that the project's own deny entries  *)
(* stay, for any commands and failures.  For commands that run one at a    *)
(* time: a granted lock holds, what it has locked survives the runtime,    *)
(* launches leave no trace, an unlock frees everything, what recovery      *)
(* needs, and that the guard implements the sealed tree.                   *)
(***************************************************************************)
EXTENDS ControlPlaneGuard, TLAPS

OneSession == \A s, t \in Sessions : s = t

-----------------------------------------------------------------------------
(* Types.  A command that has selected nothing remembers nothing.           *)

Blank == { "idle", "admitted" }

TypeInv ==
    /\ TypeOK
    /\ \A s \in Sessions :
         /\ phase[s] \in Blank \cup {"unlocking"} => snaps[s] = {} /\ denied[s] = {}
         /\ phase[s] = "capturing" => denied[s] = {}

LEMMA TypeInit == Init => TypeInv
  <1> SUFFICES ASSUME Init PROVE TypeInv
    OBVIOUS
  <1>1. acl \in [Paths -> Acls] /\ prior \in [Paths -> Acls]
    BY DEF Init, Acls
  <1>2. command \in [Sessions -> FullCommands] /\ phase \in [Sessions -> Phases]
    BY GuardAssumption DEF Init, Phases
  <1>3. QED
    BY <1>1, <1>2 DEF Init, TypeInv, TypeOK, Captured, Blank

LEMMA GuardedIsPlan == ASSUME NEW files, files \subseteq Leaves
                       PROVE  Guarded(files) \subseteq Paths
  <1>1. \A l \in Leaves : Parent[l] \in Paths
    BY GuardAssumption
  <1>2. QED
    BY <1>1, GuardAssumption DEF Guarded, Classed

\* Forget leaves a session without plan, snapshots and denials.
LEMMA ForgetTypes ==
    ASSUME TypeInv, NEW s \in Sessions, Forget(s),
           phase' = [phase EXCEPT ![s] = "idle"], events' \subseteq Events, kept' \subseteq Paths,
           swapped' \subseteq Paths
    PROVE  TypeInv'
  <1> USE DEF TypeInv, TypeOK, Forget, Blank
  <1>1. /\ plan' \in [Sessions -> SUBSET Paths]
        /\ denied' \in [Sessions -> SUBSET Paths]
        /\ snaps' \in [Sessions -> SUBSET Snapshots]
        /\ phase' \in [Sessions -> Phases]
    BY DEF Phases
  <1>2. \A t \in Sessions \ {s} :
          /\ plan'[t] = plan[t] /\ denied'[t] = denied[t] /\ snaps'[t] = snaps[t]
          /\ phase'[t] = phase[t]
    OBVIOUS
  <1>3. plan'[s] = {} /\ denied'[s] = {} /\ snaps'[s] = {} /\ phase'[s] = "idle"
    OBVIOUS
  <1>4. QED
    BY <1>1, <1>2, <1>3 DEF Captured

LEMMA TypeStep == TypeInv /\ [Next]_vars => TypeInv'
  <1> SUFFICES ASSUME TypeInv, [Next]_vars PROVE TypeInv'
    OBVIOUS
  <1> USE DEF TypeInv, TypeOK, Blank, Captured, history
  <1>1. ASSUME NEW s \in Sessions, Begin(s) PROVE TypeInv'
    BY <1>1, GuardAssumption DEF Begin, Goes, Phases
  <1>2. ASSUME NEW s \in Sessions, Select(s) PROVE TypeInv'
    <2>1. Guarded(Present) \subseteq Paths
      BY GuardedIsPlan DEF Present
    <2>2. QED
      BY <1>2, <2>1 DEF Select, Goes, Phases
  <1>3. ASSUME NEW s \in Sessions, Capture(s) PROVE TypeInv'
    <2>1. PICK p \in First(plan[s] \ Captured(s)) :
            /\ \/ /\ phase' = [phase EXCEPT ![s] = "capturing"]
                  /\ snaps' = [snaps EXCEPT ![s] = @ \cup {[path |-> p, acl |-> acl[p]]}]
               \/ /\ phase' = [phase EXCEPT ![s] = "undoing"]
                  /\ UNCHANGED snaps
            /\ phase[s] = "capturing"
            /\ UNCHANGED << acl, history, file, command, plan, denied >>
      BY <1>3 DEF Capture, Goes
    <2>2. p \in Paths /\ p \in plan[s] /\ p \notin Captured(s)
      BY <2>1 DEF First
    <2>3. [path |-> p, acl |-> acl[p]] \in Snapshots
      BY <2>2 DEF Snapshots
    <2>4. phase' \in [Sessions -> Phases] /\ snaps' \in [Sessions -> SUBSET Snapshots]
      BY <2>1, <2>3 DEF Phases
    <2>5. QED
      BY <2>1, <2>2, <2>3, <2>4
  <1>4. ASSUME NEW s \in Sessions, CaptureDone(s) PROVE TypeInv'
    BY <1>4 DEF CaptureDone, Goes, Phases
  <1>5. ASSUME NEW s \in Sessions, Deny(s) PROVE TypeInv'
    BY <1>5 DEF Deny, Goes, Phases, First, Acls
  <1>6. ASSUME NEW s \in Sessions, DenyDone(s) PROVE TypeInv'
    BY <1>6 DEF DenyDone, Goes, Phases
  <1>7. ASSUME NEW s \in Sessions, SetLast(s),
               phase[s] = "undoing" \/ phase[s] = "restoring"
        PROVE  TypeInv'
    <2>1. PICK snap \in snaps[s] :
            /\ \/ acl' = [acl EXCEPT ![snap.path] = snap.acl]
               \/ UNCHANGED acl
            /\ UNCHANGED events \/ Happens("loss")
            /\ snaps' = [snaps EXCEPT ![s] = @ \ {snap}]
            /\ UNCHANGED << prior, kept, swapped, file, phase, command, plan, denied >>
      BY <1>7 DEF SetLast
    <2>2. snap.path \in Paths /\ snap.acl \in Acls
      BY DEF Snapshots
    <2>3. acl' \in [Paths -> Acls] /\ events' \subseteq Events
      BY <2>1, <2>2 DEF Happens, Events
    <2>4. QED
      BY <1>7, <2>1, <2>3
  <1>8. ASSUME NEW s \in Sessions, Undo(s) PROVE TypeInv'
    BY <1>7, <1>8, ForgetTypes DEF Undo, Goes
  <1>9. ASSUME NEW s \in Sessions, Verify(s) PROVE TypeInv'
    <2>1. CASE command[s] = "launch"
      BY <1>9, <2>1 DEF Verify, Goes, Phases
    <2>2. CASE command[s] = "lock"
      BY <1>9, <2>2, ForgetTypes DEF Verify, Goes, Happens, Events
    <2>3. QED
      BY <1>9, <2>1, <2>2 DEF Verify
  <1>10. ASSUME NEW s \in Sessions, RuntimeEnds(s) PROVE TypeInv'
    BY <1>10 DEF RuntimeEnds, Goes, Phases
  <1>11. ASSUME NEW s \in Sessions, Restore(s) PROVE TypeInv'
    BY <1>7, <1>11, ForgetTypes DEF Restore, Goes
  <1>12. ASSUME NEW s \in Sessions, SelectUnlock(s) PROVE TypeInv'
    <2>1. UnlockPlan \subseteq Paths
      BY GuardedIsPlan DEF Present, UnlockPlan
    <2>2. QED
      BY <1>12, <2>1 DEF SelectUnlock, Goes, Phases
  <1>13. ASSUME NEW s \in Sessions, UnlockEntry(s) PROVE TypeInv'
    <2>1. CASE Goes(s, "unlocking", "idle") /\ Forget(s) /\ UNCHANGED << events, kept, swapped >>
      BY <2>1, ForgetTypes DEF Goes
    <2>2. ASSUME NEW p \in First(plan[s]),
                 phase[s] = "unlocking",
                 acl' = [acl EXCEPT ![p] = {}],
                 plan' = [plan EXCEPT ![s] = @ \ {p}],
                 Happens("unlock"), kept' = kept \ {p},
                 UNCHANGED << prior, swapped, file, phase, command, snaps, denied >>
          PROVE  TypeInv'
      BY <2>2 DEF First, Acls, Happens, Events
    <2>3. QED
      BY <1>13, <2>1, <2>2 DEF UnlockEntry
  <1>14. ASSUME NEW s \in Sessions, UnlockDone(s) PROVE TypeInv'
    BY <1>14, ForgetTypes DEF UnlockDone, Goes
  <1>15. ASSUME NEW s \in Sessions, Crash(s) PROVE TypeInv'
    BY <1>15, ForgetTypes DEF Crash, Happens, Events
  <1>16. ASSUME NEW p \in Paths, Create(p) \/ EditLeaf(p) PROVE TypeInv'
    BY <1>16 DEF Create, EditLeaf, FileStates, sessionVars
  <1>17. ASSUME NEW p \in Paths, Remove(p) PROVE TypeInv'
    <2>1. file' \in [Paths -> FileStates]
      BY <1>17 DEF Remove, FileStates
    <2>2. acl' \in [Paths -> Acls] /\ prior' \in [Paths -> Acls]
      BY <1>17 DEF Remove, Acls
    <2>3. kept' \subseteq Paths /\ swapped' \subseteq Paths
      BY <1>17, GuardAssumption DEF Remove
    <2>4. QED
      BY <1>17, <2>1, <2>2, <2>3 DEF Remove, sessionVars
  <1>18. CASE UNCHANGED vars
    BY <1>18 DEF vars, sessionVars
  <1>19. QED
    BY <1>1, <1>2, <1>3, <1>4, <1>5, <1>6, <1>8, <1>9, <1>10, <1>11, <1>12,
       <1>13, <1>14, <1>15, <1>16, <1>17, <1>18, GuardAssumption DEF Next

LEMMA TypeInvariant == Spec => []TypeInv
  BY TypeInit, TypeStep, PTL DEF Spec

(* The variables keep their types and no entry is captured twice, whatever  *)
(* commands overlap and fail.                                               *)
THEOREM TypeCorrect == Spec => []TypeOK
  <1>1. TypeInv => TypeOK
    BY DEF TypeInv
  <1>2. QED
    BY <1>1, TypeInvariant, PTL

-----------------------------------------------------------------------------
(* Where things are.  What exists lies in directories that exist; what does *)
(* not exist, or replaced something, has no deny entry of the project's.    *)

PlaceInv ==
    /\ TreeShaped
    /\ \A p \in Paths :
         /\ prior[p] \subseteq {"own"}
         /\ ~Exists(p) => acl[p] = {}
         /\ ~Exists(p) \/ p \in swapped => prior[p] = {}

LEMMA PlaceInit == Init => PlaceInv
  BY DEF Init, PlaceInv

\* A step that leaves files and history alone and denies only what exists.
LEMMA PlaceGoes ==
    ASSUME TypeInv, PlaceInv, UNCHANGED << prior, swapped, file >>,
           \A p \in Paths : acl'[p] = acl[p] \/ Exists(p) \/ acl'[p] = {}
    PROVE  PlaceInv'
  BY DEF PlaceInv, TreeShaped, Exists

LEMMA PlaceSetLast ==
    ASSUME TypeInv, PlaceInv, NEW s \in Sessions, SetLast(s) PROVE PlaceInv'
  <1>1. PICK snap \in snaps[s] :
          /\ \/ Exists(snap.path) /\ acl' = [acl EXCEPT ![snap.path] = snap.acl]
             \/ UNCHANGED acl
          /\ UNCHANGED << prior, swapped, file >>
    BY DEF SetLast
  <1>2. \A p \in Paths : acl'[p] = acl[p] \/ Exists(p)
    BY <1>1 DEF TypeInv, TypeOK
  <1>3. QED
    BY <1>1, <1>2, PlaceGoes

LEMMA PlaceStep == TypeInv /\ PlaceInv /\ [Next]_vars => PlaceInv'
  <1> SUFFICES ASSUME TypeInv, PlaceInv, [Next]_vars PROVE PlaceInv'
    OBVIOUS
  <1>1. ASSUME NEW s \in Sessions,
               \/ Begin(s) \/ Select(s) \/ Capture(s) \/ CaptureDone(s) \/ DenyDone(s)
               \/ Verify(s) \/ RuntimeEnds(s) \/ SelectUnlock(s) \/ UnlockDone(s) \/ Crash(s)
        PROVE  PlaceInv'
    <2>1. UNCHANGED << acl, prior, swapped, file >>
      BY <1>1 DEF Begin, Select, Capture, CaptureDone, DenyDone, Verify, RuntimeEnds,
         SelectUnlock, UnlockDone, Crash, Forget, history
    <2>2. QED
      BY <2>1, PlaceGoes
  <1>2. ASSUME NEW s \in Sessions, Deny(s) PROVE PlaceInv'
    <2>1. PICK p \in Paths :
            /\ \/ Exists(p) /\ acl' = [acl EXCEPT ![p] = @ \cup {"guard"}]
               \/ UNCHANGED acl
            /\ UNCHANGED << prior, swapped, file >>
      BY <1>2 DEF Deny, First, history, TypeInv, TypeOK
    <2>2. \A q \in Paths : acl'[q] = acl[q] \/ Exists(q)
      BY <2>1 DEF TypeInv, TypeOK
    <2>3. QED
      BY <2>1, <2>2, PlaceGoes
  <1>3. ASSUME NEW s \in Sessions, Undo(s) \/ Restore(s) PROVE PlaceInv'
    <2>1. CASE SetLast(s)
      BY <2>1, PlaceSetLast
    <2>2. CASE Forget(s) /\ UNCHANGED << events, kept, swapped >>
      BY <2>2, PlaceGoes DEF Forget
    <2>3. QED
      BY <1>3, <2>1, <2>2 DEF Undo, Restore
  <1>4. ASSUME NEW s \in Sessions, UnlockEntry(s) PROVE PlaceInv'
    <2>1. PICK p \in Paths :
            /\ acl' = [acl EXCEPT ![p] = {}] \/ UNCHANGED acl
            /\ UNCHANGED << prior, swapped, file >>
      BY <1>4 DEF UnlockEntry, First, Forget, TypeInv, TypeOK
    <2>2. \A q \in Paths : acl'[q] = acl[q] \/ acl'[q] = {}
      BY <2>1 DEF TypeInv, TypeOK
    <2>3. QED
      BY <2>1, <2>2, PlaceGoes
  <1>5. ASSUME NEW p \in Paths, Create(p) \/ EditLeaf(p) PROVE PlaceInv'
    <2>1. /\ Exists(p)' /\ \A q \in Paths : q # p => (Exists(q)' <=> Exists(q))
          /\ \A d \in Way(p) \ {p} : Exists(d)
          /\ UNCHANGED << acl, prior, swapped >>
      <3>1. CASE Create(p)
        BY <3>1 DEF Create, Exists, history, TypeInv, TypeOK
      <3>2. CASE EditLeaf(p)
        BY <3>2 DEF EditLeaf, Exists, history, TypeInv, TypeOK, PlaceInv, TreeShaped, Way
      <3>3. QED
        BY <1>5, <3>1, <3>2
    <2>2. TreeShaped'
      BY <2>1, GuardAssumption DEF PlaceInv, TreeShaped, Way
    <2>3. QED
      BY <2>1, <2>2 DEF PlaceInv
  <1>6. ASSUME NEW p \in Paths \ {Root}, Remove(p) PROVE PlaceInv'
    <2>1. \A q \in Paths : Exists(q)' <=> Exists(q) /\ q \notin Inside[p]
      BY <1>6 DEF Remove, Exists
    <2>2. Root \notin Inside[p]
      <3>1. p \in Inside[Root] \ {Root}
        BY GuardAssumption
      <3>2. QED
        BY <3>1, GuardAssumption
    <2>3. \A d \in Paths : \A q \in Inside[d] : d \in Inside[p] => q \in Inside[p]
      BY GuardAssumption
    <2>4. TreeShaped'
      BY <2>1, <2>2, <2>3, GuardAssumption DEF PlaceInv, TreeShaped
    <2>5. ASSUME NEW q \in Paths
          PROVE  /\ prior'[q] \subseteq {"own"}
                 /\ ~Exists(q)' => acl'[q] = {}
                 /\ ~Exists(q)' \/ q \in swapped' => prior'[q] = {}
      BY <1>6, <2>1 DEF Remove, PlaceInv
    <2>6. QED
      BY <2>4, <2>5 DEF PlaceInv
  <1>7. CASE UNCHANGED vars
    BY <1>7, PlaceGoes DEF vars, history
  <1>8. QED
    BY <1>1, <1>2, <1>3, <1>4, <1>5, <1>6, <1>7, GuardAssumption DEF Next

LEMMA PlaceInvariant == Spec => []PlaceInv
  BY PlaceInit, PlaceStep, TypeInvariant, PTL DEF Spec

-----------------------------------------------------------------------------
(* A lock that is granted holds.  Denials are made in an order that puts    *)
(* directories before what is in them, so nothing anchored that has been    *)
(* denied can be removed: everything above it has been denied too.  And     *)
(* wherever a file lies, it is denied if its directory still is.            *)

Applied == { "denying", "locked", "running" }

\* With a file its directory is selected, and everything above what is anchored.
Closed(entries) ==
    /\ \A l \in entries \cap Leaves : Parent[l] \in entries
    /\ \A p \in entries \cap Anchored : Way(p) \subseteq entries

LockInv ==
    \A s \in Sessions :
        /\ phase[s] \in Applied \cup {"capturing"} => Closed(plan[s])
        /\ phase[s] \in Applied =>
              /\ \A p \in denied[s] \cap Anchored : Denies(p)
              /\ \A p \in denied[s], q \in plan[s] : Rank[q] < Rank[p] => q \in denied[s]
              /\ \A l \in denied[s] \cap Leaves :
                    Denies(Parent[l]) => Exists(l) /\ Denies(l)
        /\ phase[s] \in {"locked", "running"} => denied[s] = plan[s]

LEMMA LockInit == Init => LockInv
  BY DEF Init, LockInv, Applied

\* What is above something anchored is anchored.
LEMMA AnchoredUp ==
    ASSUME NEW p \in Anchored, NEW d \in Way(p) PROVE d \in Anchored /\ Way(d) \subseteq Way(p)
  <1>1. p \in Inside[d] /\ d \in Paths /\ p \in Paths
    BY DEF Way, Anchored
  <1>2. Way(d) \subseteq Way(p)
    BY <1>1, GuardAssumption DEF Way
  <1>3. ASSUME NEW e \in Way(d) \ (ControlDirs \cup {d, Root})
        PROVE  d \in Leaves /\ e = Parent[d]
    <2>1. e \in Paths /\ d \in Inside[e] /\ e \in Way(p)
      BY <1>2 DEF Way
    <2>2. e # p
      BY <1>1, <2>1, GuardAssumption
    <2>3. p \in Leaves /\ e = Parent[p]
      BY <2>1, <2>2 DEF Anchored, IsAnchored
    <2>4. CASE d = p
      BY <2>3, <2>4
    <2>5. CASE d # p
      <3>1. e \in Inside[d]
        BY <1>1, <2>3, <2>5, GuardAssumption DEF Way
      <3>2. QED
        BY <1>1, <2>1, <3>1, GuardAssumption
    <2>6. QED
      BY <2>4, <2>5
  <1>4. QED
    BY <1>1, <1>2, <1>3 DEF Anchored, IsAnchored

\* Everything above something anchored that has been denied is denied.
LEMMA WayDenied ==
    ASSUME TypeInv, LockInv,
           NEW s \in Sessions, phase[s] \in Applied, NEW p \in denied[s] \cap Anchored,
           NEW d \in Way(p)
    PROVE  Denies(d)
  <1>1. p \in plan[s]
    BY DEF TypeInv, TypeOK
  <1>2. d \in plan[s]
    BY <1>1 DEF LockInv, Closed
  <1>3. d = p \/ Rank[d] < Rank[p]
    BY GuardAssumption
  <1>4. d \in denied[s]
    BY <1>2, <1>3 DEF LockInv
  <1>5. QED
    BY <1>4, AnchoredUp DEF LockInv

\* It cannot go, with nothing above it.
LEMMA DeniedStays ==
    ASSUME TypeInv, LockInv,
           NEW s \in Sessions, phase[s] \in Applied, NEW q \in denied[s] \cap Anchored,
           NEW p \in Paths \ {Root}, Remove(p)
    PROVE  q \notin Inside[p]
  <1> SUFFICES ASSUME q \in Inside[p] PROVE FALSE
    OBVIOUS
  <1>1. p \in Way(q) /\ p \notin Movable
    BY DEF Way, Anchored, IsAnchored
  <1>2. Parent[p] \in Paths /\ p \in Inside[Parent[p]]
    BY <1>1, GuardAssumption
  <1>3. Parent[p] \in Way(q)
    BY <1>2, GuardAssumption DEF Way
  <1>4. Denies(p) /\ Denies(Parent[p])
    BY <1>1, <1>3, WayDenied
  <1>5. QED
    BY <1>1, <1>4 DEF Remove, MayRemove

\* A file that is not removed by itself goes with its directory.
LEMMA GoesAlong ==
    ASSUME NEW p \in Paths, NEW l \in Leaves, l \in Inside[p], l # p
    PROVE  Parent[l] \in Inside[p]
  <1>1. l \in DOMAIN Parent /\ p \in Way(l) \ {l}
    BY GuardAssumption DEF Way
  <1>2. QED
    BY <1>1, GuardAssumption

\* A denied file stays as long as its directory is denied.
LEMMA FileStays ==
    ASSUME NEW p \in Paths, Remove(p), NEW l \in Leaves, Denies(l), Denies(Parent[l]),
           Parent[l] \notin Inside[p]
    PROVE  l \notin Inside[p]
  <1>1. l \notin Movable
    BY GuardAssumption
  <1>2. p # l
    BY <1>1 DEF Remove, MayRemove
  <1>3. QED
    BY <1>2, GoesAlong

\* What remains after a removal is as it was.
LEMMA RemoveKeeps ==
    ASSUME TypeInv, NEW p \in Paths, Remove(p), NEW q \in Paths
    PROVE  /\ q \in Inside[p] => ~Denies(q)' /\ ~Exists(q)'
           /\ q \notin Inside[p] => (Denies(q)' <=> Denies(q)) /\ (Exists(q)' <=> Exists(q))
  BY DEF Remove, Denies, Exists

\* What a walk of the tree selects.
LEMMA GuardedIsClosed == ASSUME PlaceInv PROVE Closed(Guarded(Present))
  <1>1. \A l \in Leaves : l \in Guarded(Present) => Parent[l] \in Guarded(Present)
    BY GuardAssumption DEF Guarded, Present, Classed
  <1>2. ASSUME NEW p \in Guarded(Present), p \in Anchored, NEW d \in Way(p)
        PROVE  d \in Guarded(Present)
    <2>1. CASE d = p \/ d = Root
      BY <2>1 DEF Guarded
    <2>2. CASE d \in ControlDirs /\ d # p
      <3>1. Exists(p)
        <4>1. CASE p \in Present \cup Classed \cup {Root}
          BY <4>1 DEF Present, Classed, PlaceInv, TreeShaped
        <4>2. ASSUME NEW l \in Present, p = Parent[l] PROVE Exists(p)
          <5>1. p \in Paths /\ l \in Inside[p]
            BY <4>2, GuardAssumption DEF Present
          <5>2. QED
            BY <4>2, <5>1 DEF Present, PlaceInv, TreeShaped
        <4>3. QED
          BY <4>1, <4>2 DEF Guarded
      <3>2. Exists(d)
        BY <3>1 DEF Way, PlaceInv, TreeShaped
      <3>3. QED
        BY <2>2, <3>2 DEF Guarded, Classed
    <2>3. CASE d \notin ControlDirs \cup {p, Root}
      <3>1. p \in Leaves /\ d = Parent[p]
        BY <1>2, <2>3 DEF Anchored, IsAnchored
      <3>2. QED
        BY <1>1, <3>1
    <2>4. QED
      BY <2>1, <2>2, <2>3
  <1>3. QED
    BY <1>1, <1>2 DEF Closed

\* A session that has gone idle owes nothing.
LEMMA LockReleased ==
    ASSUME OneSession, TypeInv, NEW s \in Sessions, phase'[s] \notin Applied \cup {"capturing"}
    PROVE  LockInv'
  BY DEF OneSession, LockInv, Applied

LEMMA LockStep == OneSession /\ TypeInv /\ PlaceInv /\ LockInv /\ [Next]_vars => LockInv'
  <1> SUFFICES ASSUME OneSession, TypeInv, PlaceInv, LockInv, [Next]_vars PROVE LockInv'
    OBVIOUS
  <1>0. phase \in [Sessions -> Phases]
    BY DEF TypeInv, TypeOK
  <1>1. ASSUME NEW s \in Sessions,
               Begin(s) \/ Undo(s) \/ RuntimeEnds(s) \/ Restore(s) \/
                  SelectUnlock(s) \/ UnlockEntry(s) \/ UnlockDone(s) \/ Crash(s)
        PROVE  LockInv'
    <2>1. phase'[s] \notin Applied \cup {"capturing"}
      BY <1>0, <1>1 DEF Applied, Begin, Undo, SetLast, RuntimeEnds, Restore,
         SelectUnlock, UnlockEntry, UnlockDone, Crash, Goes, First
    <2>2. QED
      BY <2>1, LockReleased
  <1>2. ASSUME NEW s \in Sessions, Select(s) PROVE LockInv'
    <2>1. CASE Goes(s, "admitted", "idle")
      BY <1>0, <2>1, LockReleased DEF Goes, Applied
    <2>2. CASE Goes(s, "admitted", "capturing")
               /\ plan' = [plan EXCEPT ![s] = Guarded(Present)]
      <3>1. plan'[s] = Guarded(Present) /\ phase'[s] = "capturing"
        BY <1>0, <2>2 DEF Goes, TypeInv, TypeOK
      <3>2. Closed(plan'[s])
        BY <3>1, GuardedIsClosed
      <3>3. QED
        BY <3>1, <3>2 DEF LockInv, OneSession, Applied
    <2>3. QED
      BY <1>2, <2>1, <2>2 DEF Select
  <1>3. ASSUME NEW s \in Sessions, Capture(s) PROVE LockInv'
    BY <1>0, <1>3 DEF Capture, Goes, LockInv, OneSession, Applied, First
  <1>4. ASSUME NEW s \in Sessions, CaptureDone(s) PROVE LockInv'
    <2>1. phase'[s] = "denying" /\ denied'[s] = {}
      BY <1>0, <1>4 DEF CaptureDone, Goes, TypeInv
    <2>2. QED
      BY <1>4, <2>1 DEF CaptureDone, Goes, LockInv, OneSession, Applied
  <1>5. ASSUME NEW s \in Sessions, Deny(s) PROVE LockInv'
    <2>1. PICK p \in First(plan[s] \ denied[s]) :
            /\ \/ /\ Exists(p)
                  /\ Goes(s, "denying", "denying")
                  /\ acl' = [acl EXCEPT ![p] = @ \cup {"guard"}]
                  /\ denied' = [denied EXCEPT ![s] = @ \cup {p}]
               \/ /\ Goes(s, "denying", "undoing")
                  /\ UNCHANGED << acl, denied >>
            /\ UNCHANGED << plan, file >>
      BY <1>5 DEF Deny
    <2>2. CASE Goes(s, "denying", "undoing")
      BY <1>0, <2>2, LockReleased DEF Goes, Applied
    <2>3. CASE /\ Exists(p)
               /\ Goes(s, "denying", "denying")
               /\ acl' = [acl EXCEPT ![p] = @ \cup {"guard"}]
               /\ denied' = [denied EXCEPT ![s] = @ \cup {p}]
      <3>1. /\ p \in plan[s] /\ p \in Paths
            /\ \A q \in plan[s] \ denied[s] : Rank[p] <= Rank[q]
        BY DEF First, TypeInv, TypeOK
      <3>2. /\ phase[s] = "denying" /\ phase'[s] = "denying"
            /\ denied'[s] = denied[s] \cup {p}
        BY <1>0, <2>3 DEF Goes, TypeInv, TypeOK
      <3>3. /\ \A q \in Paths : Denies(q)' <=> Denies(q) \/ q = p
            /\ \A q \in Paths : Exists(q)' <=> Exists(q)
        BY <2>1, <2>3, <3>1 DEF Denies, Exists, TypeInv, TypeOK
      <3>4. denied[s] \subseteq plan[s] /\ denied[s] \subseteq Paths
        BY DEF TypeInv, TypeOK
      <3>5. \A q \in denied'[s] \cap Anchored : Denies(q)'
        BY <3>1, <3>2, <3>3, <3>4 DEF LockInv, Applied
      <3>6. \A q \in plan[s] : Rank[q] < Rank[p] => q \in denied[s]
        BY <3>1, GuardAssumption DEF TypeInv, TypeOK
      <3>7. \A o \in denied'[s], q \in plan'[s] : Rank[q] < Rank[o] => q \in denied'[s]
        BY <2>1, <3>2, <3>6 DEF LockInv, Applied
      <3>8. Closed(plan'[s])
        BY <2>1, <3>2 DEF LockInv, Applied
      <3>9. ASSUME NEW l \in denied'[s] \cap Leaves, Denies(Parent[l])'
            PROVE  Exists(l)' /\ Denies(l)'
        <4>1. CASE l = p
          BY <2>3, <3>1, <3>3, <4>1
        <4>2. CASE l \in denied[s]
          <5>1. /\ Parent[l] \in plan[s] /\ Parent[l] \in Paths /\ l \in Paths
                /\ Rank[Parent[l]] < Rank[l]
            BY <2>1, <3>2, <3>4, <3>8, <4>2, GuardAssumption DEF Closed
          <5>2. Parent[l] \in denied[s]
            BY <3>2, <4>2, <5>1 DEF LockInv, Applied
          <5>3. Parent[l] # p
            BY <5>2 DEF First
          <5>4. QED
            BY <3>2, <3>3, <3>9, <4>2, <5>1, <5>3 DEF LockInv, Applied
        <4>3. QED
          BY <3>2, <4>1, <4>2
      <3>10. QED
        BY <3>2, <3>5, <3>7, <3>8, <3>9 DEF LockInv, OneSession
    <2>4. QED
      BY <2>1, <2>2, <2>3
  <1>6. ASSUME NEW s \in Sessions, DenyDone(s) PROVE LockInv'
    BY <1>0, <1>6 DEF DenyDone, Goes, LockInv, OneSession, Applied, Denies, Exists
  <1>7. ASSUME NEW s \in Sessions, Verify(s) PROVE LockInv'
    <2>1. CASE Goes(s, "locked", "running") /\ UNCHANGED << acl, file, plan, denied >>
      BY <1>0, <2>1 DEF Goes, LockInv, OneSession, Applied, Denies, Exists
    <2>2. CASE Goes(s, "locked", "restoring") \/ Goes(s, "locked", "idle")
      BY <1>0, <2>2, LockReleased DEF Goes, Applied
    <2>3. QED
      BY <1>7, <2>1, <2>2 DEF Verify
  <1>8. ASSUME NEW p \in Paths, Create(p) \/ EditLeaf(p) PROVE LockInv'
    <2>1. \A q \in Paths : Exists(q) => Exists(q)'
      BY <1>8 DEF Create, EditLeaf, Exists, TypeInv, TypeOK
    <2>2. UNCHANGED << acl, phase, plan, denied >>
      BY <1>8 DEF Create, EditLeaf, sessionVars
    <2>3. Leaves \subseteq Paths
      BY GuardAssumption
    <2>4. QED
      BY <2>1, <2>2, <2>3 DEF LockInv, Denies
  <1>9. ASSUME NEW p \in Paths \ {Root}, Remove(p) PROVE LockInv'
    <2>1. UNCHANGED << phase, plan, denied >>
      BY <1>9 DEF Remove, sessionVars
    <2>2. ASSUME NEW s \in Sessions, phase[s] \in Applied, NEW q \in denied[s] \cap Anchored
          PROVE  Denies(q)'
      <3>1. q \in Paths /\ q \notin Inside[p] /\ Denies(q)
        BY <1>9, <2>2, DeniedStays DEF LockInv, Anchored
      <3>2. QED
        BY <1>9, <3>1, RemoveKeeps
    <2>3. ASSUME NEW s \in Sessions, phase[s] \in Applied, NEW l \in denied[s] \cap Leaves,
                 Denies(Parent[l])'
          PROVE  Exists(l)' /\ Denies(l)'
      <3>1. l \in Paths /\ Parent[l] \in Paths
        BY GuardAssumption
      <3>2. Parent[l] \notin Inside[p] /\ Denies(Parent[l])
        BY <1>9, <2>3, <3>1, RemoveKeeps
      <3>3. Exists(l) /\ Denies(l)
        BY <2>3, <3>2 DEF LockInv
      <3>4. l \notin Inside[p]
        BY <1>9, <3>2, <3>3, FileStays
      <3>5. QED
        BY <1>9, <3>1, <3>3, <3>4, RemoveKeeps
    <2>4. QED
      BY <2>1, <2>2, <2>3 DEF LockInv
  <1>10. CASE UNCHANGED vars
    BY <1>10 DEF vars, sessionVars, LockInv, Denies, Exists
  <1>11. QED
    BY <1>1, <1>2, <1>3, <1>4, <1>5, <1>6, <1>7, <1>8, <1>9, <1>10, GuardAssumption DEF Next

LEMMA LockInvariant == ASSUME OneSession PROVE Spec => []LockInv
  <1>1. TypeInv /\ PlaceInv /\ LockInv /\ [Next]_vars => LockInv'
    BY LockStep
  <1>2. QED
    BY <1>1, LockInit, TypeInvariant, PlaceInvariant, PTL DEF Spec

(* HeldLockDenies for commands that run one at a time, whatever the project *)
(* looks like and whatever its processes create, edit, remove and rename.   *)
THEOREM LockHolds == ASSUME OneSession PROVE Spec => []HeldLockDenies
  <1>1. LockInv => HeldLockDenies
    BY DEF LockInv, HeldLockDenies, Applied
  <1>2. QED
    BY <1>1, LockInvariant, PTL

(* LeavesSurviveRun for commands that run one at a time: what a launch has  *)
(* locked can neither be edited nor deleted nor replaced (PH3-006), unless  *)
(* an ordinary directory above it is not denied.                            *)
THEOREM LeavesKept == ASSUME OneSession PROVE Spec => LeavesSurviveRun
  <1>1. TypeInv /\ LockInv /\ [Next]_vars =>
          [ \A s \in Sessions : phase[s] = "running" =>
              \A l \in plan[s] \cap Present \cap Anchored : file'[l] = file[l] ]_vars
    <2> SUFFICES ASSUME TypeInv, LockInv, Next,
                        NEW s \in Sessions, phase[s] = "running",
                        NEW l \in plan[s] \cap Present \cap Anchored
                 PROVE  file'[l] = file[l]
      BY DEF vars
    <2>1. l \in denied[s] \cap Anchored /\ l \in Paths /\ Exists(l)
      BY DEF LockInv, Present, Anchored
    <2>2. Denies(l)
      BY <2>1 DEF LockInv, Applied
    <2>3. ASSUME NEW t \in Sessions,
                 Begin(t) \/ Select(t) \/ Capture(t) \/ CaptureDone(t) \/ Deny(t) \/
                    DenyDone(t) \/ Undo(t) \/ Verify(t) \/ RuntimeEnds(t) \/
                    Restore(t) \/ SelectUnlock(t) \/ UnlockEntry(t) \/
                    UnlockDone(t) \/ Crash(t)
          PROVE  UNCHANGED file
      BY <2>3 DEF Begin, Select, Capture, CaptureDone, Deny, DenyDone, Undo,
         SetLast, Verify, RuntimeEnds, Restore, SelectUnlock, UnlockEntry,
         UnlockDone, Crash, Forget
    <2>4. ASSUME NEW p \in Paths, Create(p) \/ EditLeaf(p) PROVE file'[l] = file[l]
      <3>1. p # l
        BY <2>1, <2>2, <2>4 DEF Create, EditLeaf
      <3>2. PICK content : file' = [file EXCEPT ![p] = content]
        BY <2>4 DEF Create, EditLeaf
      <3>3. QED
        BY <2>1, <3>1, <3>2 DEF TypeInv, TypeOK
    <2>5. ASSUME NEW p \in Paths \ {Root}, Remove(p) PROVE file'[l] = file[l]
      <3>1. l \notin Inside[p]
        BY <2>1, <2>5, DeniedStays DEF Applied
      <3>2. QED
        BY <2>1, <2>5, <3>1 DEF Remove
    <2>6. QED
      BY <2>3, <2>4, <2>5, GuardAssumption DEF Next
  <1>2. QED
    BY <1>1, LockInvariant, TypeInvariant, PTL DEF Spec, LeavesSurviveRun

-----------------------------------------------------------------------------
(* Launches leave no trace: as long as nothing but launches happened, every *)
(* descriptor that is not the project's own is one that the session has     *)
(* captured, and what it has captured is the project's own, or that of      *)
(* something that has been replaced since.                                  *)

Clean(p, descriptor) ==
    /\ "guard" \notin descriptor
    /\ p \notin swapped => descriptor = prior[p]

TraceInv ==
    events = {} =>
         /\ \A p \in Paths : Clean(p, acl[p]) \/ \E s \in Sessions : p \in Captured(s)
         /\ \A s \in Sessions :
              /\ \A x \in snaps[s] : Clean(x.path, x.acl)
              /\ phase[s] = "capturing" => \A p \in Paths : Clean(p, acl[p])
              /\ phase[s] \in Applied => Captured(s) = plan[s]

LEMMA TraceInit == Init => TraceInv
  BY DEF Init, TraceInv, Applied, Clean

\* Nothing is asserted once something else than a launch has happened.
LEMMA TraceLost == ASSUME events' # {} PROVE TraceInv'
  BY DEF TraceInv

\* A session that remembers nothing finds every descriptor as it was.
LEMMA NothingCaptured ==
    ASSUME OneSession, TraceInv, events = {}, NEW s \in Sessions, snaps[s] = {}
    PROVE  \A p \in Paths : Clean(p, acl[p])
  BY DEF TraceInv, OneSession, Captured

\* Moves of one command that leave descriptors, history and snapshots alone.
LEMMA TraceKept ==
    ASSUME OneSession, TypeInv, TraceInv, NEW s \in Sessions,
           UNCHANGED << acl, prior, swapped, events, snaps >>,
           phase'[s] = "capturing" => snaps[s] = {},
           phase'[s] \in Applied => Captured(s) = plan'[s]
    PROVE  TraceInv'
  <1>1. events = {} /\ snaps[s] = {} => \A p \in Paths : Clean(p, acl[p])
    BY NothingCaptured
  <1>2. QED
    BY <1>1 DEF TraceInv, OneSession, Captured, Clean

LEMMA TraceStep == OneSession /\ TypeInv /\ PlaceInv /\ TraceInv /\ [Next]_vars => TraceInv'
  <1> SUFFICES ASSUME OneSession, TypeInv, PlaceInv, TraceInv, [Next]_vars PROVE TraceInv'
    OBVIOUS
  <1>0. phase \in [Sessions -> Phases]
    BY DEF TypeInv, TypeOK
  <1> USE DEF history
  <1>1. ASSUME NEW s \in Sessions,
               Begin(s) \/ RuntimeEnds(s) \/ SelectUnlock(s) \/ Select(s)
        PROVE  TraceInv'
    <2>1. /\ UNCHANGED << acl, prior, swapped, events, snaps >>
          /\ phase'[s] \notin Applied
          /\ phase'[s] = "capturing" => snaps[s] = {}
      BY <1>0, <1>1 DEF Begin, RuntimeEnds, SelectUnlock, Select, Goes, Applied,
         TypeInv, Blank
    <2>2. QED
      BY <2>1, TraceKept
  <1>2. ASSUME NEW s \in Sessions, CaptureDone(s) PROVE TraceInv'
    BY <1>0, <1>2, TraceKept DEF CaptureDone, Goes
  <1>3. ASSUME NEW s \in Sessions, DenyDone(s) PROVE TraceInv'
    <2>1. CASE events = {}
      <3>1. Captured(s) = plan'[s]
        BY <1>3, <2>1 DEF DenyDone, Goes, TraceInv, Applied
      <3>2. QED
        BY <1>0, <1>3, <3>1, TraceKept DEF DenyDone, Goes
    <2>2. CASE events # {}
      BY <1>3, <2>2, TraceLost DEF DenyDone
    <2>3. QED
      BY <2>1, <2>2
  <1>4. ASSUME NEW s \in Sessions, Capture(s) PROVE TraceInv'
    <2>1. PICK p \in First(plan[s] \ Captured(s)) :
            \/ /\ Goes(s, "capturing", "capturing")
               /\ snaps' = [snaps EXCEPT ![s] = @ \cup {[path |-> p, acl |-> acl[p]]}]
            \/ /\ Goes(s, "capturing", "undoing")
               /\ UNCHANGED snaps
      BY <1>4 DEF Capture
    <2>2. UNCHANGED << acl, prior, swapped, events, plan >>
      BY <1>4 DEF Capture
    <2>3. CASE Goes(s, "capturing", "undoing") /\ UNCHANGED snaps
      BY <1>0, <2>2, <2>3, TraceKept DEF Goes, Applied
    <2>4. CASE /\ Goes(s, "capturing", "capturing")
               /\ snaps' = [snaps EXCEPT ![s] = @ \cup {[path |-> p, acl |-> acl[p]]}]
      <3>1. snaps'[s] = snaps[s] \cup {[path |-> p, acl |-> acl[p]]} /\ p \in Paths
        BY <2>4 DEF TypeInv, TypeOK, First
      <3>2. phase[s] = "capturing" /\ phase'[s] = "capturing"
        BY <1>0, <2>4 DEF Goes
      <3>3. events = {} => \A q \in Paths : Clean(q, acl[q])
        BY <3>2 DEF TraceInv
      <3>4. QED
        BY <2>2, <3>1, <3>2, <3>3 DEF TraceInv, OneSession, Captured, Applied, Clean
    <2>5. QED
      BY <2>1, <2>3, <2>4
  <1>5. ASSUME NEW s \in Sessions, Deny(s) PROVE TraceInv'
    <2>1. PICK p \in First(plan[s] \ denied[s]) :
            \/ /\ Goes(s, "denying", "denying")
               /\ acl' = [acl EXCEPT ![p] = @ \cup {"guard"}]
            \/ /\ Goes(s, "denying", "undoing")
               /\ UNCHANGED acl
      BY <1>5 DEF Deny
    <2>2. UNCHANGED << prior, swapped, events, plan, snaps >>
      BY <1>5 DEF Deny
    <2>3. CASE Goes(s, "denying", "undoing") /\ UNCHANGED acl
      BY <1>0, <2>2, <2>3, TraceKept DEF Goes, Applied
    <2>4. CASE /\ Goes(s, "denying", "denying")
               /\ acl' = [acl EXCEPT ![p] = @ \cup {"guard"}]
      <3>1. p \in plan[s] /\ p \in Paths
        BY DEF First, TypeInv, TypeOK
      <3>2. phase[s] = "denying" /\ phase'[s] = "denying"
        BY <1>0, <2>4 DEF Goes
      <3>3. \A q \in Paths : q # p => acl'[q] = acl[q]
        BY <2>4 DEF TypeInv, TypeOK
      <3>4. events = {} => p \in Captured(s)
        BY <3>1, <3>2 DEF TraceInv, Applied
      <3>5. QED
        BY <2>2, <3>2, <3>3, <3>4 DEF TraceInv, OneSession, Captured, Applied, Clean
    <2>5. QED
      BY <2>1, <2>3, <2>4
  <1>6. ASSUME NEW s \in Sessions, SetLast(s), phase[s] \in {"undoing", "restoring"}
        PROVE  TraceInv'
    <2>1. PICK snap \in snaps[s] :
            /\ \/ /\ acl' = [acl EXCEPT ![snap.path] = snap.acl]
                  /\ UNCHANGED events
               \/ ~Exists(snap.path) /\ UNCHANGED << acl, events >>
               \/ Happens("loss")
            /\ snaps' = [snaps EXCEPT ![s] = @ \ {snap}]
            /\ UNCHANGED << prior, swapped, phase >>
      BY <1>6 DEF SetLast
    <2>2. CASE events' # {}
      BY <2>2, TraceLost
    <2>3. CASE events' = {}
      <3>1. events = {}
        BY <2>1, <2>3 DEF Happens
      <3>2. snap.path \in Paths /\ Clean(snap.path, snap.acl)
        BY <3>1 DEF TraceInv, TypeInv, TypeOK, Snapshots
      <3>3. snaps'[s] = snaps[s] \ {snap}
        BY <2>1 DEF TypeInv, TypeOK
      <3>4. \A q \in Paths : q # snap.path => acl'[q] = acl[q]
        BY <2>1, <2>3 DEF Happens, TypeInv, TypeOK
      <3>5. Clean(snap.path, acl'[snap.path])
        <4>1. CASE acl' = [acl EXCEPT ![snap.path] = snap.acl]
          BY <3>2, <4>1 DEF TypeInv, TypeOK
        <4>2. CASE ~Exists(snap.path) /\ UNCHANGED acl
          BY <3>2, <4>2 DEF PlaceInv, Clean
        <4>3. QED
          BY <2>1, <2>3, <4>1, <4>2 DEF Happens
      <3>6. \A q \in Captured(s) : q # snap.path => q \in Captured(s)'
        BY <3>3 DEF Captured
      <3>7. \A p \in Paths : Clean(p, acl[p])' \/ p \in Captured(s)'
        BY <2>1, <3>1, <3>4, <3>5, <3>6 DEF TraceInv, OneSession, Clean
      <3>8. phase'[s] \notin Applied \cup {"capturing"}
        BY <1>6, <2>1 DEF Applied
      <3>9. \A x \in snaps'[s] : Clean(x.path, x.acl)'
        BY <2>1, <3>1, <3>3 DEF TraceInv, Clean
      <3>10. QED
        BY <3>7, <3>8, <3>9 DEF TraceInv, OneSession
    <2>4. QED
      BY <2>2, <2>3
  <1>7. ASSUME NEW s \in Sessions, snaps[s] = {}, Forget(s),
               UNCHANGED << events, kept, swapped >>,
               phase' = [phase EXCEPT ![s] = "idle"]
        PROVE  TraceInv'
    <2>1. snaps'[s] = {} /\ phase'[s] = "idle"
      BY <1>0, <1>7 DEF Forget, TypeInv, TypeOK
    <2>2. events = {} => \A p \in Paths : Clean(p, acl[p])
      BY <1>7, NothingCaptured
    <2>3. UNCHANGED << acl, prior >>
      BY <1>7 DEF Forget
    <2>4. QED
      BY <1>7, <2>1, <2>2, <2>3 DEF TraceInv, OneSession, Captured, Applied, Clean
  <1>8. ASSUME NEW s \in Sessions, Undo(s) \/ Restore(s) PROVE TraceInv'
    BY <1>6, <1>7, <1>8 DEF Undo, Restore, Goes
  <1>9. ASSUME NEW s \in Sessions, Verify(s) PROVE TraceInv'
    <2>1. CASE UNCHANGED << acl, history, file, command, plan, snaps, denied >>
      <3>1. CASE events = {}
        <4>1. Captured(s) = plan'[s] /\ phase'[s] # "capturing"
          BY <1>0, <1>9, <2>1, <3>1 DEF Verify, Goes, TraceInv, Applied
        <4>2. QED
          BY <2>1, <4>1, TraceKept
      <3>2. CASE events # {}
        BY <2>1, <3>2, TraceLost
      <3>3. QED
        BY <3>1, <3>2
    <2>2. CASE Happens("lock")
      BY <2>2, TraceLost DEF Happens
    <2>3. QED
      BY <1>9, <2>1, <2>2 DEF Verify
  <1>10. ASSUME NEW s \in Sessions, UnlockEntry(s) PROVE TraceInv'
    <2>1. CASE Goes(s, "unlocking", "idle") /\ Forget(s) /\ UNCHANGED << events, kept, swapped >>
      BY <1>7, <2>1 DEF Goes, TypeInv
    <2>2. CASE Happens("unlock")
      BY <2>2, TraceLost DEF Happens
    <2>3. QED
      BY <1>10, <2>1, <2>2 DEF UnlockEntry
  <1>11. ASSUME NEW s \in Sessions, UnlockDone(s) PROVE TraceInv'
    BY <1>7, <1>11 DEF UnlockDone, Goes, TypeInv
  <1>12. ASSUME NEW s \in Sessions, Crash(s) PROVE TraceInv'
    BY <1>12, TraceLost DEF Crash, Happens
  <1>13. ASSUME NEW p \in Paths, Create(p) \/ EditLeaf(p) PROVE TraceInv'
    BY <1>13 DEF Create, EditLeaf, TraceInv, Captured, Clean, sessionVars
  <1>14. ASSUME NEW p \in Paths, Remove(p) PROVE TraceInv'
    <2>1. UNCHANGED << events, sessionVars >>
      BY <1>14 DEF Remove
    <2>2. ASSUME NEW q \in Paths, Clean(q, acl[q]) PROVE Clean(q, acl[q])'
      BY <1>14, <2>2 DEF Remove, Clean
    <2>3. ASSUME NEW s \in Sessions, NEW x \in snaps[s], Clean(x.path, x.acl)
          PROVE  Clean(x.path, x.acl)'
      <3>1. x.path \in Paths
        BY DEF TypeInv, TypeOK, Snapshots
      <3>2. CASE x.path \in Inside[p]
        BY <1>14, <2>3, <3>1, <3>2 DEF Remove, Clean
      <3>3. CASE x.path \notin Inside[p]
        BY <1>14, <2>3, <3>1, <3>3 DEF Remove, Clean
      <3>4. QED
        BY <3>2, <3>3
    <2>4. QED
      BY <2>1, <2>2, <2>3 DEF TraceInv, Captured, sessionVars
  <1>15. CASE UNCHANGED vars
    BY <1>15 DEF vars, sessionVars, TraceInv, Captured, Clean
  <1>16. QED
    BY <1>1, <1>2, <1>3, <1>4, <1>5, <1>8, <1>9, <1>10, <1>11, <1>12, <1>13,
       <1>14, <1>15, GuardAssumption DEF Next

(* QuietMeansOriginal for launches that run one at a time: whether they     *)
(* succeed, fail half-way or race the project's own changes (PH3-009), and  *)
(* whichever directories and files have deny entries of their own.          *)
THEOREM NoTrace == ASSUME OneSession PROVE Spec => []QuietMeansOriginal
  <1>1. TypeInv /\ PlaceInv /\ TraceInv => QuietMeansOriginal
    <2> SUFFICES ASSUME TypeInv, PlaceInv, TraceInv, events = {},
                        \A s \in Sessions : phase[s] = "idle",
                        NEW p \in Paths
                 PROVE  acl[p] = prior[p] \/ (p \in swapped /\ acl[p] = {"own"})
      BY DEF QuietMeansOriginal
    <2>1. Clean(p, acl[p])
      BY DEF TypeInv, Blank, Captured, TraceInv
    <2>2. acl[p] \in Acls /\ "guard" \notin acl[p]
      BY <2>1 DEF TypeInv, TypeOK, Clean
    <2>3. acl[p] = {} \/ acl[p] = {"own"}
      BY <2>2 DEF Acls
    <2>4. CASE p \in swapped
      BY <2>3, <2>4 DEF PlaceInv
    <2>5. QED
      BY <2>1, <2>4 DEF Clean
  <1>2. TypeInv /\ PlaceInv /\ TraceInv /\ [Next]_vars => TraceInv'
    BY TraceStep
  <1>3. QED
    BY <1>1, <1>2, TraceInit, TypeInvariant, PlaceInvariant, PTL DEF Spec

-----------------------------------------------------------------------------
(* An unlock that is done has freed everything.  What unlock removes is     *)
(* derived from the files that are there now, so a directory that is        *)
(* neither the root nor classified is found through a file it holds: one    *)
(* that is denied itself cannot go before its directory, and neither        *)
(* restoring what older denials left nor an unlock that failed half-way     *)
(* frees it first.                                                          *)

Ordinary == Paths \ (Leaves \cup {Root} \cup ControlDirs)

\* A session has captured the path as one the guard had not denied.
WillFree(s, p) == \E x \in snaps[s] : x.path = p /\ "guard" \notin x.acl

Kept(d) ==
    \E l \in Present : Parent[l] = d /\ Denies(l) /\ \A s \in Sessions : ~WillFree(s, l)

Calm == events \subseteq {"lock", "unlock"}

Found ==
    \A d \in Ordinary \ swapped :
        Denies(d) => Kept(d) \/ \E s \in Sessions : WillFree(s, d)

Reached(s) ==
    /\ \A x \in snaps[s] :
          x.path \in Ordinary \ swapped /\ "guard" \in x.acl => Denies(x.path)
    /\ phase[s] \in Applied => Captured(s) = plan[s]
    /\ phase[s] \in Applied \cup {"capturing"} =>
          \A d \in Ordinary \cap plan[s] : \E l \in plan[s] \cap Leaves : Parent[l] = d
    /\ phase[s] = "unlocking" => \A p \in Paths \ swapped : Denies(p) => p \in plan[s]

FreeInv == Calm => Found /\ \A s \in Sessions : Reached(s)

LEMMA FreeInit == Init => FreeInv
  <1> SUFFICES ASSUME Init PROVE FreeInv
    OBVIOUS
  <1>1. \A p \in Paths : ~Denies(p)
    BY DEF Init, Denies
  <1>2. \A s \in Sessions : snaps[s] = {} /\ phase[s] = "idle"
    BY DEF Init
  <1>3. QED
    BY <1>1, <1>2, GuardAssumption DEF FreeInv, Found, Reached, Ordinary, Applied

\* Nothing is asserted once a failure has left denials behind.
LEMMA FreeLost == ASSUME ~Calm' PROVE FreeInv'
  BY DEF FreeInv

\* Found only depends on descriptors, files, what was replaced and snapshots.
LEMMA FoundKept ==
    ASSUME Found, UNCHANGED << acl, file, swapped, snaps >> PROVE Found'
  BY DEF Found, Kept, WillFree, Denies, Present, Exists

\* Moves of one command that leave descriptors, files and snapshots alone.
LEMMA FreeKept ==
    ASSUME OneSession, FreeInv, NEW s \in Sessions,
           UNCHANGED << acl, file, swapped, snaps, events >>,
           Calm /\ Found /\ Reached(s) => Reached(s)'
    PROVE  FreeInv'
  BY FoundKept DEF FreeInv, Calm, OneSession

\* A session that remembers nothing finds every denial through Guarded.
LEMMA GuardedCovers ==
    ASSUME OneSession, PlaceInv, Found, NEW s \in Sessions, snaps[s] = {},
           NEW p \in Paths \ swapped, Denies(p)
    PROVE  p \in Guarded(Present)
  <1>1. CASE p \in Ordinary
    BY <1>1 DEF Found, Kept, WillFree, OneSession, Guarded
  <1>2. Exists(p)
    BY DEF PlaceInv, Denies
  <1>3. QED
    BY <1>1, <1>2 DEF Ordinary, Guarded, Present, Classed

\* A command that remembers nothing ends.
LEMMA FreeForgets ==
    ASSUME OneSession, TypeInv, FreeInv, NEW s \in Sessions, snaps[s] = {}, Forget(s),
           UNCHANGED << events, kept, swapped >>, phase' = [phase EXCEPT ![s] = "idle"]
    PROVE  FreeInv'
  <1>1. snaps'[s] = {} /\ phase'[s] = "idle"
    BY DEF Forget, TypeInv, TypeOK
  <1>2. snaps' = snaps
    BY <1>1 DEF Forget, TypeInv, TypeOK
  <1>3. Reached(s)'
    BY <1>1 DEF Reached, Applied
  <1>4. QED
    BY <1>2, <1>3, FreeKept DEF Forget

\* A step that keeps what Kept rests on keeps it.
LEMMA KeptStays ==
    ASSUME OneSession, NEW s \in Sessions, NEW d, Kept(d),
           \A l \in Present : Parent[l] = d /\ Denies(l) /\ ~WillFree(s, l) =>
              l \in Present' /\ Denies(l)' /\ ~WillFree(s, l)'
    PROVE  Kept(d)'
  BY DEF Kept, OneSession

LEMMA FreeSelect ==
    ASSUME OneSession, TypeInv, PlaceInv, FreeInv,
           NEW s \in Sessions, Select(s) \/ SelectUnlock(s)
    PROVE  FreeInv'
  <1>0. phase \in [Sessions -> Phases] /\ plan \in [Sessions -> SUBSET Paths]
    BY DEF TypeInv, TypeOK
  <1>1. UNCHANGED << acl, file, swapped, snaps, events, denied >>
    BY DEF Select, SelectUnlock, history
  <1>2. snaps[s] = {} /\ snaps'[s] = {}
    BY <1>0, <1>1 DEF Select, SelectUnlock, Goes, TypeInv, Blank
  <1>3. CASE Goes(s, "admitted", "idle")
    <2>1. phase'[s] = "idle"
      BY <1>0, <1>3 DEF Goes
    <2>2. QED
      BY <1>1, <1>2, <2>1, FreeKept DEF Reached, Applied
  <1>4. CASE Goes(s, "admitted", "capturing") /\ plan' = [plan EXCEPT ![s] = Guarded(Present)]
    <2>1. phase'[s] = "capturing" /\ plan'[s] = Guarded(Present)
      BY <1>0, <1>4 DEF Goes
    <2>2. \A d \in Ordinary \cap plan'[s] : \E l \in plan'[s] \cap Leaves : Parent[l] = d
      BY <2>1 DEF Ordinary, Guarded, Present, Classed
    <2>3. QED
      BY <1>1, <1>2, <2>1, <2>2, FreeKept DEF Reached, Applied
  <1>5. CASE Goes(s, "admitted", "unlocking") /\ plan' = [plan EXCEPT ![s] = Guarded(Present)]
    <2>1. phase'[s] = "unlocking" /\ plan'[s] = Guarded(Present)
      BY <1>0, <1>5 DEF Goes
    <2>2. Found => \A p \in Paths \ swapped : Denies(p) => p \in plan'[s]
      BY <1>2, <2>1, GuardedCovers
    <2>3. Found => Reached(s)'
      BY <1>1, <1>2, <2>1, <2>2 DEF Reached, Applied, Denies
    <2>4. QED
      BY <1>1, <2>3, FreeKept
  <1>6. QED
    BY <1>3, <1>4, <1>5 DEF Select, SelectUnlock, UnlockPlan

LEMMA FreeCapture ==
    ASSUME OneSession, TypeInv, FreeInv, NEW s \in Sessions, Capture(s)
    PROVE  FreeInv'
  <1>0. phase \in [Sessions -> Phases]
    BY DEF TypeInv, TypeOK
  <1>1. PICK p \in First(plan[s] \ Captured(s)) :
          \/ /\ Goes(s, "capturing", "capturing")
             /\ snaps' = [snaps EXCEPT ![s] = @ \cup {[path |-> p, acl |-> acl[p]]}]
          \/ /\ Goes(s, "capturing", "undoing")
             /\ UNCHANGED snaps
    BY DEF Capture
  <1>2. UNCHANGED << acl, events, file, swapped, plan, denied >>
    BY DEF Capture, history
  <1>3. CASE Goes(s, "capturing", "undoing") /\ UNCHANGED snaps
    <2>1. phase'[s] = "undoing"
      BY <1>0, <1>3 DEF Goes
    <2>2. Reached(s) => Reached(s)'
      BY <1>2, <1>3, <2>1 DEF Reached, Applied, Denies
    <2>3. QED
      BY <1>2, <1>3, <2>2, FreeKept
  <1>4. CASE /\ Goes(s, "capturing", "capturing")
             /\ snaps' = [snaps EXCEPT ![s] = @ \cup {[path |-> p, acl |-> acl[p]]}]
    <2>1. snaps'[s] = snaps[s] \cup {[path |-> p, acl |-> acl[p]]}
      BY <1>4 DEF TypeInv, TypeOK
    <2>2. phase[s] = "capturing" /\ phase'[s] = "capturing"
      BY <1>0, <1>4 DEF Goes
    <2>3. SUFFICES ASSUME Calm', Found, Reached(s) PROVE Found' /\ Reached(s)'
      BY <1>2 DEF FreeInv, Calm, OneSession
    <2>4. \A q : Denies(q) /\ ~WillFree(s, q) => ~WillFree(s, q)'
      BY <2>1 DEF Denies, WillFree
    <2>5. \A q : WillFree(s, q) => WillFree(s, q)'
      BY <2>1 DEF WillFree
    <2>6. \A d \in Ordinary : Kept(d) => Kept(d)'
      BY <1>2, <2>4, KeptStays DEF Present, Exists, Denies
    <2>7. Found'
      BY <1>2, <2>3, <2>5, <2>6 DEF Found, Denies, OneSession
    <2>8. Reached(s)'
      BY <1>2, <2>1, <2>2, <2>3 DEF Reached, Denies, Applied
    <2>9. QED
      BY <2>7, <2>8
  <1>5. QED
    BY <1>1, <1>3, <1>4

LEMMA FreeDeny ==
    ASSUME OneSession, TypeInv, FreeInv, NEW s \in Sessions, Deny(s)
    PROVE  FreeInv'
  <1>0. phase \in [Sessions -> Phases]
    BY DEF TypeInv, TypeOK
  <1>1. PICK p \in First(plan[s] \ denied[s]) :
          \/ /\ Exists(p)
             /\ Goes(s, "denying", "denying")
             /\ acl' = [acl EXCEPT ![p] = @ \cup {"guard"}]
             /\ denied' = [denied EXCEPT ![s] = @ \cup {p}]
          \/ /\ Goes(s, "denying", "undoing")
             /\ UNCHANGED << acl, denied >>
    BY DEF Deny
  <1>2. UNCHANGED << events, file, swapped, plan, snaps >>
    BY DEF Deny, history
  <1>3. CASE Goes(s, "denying", "undoing") /\ UNCHANGED << acl, denied >>
    <2>1. phase'[s] = "undoing"
      BY <1>0, <1>3 DEF Goes
    <2>2. Reached(s) => Reached(s)'
      BY <1>2, <1>3, <2>1 DEF Reached, Applied, Denies
    <2>3. QED
      BY <1>2, <1>3, <2>2, FreeKept
  <1>4. CASE /\ Exists(p)
             /\ Goes(s, "denying", "denying")
             /\ acl' = [acl EXCEPT ![p] = @ \cup {"guard"}]
             /\ denied' = [denied EXCEPT ![s] = @ \cup {p}]
    <2>1. p \in plan[s] /\ p \in Paths
      BY DEF First, TypeInv, TypeOK
    <2>2. phase[s] = "denying" /\ phase'[s] = "denying" /\ denied'[s] = denied[s] \cup {p}
      BY <1>0, <1>4 DEF Goes, TypeInv, TypeOK
    <2>3. \A q \in Paths : (Denies(q) => Denies(q)') /\ (q # p => (Denies(q)' => Denies(q)))
      BY <1>4 DEF Denies, TypeInv, TypeOK
    <2>4. SUFFICES ASSUME Calm', Found, Reached(s) PROVE Found' /\ Reached(s)'
      BY <1>2 DEF FreeInv, Calm, OneSession
    <2>5. \A d \in Ordinary : Kept(d) => Kept(d)'
      BY <1>2, <2>3, KeptStays, GuardAssumption DEF Present, Exists, WillFree
    <2>6. p \in Captured(s)
      BY <2>1, <2>2, <2>4 DEF Reached, Applied
    <2>7. p \in Ordinary \ swapped => Kept(p) \/ WillFree(s, p)
      <3>1. PICK x \in snaps[s] : x.path = p
        BY <2>6 DEF Captured
      <3>2. CASE "guard" \in x.acl
        BY <2>4, <3>1, <3>2 DEF Reached, Found, OneSession
      <3>3. CASE "guard" \notin x.acl
        BY <3>1, <3>3 DEF WillFree
      <3>4. QED
        BY <3>2, <3>3
    <2>8. \A d \in Ordinary \ swapped : Denies(d)' => Kept(d) \/ WillFree(s, d)
      BY <2>3, <2>4, <2>7 DEF Found, OneSession, Ordinary
    <2>9. Found'
      BY <1>2, <2>5, <2>8 DEF Found, WillFree
    <2>10. Reached(s)'
      <3>1. \A x \in snaps'[s] :
              x.path \in Ordinary \ swapped' /\ "guard" \in x.acl => Denies(x.path)'
        BY <1>2, <2>3, <2>4 DEF Reached, Ordinary
      <3>2. QED
        BY <1>2, <2>2, <2>4, <3>1 DEF Reached, Applied, Captured
    <2>11. QED
      BY <2>9, <2>10
  <1>5. QED
    BY <1>1, <1>3, <1>4

LEMMA FreeSetLast ==
    ASSUME OneSession, TypeInv, PlaceInv, FreeInv, NEW s \in Sessions, SetLast(s),
           phase[s] \in {"undoing", "restoring"}
    PROVE  FreeInv'
  <1>1. PICK snap \in snaps[s] :
          /\ \/ /\ Exists(snap.path)
                /\ acl' = [acl EXCEPT ![snap.path] = snap.acl]
                /\ UNCHANGED events
             \/ ~Exists(snap.path) /\ UNCHANGED << acl, events >>
             \/ Happens("loss")
          /\ snaps' = [snaps EXCEPT ![s] = @ \ {snap}]
          /\ UNCHANGED << file, swapped, phase, plan, denied >>
    BY DEF SetLast
  <1>2. CASE Happens("loss")
    BY <1>2, FreeLost DEF Happens, Calm
  <1>3. CASE /\ \/ /\ Exists(snap.path)
                   /\ acl' = [acl EXCEPT ![snap.path] = snap.acl]
                \/ ~Exists(snap.path) /\ UNCHANGED acl
             /\ UNCHANGED events
    <2>1. SUFFICES ASSUME Found, Reached(s) PROVE Found' /\ Reached(s)'
      BY <1>3 DEF FreeInv, Calm, OneSession
    <2>2. snaps'[s] = snaps[s] \ {snap}
      BY <1>1 DEF TypeInv, TypeOK
    <2>3. /\ snap.path \in Paths
          /\ \A x \in snaps[s] : x.path = snap.path => x = snap
      BY DEF TypeInv, TypeOK, Snapshots
    <2>4. \A q \in Paths : q # snap.path => (Denies(q)' <=> Denies(q))
      BY <1>3 DEF Denies, TypeInv, TypeOK
    <2>5. Denies(snap.path)' => "guard" \in snap.acl
      BY <1>3, <2>3 DEF Denies, TypeInv, TypeOK, PlaceInv
    <2>6. Exists(snap.path) /\ "guard" \in snap.acl => Denies(snap.path)'
      BY <1>3, <2>3 DEF Denies, TypeInv, TypeOK
    <2>7. \A q : WillFree(s, q)' => WillFree(s, q)
      BY <2>2 DEF WillFree
    <2>8. \A q : q # snap.path /\ WillFree(s, q) => WillFree(s, q)'
      BY <2>2 DEF WillFree
    <2>9. \A l \in Present : Denies(l) /\ ~WillFree(s, l) => Denies(l)'
      <3> SUFFICES ASSUME NEW l \in Present, Denies(l), ~WillFree(s, l) PROVE Denies(l)'
        OBVIOUS
      <3>1. l \in Paths /\ Exists(l)
        BY GuardAssumption DEF Present
      <3>2. CASE l = snap.path
        BY <2>6, <3>1, <3>2 DEF WillFree
      <3>3. QED
        BY <2>4, <3>1, <3>2
    <2>10. \A d \in Ordinary : Kept(d) => Kept(d)'
      BY <1>1, <2>7, <2>9, KeptStays DEF Present, Exists
    <2>11. ASSUME snap.path \in Ordinary \ swapped, Denies(snap.path)'
           PROVE  Kept(snap.path)
      <3>1. "guard" \in snap.acl
        BY <2>5, <2>11
      <3>2. Denies(snap.path)
        BY <2>1, <2>11, <3>1 DEF Reached
      <3>3. ~WillFree(s, snap.path)
        BY <2>3, <3>1 DEF WillFree
      <3>4. QED
        BY <2>1, <2>11, <3>2, <3>3 DEF Found, OneSession
    <2>12. \A d \in Ordinary \ swapped : Denies(d)' => Kept(d)' \/ WillFree(s, d)'
      <3> SUFFICES ASSUME NEW d \in Ordinary \ swapped, Denies(d)', d # snap.path
                   PROVE  Kept(d)' \/ WillFree(s, d)'
        BY <2>10, <2>11
      <3>1. Denies(d)
        BY <2>4 DEF Ordinary
      <3>2. QED
        BY <2>1, <2>8, <2>10, <3>1 DEF Found, OneSession
    <2>13. Reached(s)'
      <3>1. \A x \in snaps'[s] :
              x.path \in Ordinary \ swapped /\ "guard" \in x.acl => Denies(x.path)'
        <4> SUFFICES ASSUME NEW x \in snaps'[s], x.path \in Ordinary \ swapped,
                            "guard" \in x.acl
                     PROVE  Denies(x.path)'
          OBVIOUS
        <4>1. x \in snaps[s] /\ x.path # snap.path
          BY <2>2, <2>3
        <4>2. QED
          BY <2>1, <2>4, <4>1 DEF Reached, Ordinary
      <3>2. phase'[s] \notin Applied \cup {"capturing", "unlocking"}
        BY <1>1 DEF Applied
      <3>3. QED
        BY <1>1, <3>1, <3>2 DEF Reached
    <2>14. QED
      BY <1>1, <2>12, <2>13 DEF Found
  <1>4. QED
    BY <1>1, <1>2, <1>3

LEMMA FreeVerify ==
    ASSUME OneSession, TypeInv, LockInv, FreeInv, NEW s \in Sessions, Verify(s)
    PROVE  FreeInv'
  <1>0. phase \in [Sessions -> Phases]
    BY DEF TypeInv, TypeOK
  <1>1. CASE /\ Goes(s, "locked", "running") \/ Goes(s, "locked", "restoring")
             /\ UNCHANGED << acl, history, file, command, plan, snaps, denied >>
    <2>1. phase[s] = "locked" /\ phase'[s] \in {"running", "restoring"}
      BY <1>0, <1>1 DEF Goes
    <2>2. Reached(s) => Reached(s)'
      BY <1>1, <2>1 DEF Reached, Applied, Captured, Denies, history
    <2>3. QED
      BY <1>1, <2>2, FreeKept DEF history
  <1>2. CASE Goes(s, "locked", "idle") /\ Happens("lock") /\ UNCHANGED swapped /\ Forget(s)
    <2>1. phase[s] = "locked" /\ phase'[s] = "idle"
      BY <1>0, <1>2 DEF Goes
    <2>2. snaps'[s] = {} /\ UNCHANGED << acl, file >>
      BY <1>2 DEF Forget, TypeInv, TypeOK
    <2>3. SUFFICES ASSUME Found, Reached(s) PROVE Found' /\ Reached(s)'
      BY <1>2 DEF FreeInv, Calm, OneSession, Happens
    <2>4. \A l \in denied[s] \cap Leaves : Denies(Parent[l]) => l \in Present /\ Denies(l)
      BY <2>1 DEF LockInv, Applied, Present
    <2>5. denied[s] = plan[s] /\ Captured(s) = plan[s]
      BY <2>1, <2>3 DEF LockInv, Reached, Applied
    <2>6. \A q : ~WillFree(s, q)'
      BY <2>2 DEF WillFree
    <2>7. \A d \in Ordinary \ swapped : Denies(d) => \E l \in Present : Parent[l] = d /\ Denies(l)
      <3> SUFFICES ASSUME NEW d \in Ordinary \ swapped, Denies(d)
                   PROVE  \E l \in Present : Parent[l] = d /\ Denies(l)
        OBVIOUS
      <3>1. CASE d \in plan[s]
        <4>1. PICK l \in plan[s] \cap Leaves : Parent[l] = d
          BY <2>1, <2>3, <3>1 DEF Reached, Applied
        <4>2. QED
          BY <2>4, <2>5, <4>1 DEF Present
      <3>2. CASE d \notin plan[s]
        BY <2>3, <2>5, <3>2 DEF Found, Kept, WillFree, Captured, OneSession
      <3>3. QED
        BY <3>1, <3>2
    <2>8. Found'
      BY <1>2, <2>2, <2>6, <2>7 DEF Found, Kept, Denies, Present, Exists, OneSession
    <2>9. QED
      BY <2>1, <2>2, <2>8 DEF Reached, Applied
  <1>3. QED
    BY <1>1, <1>2 DEF Verify

LEMMA FreeUnlock ==
    ASSUME OneSession, TypeInv, FreeInv, NEW s \in Sessions, UnlockEntry(s)
    PROVE  FreeInv'
  <1>1. PICK p \in First(plan[s]) :
          /\ phase[s] = "unlocking"
          /\ \/ /\ acl' = [acl EXCEPT ![p] = {}]
                /\ plan' = [plan EXCEPT ![s] = @ \ {p}]
                /\ Happens("unlock")
                /\ UNCHANGED << file, swapped, phase, snaps, denied >>
             \/ /\ Goes(s, "unlocking", "idle")
                /\ Forget(s)
                /\ UNCHANGED << events, kept, swapped >>
    BY DEF UnlockEntry
  <1>2. snaps[s] = {}
    BY <1>1 DEF TypeInv
  <1>3. CASE Goes(s, "unlocking", "idle") /\ Forget(s) /\ UNCHANGED << events, kept, swapped >>
    BY <1>2, <1>3, FreeForgets DEF Goes
  <1>4. CASE /\ acl' = [acl EXCEPT ![p] = {}]
             /\ plan' = [plan EXCEPT ![s] = @ \ {p}]
             /\ Happens("unlock")
             /\ UNCHANGED << file, swapped, phase, snaps, denied >>
    <2>1. SUFFICES ASSUME Found, Reached(s) PROVE Found' /\ Reached(s)'
      BY <1>4 DEF FreeInv, Calm, OneSession, Happens
    <2>2. /\ p \in plan[s] /\ p \in Paths
          /\ \A q \in plan[s] : Rank[p] <= Rank[q]
      BY DEF First, TypeInv, TypeOK
    <2>3. ~Denies(p)' /\ \A q \in Paths : q # p => (Denies(q)' <=> Denies(q))
      BY <1>4, <2>2 DEF Denies, TypeInv, TypeOK
    <2>4. \A q \in Paths \ swapped : Denies(q) => q \in plan[s]
      BY <1>1, <2>1 DEF Reached
    <2>5. Reached(s)'
      <3>1. plan'[s] = plan[s] \ {p} /\ phase'[s] = "unlocking" /\ snaps'[s] = {}
        BY <1>1, <1>2, <1>4 DEF TypeInv, TypeOK
      <3>2. QED
        BY <1>4, <2>3, <2>4, <3>1 DEF Reached, Applied
    <2>6. \A d \in Ordinary \ swapped : Denies(d)' => Kept(d)'
      <3> SUFFICES ASSUME NEW d \in Ordinary \ swapped, Denies(d)' PROVE Kept(d)'
        OBVIOUS
      <3>1. d # p /\ Denies(d) /\ d \in plan[s]
        BY <2>3, <2>4 DEF Ordinary
      <3>2. Kept(d)
        BY <1>2, <2>1, <3>1 DEF Found, WillFree, OneSession
      <3>3. p \notin Leaves
        BY <2>2, <3>1, GuardAssumption DEF Ordinary
      <3>4. \A l \in Present : Denies(l) => Denies(l)'
        BY <2>3, <3>3, GuardAssumption DEF Present
      <3>5. QED
        BY <1>4, <3>2, <3>4, KeptStays DEF Present, Exists, WillFree
    <2>7. QED
      BY <1>4, <2>5, <2>6 DEF Found
  <1>5. QED
    BY <1>1, <1>3, <1>4

LEMMA FreeRemove ==
    ASSUME TypeInv, FreeInv, NEW p \in Paths, Remove(p)
    PROVE  FreeInv'
  <1>1. UNCHANGED << events, phase, plan, snaps, denied >>
    BY DEF Remove, sessionVars
  <1>2. SUFFICES ASSUME Found, \A s \in Sessions : Reached(s)
                 PROVE  Found' /\ \A s \in Sessions : Reached(s)'
    BY <1>1 DEF FreeInv, Calm
  <1>3. ASSUME NEW q \in Paths \ swapped', Denies(q)'
        PROVE  q \notin Inside[p] /\ q \notin swapped /\ Denies(q)
    <2>1. q \notin Inside[p] /\ Denies(q)
      BY <1>3, RemoveKeeps
    <2>2. QED
      BY <2>1 DEF Remove
  <1>4. ASSUME NEW d \in Ordinary \ swapped', Denies(d)'
        PROVE  Kept(d)' \/ \E s \in Sessions : WillFree(s, d)'
    <2>1. d \in Paths /\ d \notin Inside[p] /\ d \notin swapped /\ Denies(d)
      BY <1>3, <1>4 DEF Ordinary
    <2>2. CASE Kept(d)
      <3>1. PICK l \in Present :
              Parent[l] = d /\ Denies(l) /\ \A s \in Sessions : ~WillFree(s, l)
        BY <2>2 DEF Kept
      <3>2. l \in Leaves /\ l \in Paths /\ Exists(l)
        BY GuardAssumption DEF Present
      <3>3. l \notin Inside[p]
        BY <2>1, <3>1, <3>2, FileStays
      <3>4. Denies(l)' /\ Exists(l)'
        BY <3>1, <3>2, <3>3, RemoveKeeps
      <3>5. QED
        BY <1>1, <3>1, <3>2, <3>4 DEF Kept, WillFree, Present
    <2>3. CASE \E s \in Sessions : WillFree(s, d)
      BY <1>1, <2>3 DEF WillFree
    <2>4. QED
      BY <1>2, <2>1, <2>2, <2>3 DEF Found
  <1>5. ASSUME NEW s \in Sessions PROVE Reached(s)'
    <2>1. ASSUME NEW x \in snaps'[s], x.path \in Ordinary \ swapped', "guard" \in x.acl
          PROVE  Denies(x.path)'
      <3>1. x \in snaps[s] /\ x.path \in Paths /\ x.acl # {}
        BY <1>1, <2>1 DEF Ordinary
      <3>2. x.path \notin Inside[p]
        BY <2>1, <3>1 DEF Remove
      <3>3. x.path \notin swapped
        BY <2>1, <3>1, <3>2 DEF Remove
      <3>4. Denies(x.path)
        BY <1>2, <2>1, <3>1, <3>3 DEF Reached
      <3>5. QED
        BY <3>1, <3>2, <3>4, RemoveKeeps
    <2>2. phase'[s] = "unlocking" => \A q \in Paths \ swapped' : Denies(q)' => q \in plan'[s]
      BY <1>1, <1>2, <1>3 DEF Reached
    <2>3. QED
      BY <1>1, <1>2, <2>1, <2>2 DEF Reached, Captured
  <1>6. QED
    BY <1>4, <1>5 DEF Found

LEMMA FreeStep ==
    OneSession /\ TypeInv /\ PlaceInv /\ LockInv /\ FreeInv /\ [Next]_vars => FreeInv'
  <1> SUFFICES ASSUME OneSession, TypeInv, PlaceInv, LockInv, FreeInv, [Next]_vars
               PROVE  FreeInv'
    OBVIOUS
  <1>0. phase \in [Sessions -> Phases]
    BY DEF TypeInv, TypeOK
  <1>1. ASSUME NEW s \in Sessions, Begin(s) \/ RuntimeEnds(s) PROVE FreeInv'
    <2>1. /\ UNCHANGED << acl, file, swapped, snaps, events >>
          /\ phase'[s] \notin Applied \cup {"capturing", "unlocking"}
      BY <1>0, <1>1 DEF Begin, RuntimeEnds, Goes, Applied, history
    <2>2. Reached(s) => Reached(s)'
      BY <2>1 DEF Reached, Denies
    <2>3. QED
      BY <2>1, <2>2, FreeKept
  <1>2. ASSUME NEW s \in Sessions, CaptureDone(s) PROVE FreeInv'
    <2>1. /\ UNCHANGED << acl, file, swapped, snaps, events, plan >>
          /\ phase[s] = "capturing" /\ phase'[s] = "denying"
          /\ Captured(s) = plan[s] /\ denied'[s] = {}
      BY <1>0, <1>2 DEF CaptureDone, Goes, history, TypeInv
    <2>2. Reached(s) => Reached(s)'
      BY <2>1 DEF Reached, Denies, Captured, Applied
    <2>3. QED
      BY <2>1, <2>2, FreeKept
  <1>3. ASSUME NEW s \in Sessions, DenyDone(s) PROVE FreeInv'
    <2>1. /\ UNCHANGED << acl, file, swapped, snaps, events, plan, denied >>
          /\ phase[s] = "denying" /\ phase'[s] = "locked"
      BY <1>0, <1>3 DEF DenyDone, Goes, history
    <2>2. Reached(s) => Reached(s)'
      BY <2>1 DEF Reached, Denies, Captured, Applied, Present
    <2>3. QED
      BY <2>1, <2>2, FreeKept
  <1>4. ASSUME NEW s \in Sessions, Undo(s) \/ Restore(s) PROVE FreeInv'
    BY <1>4, FreeSetLast, FreeForgets DEF Undo, Restore, Goes
  <1>5. ASSUME NEW s \in Sessions, UnlockDone(s) PROVE FreeInv'
    BY <1>5, FreeForgets DEF UnlockDone, Goes, TypeInv
  <1>6. ASSUME NEW s \in Sessions, Crash(s) PROVE FreeInv'
    BY <1>6, FreeLost DEF Crash, Happens, Calm
  <1>7. ASSUME NEW p \in Paths, Create(p) \/ EditLeaf(p) PROVE FreeInv'
    <2>1. Present \subseteq Present'
      BY <1>7, GuardAssumption DEF Create, EditLeaf, Present, Exists, TypeInv, TypeOK
    <2>2. UNCHANGED << acl, events, swapped, phase, plan, snaps, denied >>
      BY <1>7 DEF Create, EditLeaf, history, sessionVars
    <2>3. Found => Found'
      BY <2>1, <2>2 DEF Found, Kept, WillFree, Denies
    <2>4. \A s \in Sessions : Reached(s) => Reached(s)'
      BY <2>1, <2>2 DEF Reached, Denies, Captured
    <2>5. QED
      BY <2>2, <2>3, <2>4 DEF FreeInv, Calm
  <1>8. CASE UNCHANGED vars
    BY <1>8 DEF vars, history, sessionVars, FreeInv, Calm, Found, Kept, WillFree,
       Reached, Denies, Present, Exists, Captured
  <1>9. QED
    BY <1>1, <1>2, <1>3, <1>4, <1>5, <1>6, <1>7, <1>8, FreeSelect, FreeCapture,
       FreeDeny, FreeVerify, FreeUnlock, FreeRemove, GuardAssumption DEF Next

(* UnlockFrees for commands that run one at a time and any project, after   *)
(* any history of launches, locks and unlocks that failed or were raced by  *)
(* the project's own processes, short of a kill, of a descriptor that could *)
(* not be restored, or of one set on what replaced its owner.               *)
THEOREM UnlockFreesAll == ASSUME OneSession PROVE Spec => []UnlockFrees
  <1>1. FreeInv => UnlockFrees
    BY DEF FreeInv, Calm, Reached, UnlockFrees
  <1>2. TypeInv /\ PlaceInv /\ LockInv /\ FreeInv /\ [Next]_vars => FreeInv'
    BY FreeStep
  <1>3. QED
    BY <1>1, <1>2, FreeInit, LockInvariant, TypeInvariant, PlaceInvariant, PTL DEF Spec

-----------------------------------------------------------------------------
(* Recovery.  What blocks it is a denial nobody will take away.  Launches   *)
(* and unlocks that run one at a time to their end leave none: whatever is  *)
(* denied has a snapshot without the denial.                                *)

Holding == Applied \cup { "undoing", "restoring" }

TidyInv ==
    /\ \A p \in Paths : Denies(p) =>
         \E s \in Sessions : phase[s] \in Holding /\ p \in Captured(s)
    /\ \A s \in Sessions :
         /\ command[s] # "lock"
         /\ \A x \in snaps[s] : "guard" \notin x.acl
         /\ phase[s] \in Applied => Captured(s) = plan[s]

LEMMA TidyInit == ASSUME "lock" \notin Commands PROVE Init => TidyInv
  BY DEF Init, TidyInv, Denies, Applied

\* A step that leaves descriptors and snapshots alone.
LEMMA TidyGoes ==
    ASSUME OneSession, TypeInv, TidyInv, NEW s \in Sessions,
           UNCHANGED << acl, snaps >>, command'[s] # "lock",
           phase[s] \in Holding => phase'[s] \in Holding \/ snaps[s] = {},
           phase'[s] \in Applied => Captured(s) = plan'[s]
    PROVE  TidyInv'
  BY DEF OneSession, TidyInv, Denies, Captured

LEMMA TidyForgets ==
    ASSUME OneSession, TypeInv, TidyInv, NEW s \in Sessions, Forget(s), snaps[s] = {},
           phase'[s] = "idle"
    PROVE  TidyInv'
  <1>1. /\ UNCHANGED << acl, command >> /\ snaps'[s] = {}
    BY DEF Forget, TypeInv, TypeOK
  <1>2. \A p \in Paths : ~Denies(p)
    BY DEF TidyInv, OneSession, Captured
  <1>3. QED
    BY <1>1, <1>2 DEF TidyInv, OneSession, Denies, Applied

LEMMA TidySetLast ==
    ASSUME OneSession, TypeInv, PlaceInv, TidyInv, "set" \notin Faults,
           NEW s \in Sessions, SetLast(s), phase[s] \in {"undoing", "restoring"}
    PROVE  TidyInv'
  <1>1. PICK snap \in snaps[s] :
          /\ \/ Exists(snap.path) /\ acl' = [acl EXCEPT ![snap.path] = snap.acl]
             \/ ~Exists(snap.path) /\ UNCHANGED acl
          /\ snaps' = [snaps EXCEPT ![s] = @ \ {snap}]
          /\ UNCHANGED << phase, command, plan >>
    BY DEF SetLast
  <1>2. /\ snaps'[s] = snaps[s] \ {snap} /\ snap.path \in Paths
        /\ "guard" \notin snap.acl
        /\ \A x \in snaps[s] : x.path = snap.path => x = snap
    BY <1>1 DEF TypeInv, TypeOK, Snapshots, TidyInv
  <1>3. ~Denies(snap.path)' /\ \A p \in Paths : p # snap.path => (Denies(p)' <=> Denies(p))
    BY <1>1, <1>2 DEF Denies, TypeInv, TypeOK, PlaceInv
  <1>4. \A p \in Captured(s) : p # snap.path => p \in Captured(s)'
    BY <1>2 DEF Captured
  <1>5. \A p \in Paths : Denies(p)' =>
          \E t \in Sessions : phase'[t] \in Holding /\ p \in Captured(t)'
    BY <1>1, <1>3, <1>4 DEF TidyInv, OneSession
  <1>6. QED
    BY <1>1, <1>2, <1>5 DEF TidyInv, OneSession, Applied

LEMMA TidyStep ==
    ASSUME OneSession, "lock" \notin Commands, Faults \cap {"set", "crash"} = {},
           TypeInv, PlaceInv, TidyInv, [Next]_vars
    PROVE  TidyInv'
  <1>0. phase \in [Sessions -> Phases] /\ command \in [Sessions -> FullCommands]
    BY DEF TypeInv, TypeOK
  <1>1. ASSUME NEW s \in Sessions, Begin(s) PROVE TidyInv'
    BY <1>0, <1>1, TidyGoes DEF Begin, Goes, Holding, Applied
  <1>2. ASSUME NEW s \in Sessions, Select(s) \/ SelectUnlock(s) PROVE TidyInv'
    <2>1. /\ UNCHANGED << acl, snaps, command >>
          /\ phase[s] = "admitted" /\ phase'[s] \in {"capturing", "unlocking", "idle"}
      BY <1>0, <1>2 DEF Select, SelectUnlock, Goes
    <2>2. QED
      BY <2>1, TidyGoes DEF Holding, Applied, TidyInv
  <1>3. ASSUME NEW s \in Sessions, Capture(s) PROVE TidyInv'
    <2>1. PICK p \in First(plan[s] \ Captured(s)) :
            /\ phase[s] = "capturing"
            /\ \/ /\ phase'[s] = "capturing"
                  /\ snaps' = [snaps EXCEPT ![s] = @ \cup {[path |-> p, acl |-> acl[p]]}]
               \/ phase'[s] = "undoing" /\ UNCHANGED snaps
            /\ UNCHANGED << acl, command, plan >>
      BY <1>0, <1>3 DEF Capture, Goes
    <2>2. p \in Paths
      BY <2>1 DEF First, TypeInv, TypeOK
    <2>3. \A q \in Paths : ~Denies(q)
      BY <2>1 DEF TidyInv, OneSession, Holding, Applied
    <2>4. \A x \in snaps'[s] : "guard" \notin x.acl
      BY <2>1, <2>2, <2>3 DEF TidyInv, Denies, TypeInv, TypeOK
    <2>5. QED
      BY <2>1, <2>3, <2>4 DEF TidyInv, OneSession, Denies, Applied
  <1>4. ASSUME NEW s \in Sessions, CaptureDone(s) \/ DenyDone(s) \/ RuntimeEnds(s)
        PROVE  TidyInv'
    <2>1. /\ UNCHANGED << acl, snaps, command, plan >>
          /\ phase'[s] \in Holding
          /\ phase'[s] \in Applied => Captured(s) = plan[s]
      BY <1>0, <1>4 DEF CaptureDone, DenyDone, RuntimeEnds, Goes, Holding, Applied, TidyInv
    <2>2. QED
      BY <2>1, TidyGoes DEF TidyInv
  <1>5. ASSUME NEW s \in Sessions, Deny(s) PROVE TidyInv'
    <2>1. PICK p \in First(plan[s] \ denied[s]) :
            /\ phase[s] = "denying"
            /\ \/ /\ phase'[s] = "denying"
                  /\ acl' = [acl EXCEPT ![p] = @ \cup {"guard"}]
               \/ phase'[s] = "undoing" /\ UNCHANGED acl
            /\ UNCHANGED << command, plan, snaps >>
      BY <1>0, <1>5 DEF Deny, Goes, history
    <2>2. p \in Paths /\ p \in plan[s] /\ Captured(s) = plan[s]
      BY <2>1 DEF First, TypeInv, TypeOK, TidyInv, Applied
    <2>3. \A q \in Paths : Denies(q)' => Denies(q) \/ q = p
      BY <2>1, <2>2 DEF Denies, TypeInv, TypeOK
    <2>4. Captured(s)' = Captured(s) /\ phase'[s] \in Holding
      BY <2>1 DEF Captured, Holding, Applied
    <2>5. \A q \in Paths : Denies(q)' =>
            \E t \in Sessions : phase'[t] \in Holding /\ q \in Captured(t)'
      BY <2>1, <2>2, <2>3, <2>4 DEF TidyInv, OneSession
    <2>6. QED
      BY <2>1, <2>2, <2>4, <2>5 DEF TidyInv, OneSession
  <1>6. ASSUME NEW s \in Sessions, Undo(s) \/ Restore(s) PROVE TidyInv'
    BY <1>0, <1>6, TidySetLast, TidyForgets DEF Undo, Restore, Goes
  <1>7. ASSUME NEW s \in Sessions, Verify(s) PROVE TidyInv'
    <2>1. command[s] # "lock"
      BY DEF TidyInv
    <2>2. /\ UNCHANGED << acl, snaps, command, plan >>
          /\ phase[s] = "locked" /\ phase'[s] \in {"running", "restoring"}
      BY <1>0, <1>7, <2>1 DEF Verify, Goes
    <2>3. QED
      BY <2>1, <2>2, TidyGoes DEF TidyInv, Holding, Applied
  <1>8. ASSUME NEW s \in Sessions, UnlockEntry(s) \/ UnlockDone(s) PROVE TidyInv'
    <2>1. phase[s] = "unlocking" /\ snaps[s] = {}
      BY <1>8 DEF UnlockEntry, UnlockDone, Goes, TypeInv
    <2>2. \A p \in Paths : ~Denies(p)
      BY <2>1 DEF TidyInv, OneSession, Holding, Applied
    <2>3. CASE Goes(s, "unlocking", "idle") /\ Forget(s)
      BY <1>0, <2>1, <2>3, TidyForgets DEF Goes
    <2>4. CASE \E p \in First(plan[s]) :
                 /\ acl' = [acl EXCEPT ![p] = {}]
                 /\ UNCHANGED << phase, command, snaps >>
      <3>1. \A p \in Paths : ~Denies(p)'
        BY <2>2, <2>4 DEF Denies, TypeInv, TypeOK, First
      <3>2. QED
        BY <2>1, <2>4, <3>1 DEF TidyInv, OneSession, Applied
    <2>5. QED
      BY <1>8, <2>3, <2>4 DEF UnlockEntry, UnlockDone
  <1>9. ASSUME NEW p \in Paths, Create(p) \/ EditLeaf(p) PROVE TidyInv'
    BY <1>9 DEF Create, EditLeaf, sessionVars, TidyInv, Denies, Captured
  <1>10. ASSUME NEW p \in Paths, Remove(p) PROVE TidyInv'
    <2>1. UNCHANGED << phase, command, plan, snaps >>
      BY <1>10 DEF Remove, sessionVars
    <2>2. \A q \in Paths : Denies(q)' => Denies(q)
      BY <1>10, RemoveKeeps
    <2>3. QED
      BY <2>1, <2>2 DEF TidyInv, Captured
  <1>11. ASSUME NEW s \in Sessions, Crash(s) PROVE TidyInv'
    BY <1>11 DEF Crash
  <1>12. CASE UNCHANGED vars
    BY <1>12 DEF vars, sessionVars, TidyInv, Denies, Captured
  <1>13. QED
    BY <1>1, <1>2, <1>3, <1>4, <1>5, <1>6, <1>7, <1>8, <1>9, <1>10, <1>11, <1>12,
       GuardAssumption DEF Next

(* What stale guards come from: without the lock command, a kill or a       *)
(* descriptor that could not be restored, and one command at a time, the    *)
(* tree can always be put right for an unlock.                              *)
THEOREM RecoveryOpen ==
    ASSUME OneSession, "lock" \notin Commands, Faults \cap {"set", "crash"} = {}
    PROVE  Spec => []RecoveryPossible
  <1>1. Init => TidyInv
    BY TidyInit
  <1>2. TypeInv /\ PlaceInv /\ TidyInv /\ [Next]_vars => TidyInv'
    BY TidyStep
  <1>3. PlaceInv /\ TidyInv => RecoveryPossible
    <2> SUFFICES ASSUME PlaceInv, TidyInv, \A s \in Sessions : phase[s] = "idle",
                        NEW l \in Baseline
                 PROVE  /\ \A p \in Way(l) : ~Exists(p) => MayCreate(p)
                        /\ file[l] = "changed" => ~Denies(l)
      BY DEF RecoveryPossible
    <2>1. \A p \in Paths : ~Denies(p)
      BY DEF TidyInv, Holding, Applied
    <2>2. ASSUME NEW p \in Way(l), ~Exists(p), p \notin Movable PROVE ~Denies(Parent[p])
      <3>1. p \in Paths /\ p # Root
        BY <2>2 DEF PlaceInv, TreeShaped, Way
      <3>2. Parent[p] \in Paths
        BY <2>2, <3>1, GuardAssumption
      <3>3. QED
        BY <2>1, <3>2
    <2>3. QED
      BY <2>1, <2>2, GuardAssumption DEF MayCreate
  <1>4. QED
    BY <1>1, <1>2, <1>3, TypeInvariant, PlaceInvariant, PTL DEF Spec

-----------------------------------------------------------------------------
(* The project's own deny entries, for any number of commands at once: what *)
(* is captured has the entries of the project, so setting it back keeps     *)
(* them, whatever has happened to the guard's own in the meantime.          *)

OwnInv ==
    "unlock" \notin events =>
         /\ \A p \in Paths \ swapped : "own" \in acl[p] <=> "own" \in prior[p]
         /\ \A s \in Sessions : \A x \in snaps[s] :
              x.path \notin swapped => ("own" \in x.acl <=> "own" \in prior[x.path])

LEMMA OwnInit == Init => OwnInv
  BY DEF Init, OwnInv

\* A step that leaves descriptors alone and captures nothing.
LEMMA OwnGoes ==
    ASSUME OwnInv, UNCHANGED << acl, prior, swapped >>, events \subseteq events',
           \A t \in Sessions : snaps'[t] \subseteq snaps[t]
    PROVE  OwnInv'
  BY DEF OwnInv

LEMMA OwnForgets ==
    ASSUME TypeInv, OwnInv, NEW s \in Sessions, Forget(s), UNCHANGED swapped,
           events \subseteq events'
    PROVE  OwnInv'
  BY OwnGoes DEF Forget, TypeInv, TypeOK

LEMMA OwnSetLast ==
    ASSUME TypeInv, OwnInv, NEW s \in Sessions, SetLast(s)
    PROVE  OwnInv'
  <1>1. PICK snap \in snaps[s] :
          /\ acl' = [acl EXCEPT ![snap.path] = snap.acl] \/ UNCHANGED acl
          /\ events \subseteq events'
          /\ snaps' = [snaps EXCEPT ![s] = @ \ {snap}]
          /\ UNCHANGED << prior, swapped >>
    BY DEF SetLast, Happens
  <1>2. \A t \in Sessions : snaps'[t] \subseteq snaps[t]
    BY <1>1 DEF TypeInv, TypeOK
  <1>3. CASE UNCHANGED acl
    BY <1>1, <1>2, <1>3, OwnGoes
  <1>4. CASE acl' = [acl EXCEPT ![snap.path] = snap.acl]
    <2>1. snap.path \in Paths
      BY DEF TypeInv, TypeOK, Snapshots
    <2>2. \A p \in Paths : acl'[p] = IF p = snap.path THEN snap.acl ELSE acl[p]
      BY <1>4, <2>1 DEF TypeInv, TypeOK
    <2>3. QED
      BY <1>1, <1>2, <2>2 DEF OwnInv
  <1>5. QED
    BY <1>1, <1>3, <1>4

LEMMA OwnStep == TypeInv /\ OwnInv /\ [Next]_vars => OwnInv'
  <1> SUFFICES ASSUME TypeInv, OwnInv, [Next]_vars PROVE OwnInv'
    OBVIOUS
  <1>1. ASSUME NEW s \in Sessions,
               \/ Begin(s) \/ Select(s) \/ CaptureDone(s) \/ DenyDone(s)
               \/ RuntimeEnds(s) \/ SelectUnlock(s)
        PROVE  OwnInv'
    BY <1>1, OwnGoes
       DEF Begin, Select, CaptureDone, DenyDone, RuntimeEnds, SelectUnlock, history
  <1>2. ASSUME NEW s \in Sessions, Capture(s) PROVE OwnInv'
    <2>1. PICK p \in plan[s] :
            /\ \/ snaps' = [snaps EXCEPT ![s] = @ \cup {[path |-> p, acl |-> acl[p]]}]
               \/ UNCHANGED snaps
            /\ UNCHANGED << acl, prior, swapped, events >>
      BY <1>2 DEF Capture, First, history
    <2>2. p \in Paths
      BY DEF TypeInv, TypeOK
    <2>3. \A t \in Sessions : \A x \in snaps'[t] :
            x \in snaps[t] \/ (x.path = p /\ x.acl = acl[p])
      BY <2>1 DEF TypeInv, TypeOK
    <2>4. QED
      BY <2>1, <2>2, <2>3 DEF OwnInv
  <1>3. ASSUME NEW s \in Sessions, Deny(s) PROVE OwnInv'
    <2>1. PICK p \in plan[s] :
            /\ acl' = [acl EXCEPT ![p] = @ \cup {"guard"}] \/ UNCHANGED acl
            /\ UNCHANGED << prior, swapped, events, snaps >>
      BY <1>3 DEF Deny, First, history
    <2>2. \A q \in Paths : "own" \in acl'[q] <=> "own" \in acl[q]
      BY <2>1 DEF TypeInv, TypeOK
    <2>3. QED
      BY <2>1, <2>2 DEF OwnInv
  <1>4. ASSUME NEW s \in Sessions, Undo(s) \/ Restore(s) PROVE OwnInv'
    BY <1>4, OwnSetLast, OwnForgets DEF Undo, Restore
  <1>5. ASSUME NEW s \in Sessions, Verify(s) PROVE OwnInv'
    BY <1>5, OwnGoes, OwnForgets DEF Verify, history, Happens
  <1>6. ASSUME NEW s \in Sessions, UnlockEntry(s) \/ UnlockDone(s) PROVE OwnInv'
    <2>1. CASE Happens("unlock")
      BY <2>1 DEF Happens, OwnInv
    <2>2. CASE Forget(s) /\ UNCHANGED << events, kept, swapped >>
      BY <2>2, OwnForgets
    <2>3. QED
      BY <1>6, <2>1, <2>2 DEF UnlockEntry, UnlockDone
  <1>7. ASSUME NEW s \in Sessions, Crash(s) PROVE OwnInv'
    BY <1>7, OwnForgets DEF Crash, Happens
  <1>8. ASSUME NEW p \in Paths, Create(p) \/ EditLeaf(p) PROVE OwnInv'
    BY <1>8, OwnGoes DEF Create, EditLeaf, history, sessionVars
  <1>9. ASSUME NEW p \in Paths, Remove(p) PROVE OwnInv'
    <2>1. UNCHANGED << events, snaps >>
      BY <1>9 DEF Remove, sessionVars
    <2>2. ASSUME NEW q \in Paths
          PROVE  \/ acl'[q] = {} /\ prior'[q] = {}
                 \/ UNCHANGED << acl[q], prior[q] >> /\ (q \in swapped' <=> q \in swapped)
      BY <1>9, <2>1 DEF Remove
    <2>3. ASSUME NEW s \in Sessions, NEW x \in snaps[s], x.path \notin swapped'
          PROVE  \/ x.acl = {} /\ prior'[x.path] = {}
                 \/ UNCHANGED prior[x.path] /\ x.path \notin swapped
      <3>1. x.path \in Paths
        BY DEF TypeInv, TypeOK, Snapshots
      <3>2. QED
        BY <1>9, <2>3, <3>1 DEF Remove
    <2>4. QED
      BY <2>1, <2>2, <2>3 DEF OwnInv
  <1>10. CASE UNCHANGED vars
    BY <1>10, OwnGoes DEF vars, history, sessionVars
  <1>11. QED
    BY <1>1, <1>2, <1>3, <1>4, <1>5, <1>6, <1>7, <1>8, <1>9, <1>10,
       GuardAssumption DEF Next

(* However many commands overlap, fail or are killed, the deny entries of   *)
(* the project's own, on directories and files, are as it made them until   *)
(* an unlock runs, or, by name, until what had them is replaced.            *)
THEOREM OwnStays == Spec => []OwnEntriesKept
  <1>1. PlaceInv /\ OwnInv => OwnEntriesKept
    BY DEF PlaceInv, OwnInv, OwnEntriesKept
  <1>2. QED
    BY <1>1, OwnInit, OwnStep, TypeInvariant, PlaceInvariant, PTL DEF Spec

-----------------------------------------------------------------------------
(* The sealed tree.  What a lock command has left is denied, exists, and is *)
(* captured with its denial by whoever comes later.                         *)

KeptInv ==
    /\ \A p \in kept : Denies(p) /\ Exists(p)
    /\ \A s \in Sessions :
         /\ \A x \in snaps[s] : x.path \in kept => "guard" \in x.acl
         /\ phase[s] \in Applied => \A p \in denied[s] \cap Anchored : Exists(p)

LEMMA KeptInit == Init => KeptInv
  BY DEF Init, KeptInv, Applied

\* A step that leaves descriptors and files alone and captures nothing.
LEMMA KeptGoes ==
    ASSUME OneSession, TypeInv, KeptInv, NEW s \in Sessions,
           UNCHANGED << acl, file, kept >>, snaps'[s] \subseteq snaps[s],
           phase'[s] \in Applied => denied'[s] = {} \/ (phase[s] \in Applied /\ UNCHANGED denied)
    PROVE  KeptInv'
  BY DEF OneSession, KeptInv, Denies, Exists

LEMMA KeptForgets ==
    ASSUME OneSession, TypeInv, KeptInv, NEW s \in Sessions, Forget(s),
           UNCHANGED kept,
           phase' = [phase EXCEPT ![s] = "idle"]
    PROVE  KeptInv'
  BY KeptGoes DEF Forget, TypeInv, TypeOK, Applied

LEMMA KeptSetLast ==
    ASSUME OneSession, TypeInv, KeptInv, NEW s \in Sessions, SetLast(s),
           phase[s] \in {"undoing", "restoring"}
    PROVE  KeptInv'
  <1>1. PICK snap \in snaps[s] :
          /\ acl' = [acl EXCEPT ![snap.path] = snap.acl] \/ UNCHANGED acl
          /\ snaps' = [snaps EXCEPT ![s] = @ \ {snap}]
          /\ UNCHANGED << kept, file, phase >>
    BY DEF SetLast
  <1>2. \A p \in kept : Denies(p)'
    BY <1>1 DEF KeptInv, Denies, TypeInv, TypeOK, Snapshots
  <1>3. snaps'[s] \subseteq snaps[s]
    BY <1>1 DEF TypeInv, TypeOK
  <1>4. QED
    BY <1>1, <1>2, <1>3 DEF KeptInv, OneSession, Exists, Applied

LEMMA KeptStep ==
    OneSession /\ TypeInv /\ PlaceInv /\ LockInv /\ KeptInv /\ [Next]_vars => KeptInv'
  <1> SUFFICES ASSUME OneSession, TypeInv, PlaceInv, LockInv, KeptInv, [Next]_vars
               PROVE  KeptInv'
    OBVIOUS
  <1>0. phase \in [Sessions -> Phases]
    BY DEF TypeInv, TypeOK
  <1>1. ASSUME NEW s \in Sessions,
               Begin(s) \/ Select(s) \/ SelectUnlock(s) \/ CaptureDone(s) \/ DenyDone(s)
                 \/ RuntimeEnds(s)
        PROVE  KeptInv'
    <2>1. /\ UNCHANGED << acl, file, kept, snaps, denied >>
          /\ phase'[s] \in Applied => phase[s] \in Applied \/ phase[s] = "capturing"
      BY <1>0, <1>1 DEF Begin, Select, SelectUnlock, CaptureDone, DenyDone, RuntimeEnds,
         Goes, Applied, history
    <2>2. QED
      BY <2>1, KeptGoes DEF TypeInv
  <1>2. ASSUME NEW s \in Sessions, Capture(s) PROVE KeptInv'
    <2>1. PICK p \in First(plan[s] \ Captured(s)) :
            /\ phase'[s] \in {"capturing", "undoing"}
            /\ \/ snaps' = [snaps EXCEPT ![s] = @ \cup {[path |-> p, acl |-> acl[p]]}]
               \/ UNCHANGED snaps
            /\ UNCHANGED << acl, file, kept >>
      BY <1>0, <1>2 DEF Capture, Goes, history
    <2>2. \A x \in snaps'[s] : x.path \in kept => "guard" \in x.acl
      BY <2>1 DEF KeptInv, Denies, TypeInv, TypeOK
    <2>3. QED
      BY <2>1, <2>2 DEF KeptInv, OneSession, Denies, Exists, Applied
  <1>3. ASSUME NEW s \in Sessions, Deny(s) PROVE KeptInv'
    <2>1. PICK p \in First(plan[s] \ denied[s]) :
            /\ phase[s] = "denying"
            /\ \/ /\ Exists(p) /\ phase'[s] = "denying"
                  /\ acl' = [acl EXCEPT ![p] = @ \cup {"guard"}]
                  /\ denied' = [denied EXCEPT ![s] = @ \cup {p}]
               \/ phase'[s] = "undoing" /\ UNCHANGED << acl, denied >>
            /\ UNCHANGED << file, kept, snaps >>
      BY <1>0, <1>3 DEF Deny, Goes, history
    <2>2. \A q \in Paths : Denies(q) => Denies(q)'
      BY <2>1 DEF Denies, TypeInv, TypeOK, First
    <2>3. phase'[s] \in Applied => \A q \in denied'[s] \cap Anchored : Exists(q)
      BY <2>1 DEF KeptInv, TypeInv, TypeOK, Applied
    <2>4. QED
      BY <2>1, <2>2, <2>3 DEF KeptInv, OneSession, Exists, TypeInv, TypeOK
  <1>4. ASSUME NEW s \in Sessions, Undo(s) \/ Restore(s) PROVE KeptInv'
    BY <1>4, KeptSetLast, KeptForgets DEF Undo, Restore, Goes
  <1>5. ASSUME NEW s \in Sessions, Verify(s) PROVE KeptInv'
    <2>1. CASE /\ UNCHANGED << acl, file, kept, snaps, denied >>
               /\ phase[s] = "locked" /\ phase'[s] \in {"running", "restoring"}
      BY <2>1, KeptGoes DEF Applied
    <2>2. CASE /\ Goes(s, "locked", "idle") /\ Forget(s)
               /\ kept' = kept \cup { p \in plan[s] : Denies(p) }
      <3>1. \A p \in plan[s] : Denies(p) => Exists(p)
        BY DEF TypeInv, TypeOK, PlaceInv, Denies
      <3>2. phase'[s] = "idle" /\ snaps'[s] = {} /\ UNCHANGED << acl, file >>
        BY <1>0, <2>2 DEF Goes, Forget, TypeInv, TypeOK
      <3>3. QED
        BY <2>2, <3>1, <3>2 DEF KeptInv, OneSession, Denies, Exists, Applied
    <2>3. QED
      BY <1>0, <1>5, <2>1, <2>2 DEF Verify, Goes, history
  <1>6. ASSUME NEW s \in Sessions, UnlockEntry(s) PROVE KeptInv'
    <2>1. PICK p \in First(plan[s]) :
            /\ phase[s] = "unlocking"
            /\ \/ /\ acl' = [acl EXCEPT ![p] = {}] /\ kept' = kept \ {p}
                  /\ UNCHANGED << file, phase, snaps >>
               \/ Goes(s, "unlocking", "idle") /\ Forget(s) /\ UNCHANGED kept
      BY <1>6 DEF UnlockEntry
    <2>2. snaps[s] = {}
      BY <2>1 DEF TypeInv
    <2>3. CASE /\ acl' = [acl EXCEPT ![p] = {}] /\ kept' = kept \ {p}
               /\ UNCHANGED << file, phase, snaps >>
      <3>1. \A q \in kept' : Denies(q)'
        BY <2>3 DEF KeptInv, Denies, TypeInv, TypeOK
      <3>2. QED
        BY <2>1, <2>2, <2>3, <3>1 DEF KeptInv, OneSession, Exists, Applied
    <2>4. QED
      BY <2>1, <2>3, KeptForgets DEF Goes
  <1>7. ASSUME NEW s \in Sessions, UnlockDone(s) \/ Crash(s) PROVE KeptInv'
    BY <1>7, KeptForgets DEF UnlockDone, Crash, Goes
  <1>8. ASSUME NEW p \in Paths, Create(p) \/ EditLeaf(p) PROVE KeptInv'
    <2>1. UNCHANGED << acl, kept, phase, snaps, denied >>
      BY <1>8 DEF Create, EditLeaf, history, sessionVars
    <2>2. \A q \in Paths : Exists(q) => Exists(q)'
      BY <1>8 DEF Create, EditLeaf, Exists, TypeInv, TypeOK
    <2>3. QED
      BY <2>1, <2>2 DEF KeptInv, Denies, TypeInv, TypeOK
  <1>9. ASSUME NEW p \in Paths \ {Root}, Remove(p) PROVE KeptInv'
    <2>1. UNCHANGED << phase, snaps, denied >> /\ kept' = kept \ Inside[p]
      BY <1>9 DEF Remove, sessionVars
    <2>2. kept \subseteq Paths
      BY DEF TypeInv, TypeOK
    <2>3. \A q \in kept' : Denies(q)' /\ Exists(q)'
      BY <1>9, <2>1, <2>2, RemoveKeeps DEF KeptInv
    <2>4. ASSUME NEW s \in Sessions, phase[s] \in Applied, NEW q \in denied[s] \cap Anchored
          PROVE  Exists(q)'
      BY <1>9, <2>4, DeniedStays, RemoveKeeps DEF KeptInv, Anchored
    <2>5. QED
      BY <2>1, <2>3, <2>4 DEF KeptInv
  <1>10. CASE UNCHANGED vars
    BY <1>10 DEF vars, history, sessionVars, KeptInv, Denies, Exists
  <1>11. QED
    BY <1>1, <1>2, <1>3, <1>4, <1>5, <1>6, <1>7, <1>8, <1>9, <1>10,
       GuardAssumption DEF Next

\* What is sealed is denied.
LEMMA SealedDenies ==
    ASSUME LockInv, KeptInv, NEW p \in Sealed
    PROVE  Denies(p)
  BY DEF LockInv, KeptInv, Sealed, Applied

\* Each step of the guard and of the project is one of the sealed tree.
LEMMA TreeStep ==
    OneSession /\ TypeInv /\ PlaceInv /\ LockInv /\ KeptInv /\ [Next]_vars =>
       [Tree!Next]_(Tree!tree)
  <1> DEFINE content == [l \in Anchored \cap Leaves |-> file[l]]
  <1> SUFFICES ASSUME OneSession, TypeInv, PlaceInv, LockInv, KeptInv, [Next]_vars
               PROVE  Tree!Next \/ UNCHANGED << content, Sealed >>
    BY DEF Tree!tree
  <1>0. phase \in [Sessions -> Phases]
    BY DEF TypeInv, TypeOK
  <1>1. ASSUME NEW s \in Sessions,
               Begin(s) \/ Select(s) \/ SelectUnlock(s) \/ Capture(s) \/ CaptureDone(s)
                 \/ Deny(s) \/ Undo(s) \/ Restore(s) \/ UnlockDone(s)
        PROVE  UNCHANGED << content, Sealed >>
    <2>1. /\ phase[s] \notin {"locked", "running"} /\ phase'[s] \notin {"locked", "running"}
          /\ UNCHANGED << file, kept >>
      BY <1>0, <1>1 DEF Begin, Select, SelectUnlock, Capture, CaptureDone, Deny, Undo,
         Restore, SetLast, UnlockDone, Forget, Goes, history
    <2>2. QED
      BY <2>1 DEF Sealed, OneSession
  <1>2. ASSUME NEW s \in Sessions, DenyDone(s) PROVE Tree!Seal
    <2>1. /\ UNCHANGED << file, kept, plan >> /\ denied[s] = plan[s] /\ plan[s] \subseteq Paths
          /\ phase[s] = "denying" /\ phase'[s] = "locked"
      BY <1>0, <1>2 DEF DenyDone, Goes, history, TypeInv, TypeOK
    <2> DEFINE more == plan[s] \cap Anchored
    <2>2. Sealed' = Sealed \cup more
      BY <2>1 DEF Sealed, OneSession
    <2>3. ASSUME NEW p \in more
          PROVE  Way(p) \subseteq more /\ (p \in Leaves => file[p] # "missing")
      <3>1. Way(p) \subseteq plan[s]
        BY <2>1 DEF LockInv, Closed, Applied
      <3>2. Way(p) \subseteq Anchored
        BY AnchoredUp
      <3>3. Exists(p)
        BY <2>1 DEF KeptInv, Applied
      <3>4. QED
        BY <3>1, <3>2, <3>3 DEF Exists
    <2>4. more \in SUBSET Anchored /\ UNCHANGED content
      BY <2>1
    <2>5. QED
      BY <2>2, <2>3, <2>4 DEF Tree!Seal, Tree!There
  <1>3. ASSUME NEW s \in Sessions,
               Verify(s) \/ RuntimeEnds(s) \/ UnlockEntry(s) \/ Crash(s)
        PROVE  Tree!Unseal
    <2>1. UNCHANGED content
      BY <1>3 DEF Verify, RuntimeEnds, UnlockEntry, Crash, Forget
    <2>2. Sealed' \subseteq Sealed
      <3>1. CASE (Verify(s) /\ command[s] = "launch") \/ RuntimeEnds(s)
        <4>1. /\ phase[s] \in {"locked", "running"} /\ UNCHANGED << kept, plan >>
          BY <3>1 DEF Verify, RuntimeEnds, Goes, history
        <4>2. QED
          BY <4>1 DEF Sealed, OneSession
      <3>2. CASE Verify(s) /\ command[s] = "lock"
        <4>1. /\ phase[s] = "locked" /\ phase'[s] = "idle"
              /\ kept' \subseteq kept \cup plan[s] /\ plan[s] \subseteq Paths
          BY <1>0, <3>2 DEF Verify, Goes, TypeInv, TypeOK
        <4>2. QED
          BY <4>1 DEF Sealed, OneSession
      <3>3. CASE UnlockEntry(s) \/ Crash(s)
        <4>1. phase'[s] \notin {"locked", "running"} /\ kept' \subseteq kept
          BY <1>0, <3>3 DEF UnlockEntry, Crash, Goes
        <4>2. QED
          BY <4>1 DEF Sealed, OneSession
      <3>4. QED
        BY <1>3, <3>1, <3>2, <3>3 DEF Verify
    <2>3. QED
      BY <2>1, <2>2 DEF Tree!Unseal
  <1>4. ASSUME NEW p \in Paths \ {Root}, Create(p) \/ EditLeaf(p)
        PROVE  Tree!Next \/ UNCHANGED << content, Sealed >>
    <2>1. UNCHANGED Sealed
      BY <1>4 DEF Create, EditLeaf, history, sessionVars, Sealed
    <2>2. CASE p \notin Anchored \cap Leaves
      <3>1. \A l \in Anchored \cap Leaves : file'[l] = file[l]
        BY <1>4, <2>2, GuardAssumption DEF Create, EditLeaf, TypeInv, TypeOK
      <3>2. QED
        BY <2>1, <3>1
    <2>3. CASE p \in Anchored \cap Leaves
      <3>1. PICK new \in FileStates \ {"missing"} : file' = [file EXCEPT ![p] = new]
        BY <1>4, <2>3 DEF Create, EditLeaf, FileStates
      <3>2. content' = [content EXCEPT ![p] = new]
        <4>1. \A l \in Anchored \cap Leaves : file'[l] = IF l = p THEN new ELSE file[l]
          BY <3>1, GuardAssumption DEF TypeInv, TypeOK
        <4>2. QED
          BY <2>3, <4>1
      <3>3. CASE Create(p)
        <4>1. p \notin Movable
          BY GuardAssumption, <2>3
        <4>2. Parent[p] \notin Sealed
          BY <3>3, <4>1, SealedDenies DEF Create, MayCreate
        <4>3. Tree!Create(p)
          BY <2>1, <2>3, <3>1, <3>2, <3>3, <4>2 DEF Create, Exists, Tree!Create, Tree!There
        <4>4. QED
          BY <2>3, <4>3 DEF Tree!Next
      <3>4. CASE EditLeaf(p)
        <4>1. p \notin Sealed
          BY <3>4, SealedDenies DEF EditLeaf
        <4>2. Tree!Write(p)
          BY <2>1, <2>3, <3>1, <3>2, <3>4, <4>1 DEF EditLeaf, Exists, Tree!Write, Tree!There
        <4>3. QED
          BY <2>3, <4>2 DEF Tree!Next
      <3>5. QED
        BY <1>4, <3>3, <3>4
    <2>4. QED
      BY <2>2, <2>3
  <1>5. ASSUME NEW p \in Paths \ {Root}, Remove(p) PROVE Tree!Remove
    <2> DEFINE gone == Inside[p] \cap Anchored
    <2>1. \A e \in gone : ~(Way(e) \subseteq Sealed)
      <3> SUFFICES ASSUME NEW e \in gone, Way(e) \subseteq Sealed PROVE FALSE
        OBVIOUS
      <3>1. p \in Way(e) /\ p \notin Movable
        BY DEF Way, Anchored, IsAnchored
      <3>2. Parent[p] \in Paths /\ p \in Inside[Parent[p]]
        BY <3>1, GuardAssumption
      <3>3. Parent[p] \in Way(e)
        BY <3>2, GuardAssumption DEF Way
      <3>4. Denies(p) /\ Denies(Parent[p])
        BY <3>1, <3>3, SealedDenies
      <3>5. QED
        BY <1>5, <3>1, <3>4 DEF Remove, MayRemove
    <2>2. content' = [l \in Anchored \cap Leaves |-> IF l \in gone THEN "missing" ELSE content[l]]
      <3>1. \A l \in Anchored \cap Leaves :
              file'[l] = IF l \in gone THEN "missing" ELSE file[l]
        BY <1>5, GuardAssumption DEF Remove
      <3>2. QED
        BY <3>1
    <2>3. \A s \in Sessions : phase[s] \in {"locked", "running"} =>
            plan[s] \cap Anchored \cap Inside[p] = {}
      <3>1. \A s \in Sessions : phase[s] \in {"locked", "running"} =>
              \A q \in denied[s] \cap Anchored : q \notin Inside[p]
        BY <1>5, DeniedStays DEF Applied
      <3>2. QED
        BY <3>1 DEF LockInv
    <2>4. Sealed' = Sealed \ gone
      <3>1. kept' = kept \ Inside[p] /\ UNCHANGED << phase, plan >>
        BY <1>5 DEF Remove, sessionVars
      <3>2. QED
        BY <2>3, <3>1 DEF Sealed
    <2>5. gone \in SUBSET Anchored
      OBVIOUS
    <2>6. QED
      BY <2>1, <2>2, <2>4, <2>5 DEF Tree!Remove
  <1>6. CASE UNCHANGED vars
    BY <1>6 DEF vars, history, sessionVars, Sealed
  <1>7. QED
    BY <1>1, <1>2, <1>3, <1>4, <1>5, <1>6, GuardAssumption DEF Next, Tree!Next

(* One command at a time, the guard implements the sealed tree: locks seal  *)
(* at one stroke whatever they do to one entry after the other, and what a  *)
(* lock command has sealed stays so, through later launches, failures and   *)
(* kills, until an unlock.                                                  *)
THEOREM TreeIsSealed == ASSUME OneSession PROVE Spec => ImplementsSealedTree
  <1>1. Init => Tree!Init
    BY GuardAssumption DEF Init, Sealed, Tree!Init
  <1>2. TypeInv /\ PlaceInv /\ LockInv /\ KeptInv /\ [Next]_vars => KeptInv'
    BY KeptStep
  <1>3. TypeInv /\ PlaceInv /\ LockInv /\ KeptInv /\ [Next]_vars => [Tree!Next]_(Tree!tree)
    BY TreeStep
  <1>4. QED
    BY <1>1, <1>2, <1>3, KeptInit, LockInvariant, TypeInvariant, PlaceInvariant, PTL
       DEF Spec, ImplementsSealedTree, Tree!TreeSpec
=============================================================================
