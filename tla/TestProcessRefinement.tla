----------------------- MODULE TestProcessRefinement -----------------------
(***************************************************************************)
(* TestProcess implements RunSlot, for every instance: each step of a      *)
(* client, a guardian or Windows is a step of the slot or leaves it alone. *)
(***************************************************************************)
EXTENDS TestProcessSlotProofs

-----------------------------------------------------------------------------
(* The two components of the refinement mapping, one step of a guardian and *)
(* one write of the record at a time.                                       *)

LEMMA PhaseMoves ==
    ASSUME TypeInv, NEW r \in Starts, NEW to \in GuardianPhases,
           guardian' = [guardian EXCEPT ![r] = to]
    PROVE  /\ SlotPhases' = [SlotPhases EXCEPT ![r] = SlotPhase(to)]
           /\ SlotPhases[r] = SlotPhase(guardian[r])
  BY DEF SlotPhases, TypeInv, TypeOK

LEMMA PhaseStays ==
    ASSUME TypeInv, NEW r \in Starts, NEW to \in GuardianPhases,
           guardian' = [guardian EXCEPT ![r] = to],
           SlotPhase(to) = SlotPhase(guardian[r])
    PROVE  UNCHANGED SlotPhases
  BY DEF SlotPhases, TypeInv, TypeOK

LEMMA ShownIs ==
    ASSUME TypeInv, NEW r \in Starts, guardian[r] \in Holding, NEW s \in RecordStates
    PROVE  /\ Publish(r, s) => Shown' = r
           /\ record = RecordOf(r, s) => Shown = r
  <1>1. pid[r] \in Pids /\ cport[r] \in ControlPorts
    BY DEF TypeInv, Assigned, Alive, Holding
  <1>2. RecordOf(r, s) # NoRun /\ RecordOf(r, s).run = r
    BY <1>1, RecordOfType DEF RecordOf
  <1>3. QED
    BY <1>2 DEF Publish, Shown

\* Nobody is inside the lease while no handle of the mutex is open.
LEMMA SlotIsFree ==
    ASSUME TypeInv, LeaseInv, LeaseIsNew
    PROVE  Slot!Free
  <1> SUFFICES ASSUME NEW q \in Starts PROVE SlotPhases[q] \notin Slot!Occupying
    BY DEF Slot!Free
  <1>1. guardian[q] \notin Holding
    <2>1. Insiders = {}
      BY DEF LeaseInv, LeaseIsNew
    <2>2. QED
      BY <2>1 DEF Insiders
  <1>2. guardian[q] \in { "none", "boot", "bound", "refused", "exiting", "dead" }
    BY <1>1 DEF TypeInv, TypeOK, GuardianPhases, Holding
  <1>3. QED
    BY <1>2 DEF SlotPhases, SlotPhase, Slot!Occupying

(* A client that is about to remove the record finds it unoccupied.         *)
LEMMA UnlinkForgets ==
    ASSUME TypeInv, record' = NoRun, UNCHANGED guardian,
           \A q \in Starts : guardian[q] \notin Holding
    PROVE  [Slot!Next]_(Slot!slot)
  <1>1. UNCHANGED SlotPhases /\ Shown' = NoRun
    BY DEF SlotPhases, Shown
  <1>2. CASE record = NoRun
    BY <1>1, <1>2 DEF Shown, Slot!slot
  <1>3. CASE record # NoRun
    <2>1. record.run \in Starts /\ Shown = record.run
      BY <1>3 DEF TypeInv, TypeOK, Records, Shown
    <2>2. guardian[record.run] \in { "none", "boot", "bound", "refused", "exiting", "dead" }
      BY <2>1 DEF TypeInv, TypeOK, GuardianPhases, Holding
    <2>3. SlotPhases[Shown] \notin Slot!Occupying
      BY <2>1, <2>2 DEF SlotPhases, SlotPhase, Slot!Occupying
    <2>4. Shown # NoRun
      BY <2>1, ConstantsAssumption
    <2>5. QED
      BY <1>1, <2>3, <2>4 DEF Slot!Forget, Slot!Next
  <1>4. QED
    BY <1>2, <1>3

-----------------------------------------------------------------------------
LEMMA SlotInit == Init => Slot!Init
  <1> SUFFICES ASSUME Init PROVE Slot!Init
    OBVIOUS
  <1>1. \A r \in Starts : SlotPhases[r] = IF r \in Past THEN "gone" ELSE "new"
    BY DEF Init, SlotPhases, SlotPhase
  <1>2. SlotPhases \in [Starts -> {"new", "gone"}]
    BY <1>1 DEF SlotPhases
  <1>3. Shown \in Past \cup {NoRun}
    BY DEF Init, Shown
  <1>4. QED
    BY <1>1, <1>2, <1>3, ConstantsAssumption DEF Slot!Init

(* A guardian that moves on without writing the record takes a step of the  *)
(* slot, or none.                                                           *)
LEMMA GuardianMoves ==
    ASSUME TypeInv, UNCHANGED record, NEW r \in Starts,
           NEW from \in GuardianPhases, NEW to \in GuardianPhases, Goes(r, from, to),
           \/ SlotPhase(to) = SlotPhase(from)
           \/ <<SlotPhase(from), SlotPhase(to)>> \in
                 { <<"new", "gone">>, <<"owned", "leaving">>, <<"ready", "stopping">>,
                   <<"stopping", "ready">>, <<"stopping", "leaving">>, <<"leaving", "gone">> }
    PROVE  [Slot!Next]_(Slot!slot)
  <1>1. UNCHANGED Shown
    BY DEF Shown
  <1>2. CASE SlotPhase(to) = SlotPhase(from)
    BY <1>1, <1>2, PhaseStays DEF Goes, Slot!slot
  <1>3. CASE SlotPhase(to) # SlotPhase(from)
    <2>1. /\ SlotPhases' = [SlotPhases EXCEPT ![r] = SlotPhase(to)]
          /\ SlotPhases[r] = SlotPhase(from)
      BY PhaseMoves DEF Goes
    <2>2. Slot!Vanish(r) \/ Slot!Leave(r) \/ Slot!BeginStop(r) \/ Slot!FailStop(r)
      BY <1>1, <1>3, <2>1
         DEF Slot!Vanish, Slot!Leave, Slot!BeginStop, Slot!FailStop, Slot!Moves
    <2>3. QED
      BY <2>2 DEF Slot!Next
  <1>4. QED
    BY <1>2, <1>3

(* Neither the guardians nor the record moved.                              *)
LEMMA SlotUntouched ==
    ASSUME UNCHANGED << guardian, record >>
    PROVE  [Slot!Next]_(Slot!slot)
  BY DEF Slot!slot, SlotPhases, Shown

(* Every step of the helper is a step of the slot, or none.                 *)
LEMMA SlotStep ==
    TypeInv /\ LeaseInv /\ SpawnInv /\ RecordInv /\ [Next]_vars
        => [Slot!Next]_(Slot!slot)
  <1> SUFFICES ASSUME TypeInv, LeaseInv, SpawnInv, RecordInv, [Next]_vars
               PROVE  [Slot!Next]_(Slot!slot)
    OBVIOUS
  <1> USE DEF slotVars, procVars
  <1>1. ASSUME NEW r \in Starts,
            StartProbe(r) \/ StartOpenLease(r) \/
            StartInspect(r) \/ StartRelease(r) \/
            StartRead(r) \/ StartVerify(r) \/ StartGiveUp(r)
            \/ StartCrash(r) \/ ReapLease(r) \/ ReapJob(r)
            \/ JobEnds(r) \/ AppListens(r) \/ AppCloses(r)
         PROVE [Slot!Next]_(Slot!slot)
    BY <1>1, SlotUntouched DEF StartProbe, StartOpenLease, StartInspect,
       StartRelease, StartRead, StartVerify, StartGiveUp, StartCrash,
       ReapLease, ReapJob, JobEnds, AppListens, AppCloses
  <1>2. ASSUME ForeignListener
         PROVE [Slot!Next]_(Slot!slot)
    BY <1>2, SlotUntouched DEF ForeignListener
  <1>3. ASSUME NEW k \in Stops,
            StopRead(k) \/ StopVerify(k) \/ StopConnect(k)
            \/ StopAnswered(k) \/ StopTimeout(k)
         PROVE [Slot!Next]_(Slot!slot)
    BY <1>3, SlotUntouched DEF StopRead, StopVerify, StopConnect,
       StopAnswered, StopTimeout
  <1>4. ASSUME NEW m \in Cleaners,
            CleanOpenLease(m) \/ CleanInspect(m) \/
            CleanRelease(m)
         PROVE [Slot!Next]_(Slot!slot)
    BY <1>4, SlotUntouched DEF CleanOpenLease, CleanInspect, CleanRelease
  <1>5. ASSUME NEW r \in Starts, StartUnlink(r) PROVE [Slot!Next]_(Slot!slot)
    <2>1. \A q \in Starts : guardian[q] \notin Holding
      BY <1>5, NoClientInside DEF StartUnlink, StartGoes
    <2>2. QED
      BY <1>5, <2>1, UnlinkForgets DEF StartUnlink
  <1>6. ASSUME NEW m \in Cleaners, CleanUnlink(m) PROVE [Slot!Next]_(Slot!slot)
    <2>1. \A q \in Starts : guardian[q] \notin Holding
      BY <1>6, NoClientInside DEF CleanUnlink, CleanGoes
    <2>2. QED
      BY <1>6, <2>1, UnlinkForgets DEF CleanUnlink
  <1>7. ASSUME NEW r \in Starts, StartSpawn(r) PROVE [Slot!Next]_(Slot!slot)
    <2>1. guardian[r] = "none" /\ guardian' = [guardian EXCEPT ![r] = "boot"]
      BY <1>7 DEF StartSpawn, StartGoes, SpawnInv, Unspawned
    <2>2. UNCHANGED SlotPhases
      BY <2>1, PhaseStays DEF SlotPhase, GuardianPhases
    <2>3. QED
      BY <1>7, <2>2 DEF StartSpawn, Shown, Slot!slot
  <1>8. ASSUME NEW r \in Starts, GuardianBind(r) PROVE [Slot!Next]_(Slot!slot)
    <2>1. CASE Goes(r, "boot", "bound")
      BY <1>8, <2>1, GuardianMoves DEF GuardianBind, GuardianPhases, SlotPhase
    <2>2. CASE Goes(r, "boot", "exiting")
      BY <1>8, <2>2, GuardianMoves DEF GuardianBind, GuardianPhases, SlotPhase
    <2>3. QED
      BY <1>8, <2>1, <2>2 DEF GuardianBind
  <1>9. ASSUME NEW r \in Starts, GuardianOpenLease(r) PROVE [Slot!Next]_(Slot!slot)
    <2>1. CASE LeaseIsNew
      <3>1. Slot!Free
        BY <2>1, SlotIsFree
      <3>2. guardian[r] = "bound" /\ guardian' = [guardian EXCEPT ![r] = "leased"]
        BY <1>9, <2>1 DEF GuardianOpenLease, Goes
      <3>3. SlotPhases' = [SlotPhases EXCEPT ![r] = "owned"] /\ SlotPhases[r] = "new"
        BY <3>2, PhaseMoves DEF SlotPhase, GuardianPhases
      <3>4. UNCHANGED Shown
        BY <1>9 DEF GuardianOpenLease, Shown
      <3>5. QED
        BY <3>1, <3>3, <3>4 DEF Slot!Claim, Slot!Moves, Slot!Next
    <2>2. CASE ~LeaseIsNew
      <3>1. Goes(r, "bound", "refused")
        BY <1>9, <2>2 DEF GuardianOpenLease
      <3>2. QED
        BY <1>9, <3>1, GuardianMoves DEF GuardianOpenLease, GuardianPhases, SlotPhase
    <2>3. QED
      BY <2>1, <2>2
  <1>10. ASSUME NEW r \in Starts, GuardianRefused(r) PROVE [Slot!Next]_(Slot!slot)
    <2>1. CASE Goes(r, "refused", "exiting")
      BY <1>10, <2>1, GuardianMoves DEF GuardianRefused, GuardianPhases, SlotPhase
    <2>2. QED
      BY <1>10, <2>1 DEF GuardianRefused
  <1>11. ASSUME NEW r \in Starts, GuardianLaunch(r) PROVE [Slot!Next]_(Slot!slot)
    <2>1. CASE Goes(r, "leased", "launched")
      BY <1>11, <2>1, GuardianMoves DEF GuardianLaunch, GuardianPhases, SlotPhase
    <2>2. CASE Goes(r, "leased", "closing")
      BY <1>11, <2>2, GuardianMoves DEF GuardianLaunch, GuardianPhases, SlotPhase
    <2>3. QED
      BY <1>11, <2>1, <2>2 DEF GuardianLaunch
  <1>12. ASSUME NEW r \in Starts, GuardianWriteStarting(r) PROVE [Slot!Next]_(Slot!slot)
    <2>1. CASE Goes(r, "launched", "polling") /\ Publish(r, "starting")
      <3>1. Shown' = r
        BY <2>1, ShownIs DEF Goes, Holding, RecordStates
      <3>2. UNCHANGED SlotPhases /\ SlotPhases[r] = "owned"
        BY <2>1, PhaseStays DEF Goes, SlotPhases, SlotPhase, GuardianPhases
      <3>3. QED
        BY <3>1, <3>2 DEF Slot!Show, Slot!Next
    <2>2. CASE Goes(r, "launched", "closing") /\ UNCHANGED record
      BY <2>2, GuardianMoves DEF GuardianPhases, SlotPhase
    <2>3. QED
      BY <1>12, <2>1, <2>2 DEF GuardianWriteStarting
  <1>13. ASSUME NEW r \in Starts, GuardianObserve(r) PROVE [Slot!Next]_(Slot!slot)
    <2>1. CASE Goes(r, "polling", "owned")
      BY <1>13, <2>1, GuardianMoves DEF GuardianObserve, GuardianPhases, SlotPhase
    <2>2. CASE Goes(r, "polling", "closing")
      BY <1>13, <2>2, GuardianMoves DEF GuardianObserve, GuardianPhases, SlotPhase
    <2>3. QED
      BY <1>13, <2>1, <2>2 DEF GuardianObserve
  <1>14. ASSUME NEW r \in Starts, GuardianObserveAgain(r) PROVE [Slot!Next]_(Slot!slot)
    <2>1. CASE Goes(r, "owned", "polling")
      BY <1>14, <2>1, GuardianMoves DEF GuardianObserveAgain, GuardianPhases, SlotPhase
    <2>2. QED
      BY <1>14, <2>1 DEF GuardianObserveAgain
  <1>15. ASSUME NEW r \in Starts, GuardianReady(r) PROVE [Slot!Next]_(Slot!slot)
    <2>1. CASE Goes(r, "owned", "serving") /\ Publish(r, "ready")
      <3>1. Shown = r /\ Shown' = r
        BY <2>1, ShownIs DEF Goes, Holding, RecordInv, RecordStates
      <3>2. SlotPhases' = [SlotPhases EXCEPT ![r] = "ready"] /\ SlotPhases[r] = "owned"
        BY <2>1, PhaseMoves DEF Goes, SlotPhase, GuardianPhases
      <3>3. QED
        BY <3>1, <3>2 DEF Slot!Offer, Slot!Moves, Slot!Next
    <2>2. CASE Goes(r, "owned", "closing") /\ UNCHANGED record
      BY <2>2, GuardianMoves DEF GuardianPhases, SlotPhase
    <2>3. QED
      BY <1>15, <2>1, <2>2 DEF GuardianReady
  <1>16. ASSUME NEW r \in Starts, GuardianFail(r) PROVE [Slot!Next]_(Slot!slot)
    <2>1. CASE /\ Publish(r, "failed")
               /\ Goes(r, "polling", "failing") \/ Goes(r, "owned", "failing")
      <3>1. Shown = r /\ Shown' = r
        <4>1. guardian[r] \in { "polling", "owned" }
          BY <2>1 DEF Goes
        <4>2. record = RecordOf(r, "starting")
          BY <4>1 DEF RecordInv
        <4>3. guardian[r] \in Holding /\ "starting" \in RecordStates /\ "failed" \in RecordStates
          BY <4>1 DEF Holding, RecordStates
        <4>4. Publish(r, "failed")
          BY <2>1
        <4>5. QED
          BY <4>2, <4>3, <4>4, ShownIs
      <3>2. UNCHANGED SlotPhases
        BY <2>1, PhaseStays DEF Goes, SlotPhase, GuardianPhases
      <3>3. QED
        BY <3>1, <3>2 DEF Slot!slot
    <2>2. CASE UNCHANGED record /\ Goes(r, "polling", "closing")
      BY <2>2, GuardianMoves DEF GuardianPhases, SlotPhase
    <2>3. CASE UNCHANGED record /\ Goes(r, "owned", "closing")
      BY <2>3, GuardianMoves DEF GuardianPhases, SlotPhase
    <2>4. QED
      BY <1>16, <2>1, <2>2, <2>3 DEF GuardianFail
  <1>17. ASSUME NEW r \in Starts, GuardianKillFailed(r) PROVE [Slot!Next]_(Slot!slot)
    <2>1. CASE Goes(r, "failing", "closing")
      BY <1>17, <2>1, GuardianMoves DEF GuardianKillFailed, GuardianPhases, SlotPhase
    <2>2. QED
      BY <1>17, <2>1 DEF GuardianKillFailed
  <1>18. ASSUME NEW r \in Starts, GuardianAccept(r) PROVE [Slot!Next]_(Slot!slot)
    <2>1. CASE Goes(r, "serving", "stopping")
      BY <1>18, <2>1, GuardianMoves DEF GuardianAccept, GuardianPhases, SlotPhase
    <2>2. CASE Goes(r, "serving", "serving")
      BY <1>18, <2>2, GuardianMoves DEF GuardianAccept, GuardianPhases, SlotPhase
    <2>3. QED
      BY <1>18, <2>1, <2>2 DEF GuardianAccept
  <1>19. ASSUME NEW r \in Starts, GuardianWriteStopping(r) PROVE [Slot!Next]_(Slot!slot)
    <2>1. CASE Goes(r, "stopping", "terminating") /\ Publish(r, "stopping")
      <3>1. Shown = r /\ Shown' = r
        <4>1. guardian[r] = "stopping"
          BY <2>1 DEF Goes
        <4>2. record = RecordOf(r, "ready") \/ record = RecordOf(r, "stopping")
          BY <4>1 DEF RecordInv
        <4>3. QED
          BY <2>1, <4>1, <4>2, ShownIs DEF Holding, RecordStates
      <3>2. UNCHANGED SlotPhases
        BY <2>1, PhaseStays DEF Goes, SlotPhase, GuardianPhases
      <3>3. QED
        BY <3>1, <3>2 DEF Slot!slot
    <2>2. CASE Goes(r, "stopping", "serving") /\ UNCHANGED record
      BY <2>2, GuardianMoves DEF GuardianPhases, SlotPhase
    <2>3. QED
      BY <1>19, <2>1, <2>2 DEF GuardianWriteStopping, BackToServing
  <1>20. ASSUME NEW r \in Starts, GuardianTerminate(r) PROVE [Slot!Next]_(Slot!slot)
    <2>1. CASE Goes(r, "terminating", "draining")
      BY <1>20, <2>1, GuardianMoves DEF GuardianTerminate, GuardianPhases, SlotPhase
    <2>2. CASE Goes(r, "terminating", "serving")
      BY <1>20, <2>2, GuardianMoves DEF GuardianTerminate, GuardianPhases, SlotPhase
    <2>3. QED
      BY <1>20, <2>1, <2>2 DEF GuardianTerminate, BackToServing
  <1>21. ASSUME NEW r \in Starts, GuardianDrain(r) PROVE [Slot!Next]_(Slot!slot)
    <2>1. CASE Goes(r, "draining", "reporting")
      BY <1>21, <2>1, GuardianMoves DEF GuardianDrain, GuardianPhases, SlotPhase
    <2>2. CASE Goes(r, "draining", "serving")
      BY <1>21, <2>2, GuardianMoves DEF GuardianDrain, GuardianPhases, SlotPhase
    <2>3. QED
      BY <1>21, <2>1, <2>2 DEF GuardianDrain, BackToServing
  <1>22. ASSUME NEW r \in Starts, GuardianReport(r) PROVE [Slot!Next]_(Slot!slot)
    <2>1. CASE Goes(r, "reporting", "closing")
      BY <1>22, <2>1, GuardianMoves DEF GuardianReport, GuardianPhases, SlotPhase
    <2>2. CASE Goes(r, "reporting", "serving")
      BY <1>22, <2>2, GuardianMoves DEF GuardianReport, GuardianPhases, SlotPhase
    <2>3. QED
      BY <1>22, <2>1, <2>2 DEF GuardianReport, BackToServing
  <1>23. ASSUME NEW r \in Starts, GuardianCloseJob(r) PROVE [Slot!Next]_(Slot!slot)
    <2>1. CASE Goes(r, "closing", "releasing")
      BY <1>23, <2>1, GuardianMoves DEF GuardianCloseJob, GuardianPhases, SlotPhase
    <2>2. QED
      BY <1>23, <2>1 DEF GuardianCloseJob
  <1>24. ASSUME NEW r \in Starts, GuardianCloseLease(r) PROVE [Slot!Next]_(Slot!slot)
    <2>1. CASE Goes(r, "releasing", "exiting")
      BY <1>24, <2>1, GuardianMoves DEF GuardianCloseLease, GuardianPhases, SlotPhase
    <2>2. QED
      BY <1>24, <2>1 DEF GuardianCloseLease
  <1>25. ASSUME NEW r \in Starts, GuardianExit(r) PROVE [Slot!Next]_(Slot!slot)
    <2>1. CASE Goes(r, "exiting", "dead")
      BY <1>25, <2>1, GuardianMoves DEF GuardianExit, GuardianPhases, SlotPhase
    <2>2. QED
      BY <1>25, <2>1 DEF GuardianExit
  <1>26. ASSUME NEW r \in Starts, GuardianCrash(r) PROVE [Slot!Next]_(Slot!slot)
    <2>1. SlotPhases' = [SlotPhases EXCEPT ![r] = "gone"] /\ UNCHANGED Shown
      BY <1>26, PhaseMoves DEF GuardianCrash, SlotPhase, GuardianPhases, Shown, slotVars
    <2>2. CASE SlotPhases[r] = "gone"
      BY <2>1, <2>2 DEF SlotPhases, Slot!slot
    <2>3. CASE SlotPhases[r] # "gone"
      BY <2>1, <2>3 DEF Slot!Vanish, Slot!Next
    <2>4. QED
      BY <2>2, <2>3
  <1>27. CASE UNCHANGED vars
    BY <1>27, SlotUntouched DEF vars
  <1>28. QED
    BY <1>1, <1>2, <1>3, <1>4, <1>5, <1>6, <1>7, <1>8, <1>9, <1>10, <1>11,
       <1>12, <1>13, <1>14, <1>15, <1>16, <1>17, <1>18, <1>19, <1>20, <1>21,
       <1>22, <1>23, <1>24, <1>25, <1>26, <1>27
       DEF Next, StartStep, GuardianStep, StopStep, CleanStep

(* The process helper implements the run slot: at most one run at a time    *)
(* occupies it, shows its record before it is offered, keeps the record     *)
(* while it is offered, and never comes back once it has gone.              *)
THEOREM Refinement == Spec => ImplementsRunSlot
  <1>1. QED
    BY SlotInit, SlotStep, TypeInvariant, LeaseInvariant, SpawnInvariant, RecordInvariant,
       PTL DEF Spec, ImplementsRunSlot, Slot!SlotSpec

(* What the abstract slot promises of runs holds of the protocol.           *)
Promised == INSTANCE RunSlotProofs WITH
                Runs <- Starts, None <- NoRun, phase <- SlotPhases, shown <- Shown

(* The record of a run that takes requests, or is serving one, is the one   *)
(* start and stop clients find, and at most one run is in the lease's       *)
(* region at a time, whatever clients, guardians and Windows do.            *)
THEOREM SlotKeepsPromises == Spec => [](Slot!OneOccupant /\ Slot!OfferedIsShown)
  <1>1. (Slot!Init => Promised!Init) /\ (Slot!slot = Promised!slot)
    BY DEF Slot!Init, Promised!Init, Slot!slot, Promised!slot
  <1>2. [Slot!Next]_(Slot!slot) => [Promised!Next]_(Promised!slot)
    <2>1. Slot!Next => Promised!Next
      BY DEF Slot!Next, Slot!Claim, Slot!Show, Slot!Offer, Slot!BeginStop, Slot!FailStop,
             Slot!Leave, Slot!Vanish, Slot!Forget, Slot!Free, Slot!Moves, Slot!Occupying,
             Promised!Next, Promised!Claim, Promised!Show, Promised!Offer,
             Promised!BeginStop, Promised!FailStop, Promised!Leave, Promised!Vanish,
             Promised!Forget, Promised!Free, Promised!Moves, Promised!Occupying
    <2>2. UNCHANGED Slot!slot => UNCHANGED Promised!slot
      BY DEF Slot!slot, Promised!slot
    <2>3. QED
      BY <2>1, <2>2
  <1>3. Promised!SlotInv => Slot!OneOccupant /\ Slot!OfferedIsShown
    BY DEF Promised!SlotInv, Promised!OneOccupant, Promised!OfferedIsShown,
           Slot!OneOccupant, Slot!OfferedIsShown, Promised!Occupying, Slot!Occupying
  <1>4. QED
    BY <1>1, <1>2, <1>3, Refinement, Promised!SlotInvariant,
       PTL DEF ImplementsRunSlot, Slot!SlotSpec, Promised!SlotSpec
=============================================================================
