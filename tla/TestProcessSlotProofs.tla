----------------------- MODULE TestProcessSlotProofs -----------------------
(***************************************************************************)
(* Who owns the record of a run slot, proved on top of the exclusive lease *)
(* (TestProcessProofs), and that TestProcess implements RunSlot.           *)
(***************************************************************************)
EXTENDS TestProcessProofs

-----------------------------------------------------------------------------
(* The record of the guardian inside the lease.  From its first write on,   *)
(* the record in the slot is its own, in the state its work has reached.    *)
(* After a stop that failed half-way (listening_pids raised, or             *)
(* TerminateJobObject failed) the record stays in state stopping.           *)

RecordInv ==
    \A r \in Starts :
        /\ guardian[r] \in { "polling", "owned" } => record = RecordOf(r, "starting")
        /\ guardian[r] = "failing" => record = RecordOf(r, "failed")
        /\ guardian[r] \in { "serving", "stopping" } =>
              \/ record = RecordOf(r, "ready")
              \/ record = RecordOf(r, "stopping") /\ Faults \cap {"probe", "kill"} # {}
        /\ guardian[r] \in { "terminating", "draining", "reporting" } =>
              record = RecordOf(r, "stopping")

LEMMA RecordInit == Init => RecordInv
  BY DEF Init, RecordInv

LEMMA RecordStep == TypeInv /\ LeaseInv /\ SpawnInv /\ RecordInv /\ [Next]_vars => RecordInv'
  <1> SUFFICES ASSUME TypeInv, LeaseInv, SpawnInv, RecordInv, [Next]_vars
               PROVE  RecordInv'
    OBVIOUS
  <1> USE DEF RecordInv, RecordOf, TypeInv, TypeOK, Holding, slotVars, startVars,
              procVars, appVars, stopVars
  <1>1. ASSUME NEW r \in Starts,
            StartProbe(r) \/ StartOpenLease(r) \/
            StartInspect(r) \/ StartRelease(r) \/
            StartRead(r) \/ StartVerify(r) \/ StartGiveUp(r)
            \/ StartCrash(r)
         PROVE RecordInv'
    BY <1>1 DEF StartProbe, StartOpenLease, StartInspect, StartRelease,
       StartRead, StartVerify, StartGiveUp, StartCrash
  <1>2. ASSUME NEW r \in Starts, StartUnlink(r) PROVE RecordInv'
    BY <1>2, NoClientInside DEF StartUnlink, StartGoes
  <1>3. ASSUME NEW r \in Starts, StartSpawn(r) PROVE RecordInv'
    BY <1>3 DEF StartSpawn, StartGoes, SpawnInv, Unspawned
  <1>4. ASSUME NEW r \in Starts, GuardianBind(r) PROVE RecordInv'
    BY <1>4 DEF GuardianBind, Goes
  <1>5. ASSUME NEW r \in Starts, GuardianOpenLease(r) PROVE RecordInv'
    BY <1>5 DEF GuardianOpenLease, Goes
  <1>6. ASSUME NEW r \in Starts, GuardianRefused(r) PROVE RecordInv'
    BY <1>6 DEF GuardianRefused, Goes
  <1>7. ASSUME NEW r \in Starts, GuardianLaunch(r) PROVE RecordInv'
    BY <1>7 DEF GuardianLaunch, Goes
  <1>8. ASSUME NEW r \in Starts, GuardianObserve(r) PROVE RecordInv'
    BY <1>8 DEF GuardianObserve, Goes
  <1>9. ASSUME NEW r \in Starts, GuardianObserveAgain(r) PROVE RecordInv'
    BY <1>9 DEF GuardianObserveAgain, Goes
  <1>10. ASSUME NEW r \in Starts, GuardianKillFailed(r) PROVE RecordInv'
    BY <1>10 DEF GuardianKillFailed, Goes
  <1>11. ASSUME NEW r \in Starts, GuardianAccept(r) PROVE RecordInv'
    BY <1>11 DEF GuardianAccept, Goes
  <1>12. ASSUME NEW r \in Starts, GuardianTerminate(r) PROVE RecordInv'
    BY <1>12 DEF GuardianTerminate, BackToServing, Goes
  <1>13. ASSUME NEW r \in Starts, GuardianDrain(r) PROVE RecordInv'
    BY <1>13 DEF GuardianDrain, BackToServing, Goes, ProbeFails
  <1>14. ASSUME NEW r \in Starts, GuardianReport(r) PROVE RecordInv'
    BY <1>14 DEF GuardianReport, BackToServing, Goes, ProbeFails
  <1>15. ASSUME NEW r \in Starts, GuardianCloseJob(r) PROVE RecordInv'
    BY <1>15 DEF GuardianCloseJob, Goes
  <1>16. ASSUME NEW r \in Starts, GuardianCloseLease(r) PROVE RecordInv'
    BY <1>16 DEF GuardianCloseLease, Goes
  <1>17. ASSUME NEW r \in Starts, GuardianExit(r) PROVE RecordInv'
    BY <1>17 DEF GuardianExit, Goes
  <1>18. ASSUME NEW r \in Starts, GuardianCrash(r) PROVE RecordInv'
    BY <1>18 DEF GuardianCrash
  <1>19. ASSUME NEW r \in Starts, GuardianWriteStarting(r) PROVE RecordInv'
    BY <1>19, OneGuardianInside DEF GuardianWriteStarting, Goes, Publish
  <1>20. ASSUME NEW r \in Starts, GuardianReady(r) PROVE RecordInv'
    BY <1>20, OneGuardianInside DEF GuardianReady, Goes, Publish
  <1>21. ASSUME NEW r \in Starts, GuardianFail(r) PROVE RecordInv'
    BY <1>21, OneGuardianInside DEF GuardianFail, Goes, Publish
  <1>22. ASSUME NEW r \in Starts, GuardianWriteStopping(r) PROVE RecordInv'
    BY <1>22, OneGuardianInside DEF GuardianWriteStopping, BackToServing,
       Goes, Publish
  <1>23. ASSUME NEW r \in Starts,
            ReapLease(r) \/ ReapJob(r) \/ JobEnds(r) \/
            AppListens(r) \/ AppCloses(r)
         PROVE RecordInv'
    BY <1>23 DEF ReapLease, ReapJob, JobEnds, AppListens, AppCloses
  <1>24. ASSUME ForeignListener PROVE RecordInv'
    BY <1>24 DEF ForeignListener
  <1>25. ASSUME NEW k \in Stops,
            StopRead(k) \/ StopVerify(k) \/ StopConnect(k)
            \/ StopAnswered(k) \/ StopTimeout(k)
         PROVE RecordInv'
    BY <1>25 DEF StopRead, StopVerify, StopConnect, StopAnswered, StopTimeout
  <1>26. ASSUME NEW m \in Cleaners,
            CleanOpenLease(m) \/ CleanInspect(m) \/
            CleanRelease(m)
         PROVE RecordInv'
    BY <1>26 DEF CleanOpenLease, CleanInspect, CleanRelease
  <1>27. ASSUME NEW m \in Cleaners, CleanUnlink(m) PROVE RecordInv'
    BY <1>27, NoClientInside DEF CleanUnlink, CleanGoes
  <1>28. CASE UNCHANGED vars
    BY <1>28 DEF vars
  <1>29. QED
    BY <1>1, <1>2, <1>3, <1>4, <1>5, <1>6, <1>7, <1>8, <1>9, <1>10, <1>11,
       <1>12, <1>13, <1>14, <1>15, <1>16, <1>17, <1>18, <1>19, <1>20, <1>21,
       <1>22, <1>23, <1>24, <1>25, <1>26, <1>27, <1>28
       DEF Next, StartStep, GuardianStep, StopStep, CleanStep

LEMMA RecordInvariant == Spec => []RecordInv
  <1>1. QED
    BY RecordInit, RecordStep, TypeInvariant, LeaseInvariant, SpawnInvariant, PTL DEF Spec

\* How the record of the slot may change: a client removes it, or a guardian
\* inside the lease publishes its own.
RecordChange ==
    \/ UNCHANGED record
    \/ \E q \in Starts : start[q] = "stale"
    \/ \E m \in Cleaners : clean[m] = "stale"
    \/ \E q \in Starts, s \in RecordStates : guardian[q] \in Holding /\ Publish(q, s)

LEMMA RecordChanges == [Next]_vars => RecordChange
  <1> SUFFICES ASSUME [Next]_vars PROVE RecordChange
    OBVIOUS
  <1> USE DEF RecordChange, slotVars
  <1>1. ASSUME NEW r \in Starts,
            StartProbe(r) \/ StartOpenLease(r) \/
            StartInspect(r) \/ StartRelease(r) \/
            StartSpawn(r) \/ StartRead(r) \/ StartVerify(r)
            \/ StartGiveUp(r) \/ StartCrash(r)
         PROVE RecordChange
    BY <1>1 DEF StartProbe, StartOpenLease, StartInspect, StartRelease,
       StartSpawn, StartRead, StartVerify, StartGiveUp, StartCrash
  <1>2. ASSUME NEW r \in Starts,
            GuardianBind(r) \/ GuardianOpenLease(r) \/
            GuardianRefused(r) \/ GuardianLaunch(r) \/
            GuardianObserve(r) \/ GuardianObserveAgain(r) \/
            GuardianKillFailed(r) \/ GuardianAccept(r) \/
            GuardianTerminate(r) \/ GuardianDrain(r) \/
            GuardianReport(r) \/ GuardianCloseJob(r) \/
            GuardianCloseLease(r) \/ GuardianExit(r) \/
            GuardianCrash(r) \/ ReapLease(r) \/ ReapJob(r)
            \/ JobEnds(r) \/ AppListens(r) \/ AppCloses(r)
         PROVE RecordChange
    BY <1>2 DEF GuardianBind, GuardianOpenLease, GuardianRefused,
       GuardianLaunch, GuardianObserve, GuardianObserveAgain,
       GuardianKillFailed, GuardianAccept, GuardianTerminate, BackToServing,
       GuardianDrain, GuardianReport, GuardianCloseJob, GuardianCloseLease,
       GuardianExit, GuardianCrash, ReapLease, ReapJob, JobEnds, AppListens,
       AppCloses
  <1>3. ASSUME ForeignListener PROVE RecordChange
    BY <1>3 DEF ForeignListener
  <1>4. ASSUME NEW k \in Stops,
            StopRead(k) \/ StopVerify(k) \/ StopConnect(k)
            \/ StopAnswered(k) \/ StopTimeout(k)
         PROVE RecordChange
    BY <1>4 DEF StopRead, StopVerify, StopConnect, StopAnswered, StopTimeout
  <1>5. ASSUME NEW m \in Cleaners,
            CleanOpenLease(m) \/ CleanInspect(m) \/
            CleanRelease(m)
         PROVE RecordChange
    BY <1>5 DEF CleanOpenLease, CleanInspect, CleanRelease
  <1>6. ASSUME NEW r \in Starts, StartUnlink(r) PROVE RecordChange
    BY <1>6 DEF StartUnlink, StartGoes
  <1>7. ASSUME NEW m \in Cleaners, CleanUnlink(m) PROVE RecordChange
    BY <1>7 DEF CleanUnlink, CleanGoes
  <1>8. ASSUME NEW r \in Starts, GuardianWriteStarting(r) PROVE RecordChange
    BY <1>8 DEF GuardianWriteStarting, Goes, BackToServing, Holding, RecordStates
  <1>9. ASSUME NEW r \in Starts, GuardianReady(r) PROVE RecordChange
    BY <1>9 DEF GuardianReady, Goes, BackToServing, Holding, RecordStates
  <1>10. ASSUME NEW r \in Starts, GuardianFail(r) PROVE RecordChange
    BY <1>10 DEF GuardianFail, Goes, BackToServing, Holding, RecordStates
  <1>11. ASSUME NEW r \in Starts, GuardianWriteStopping(r) PROVE RecordChange
    BY <1>11 DEF GuardianWriteStopping, Goes, BackToServing, Holding, RecordStates
  <1>12. CASE UNCHANGED vars
    BY <1>12 DEF vars
  <1>13. QED
    BY <1>1, <1>2, <1>3, <1>4, <1>5, <1>6, <1>7, <1>8, <1>9, <1>10, <1>11,
       <1>12
       DEF Next, StartStep, GuardianStep, StopStep, CleanStep

(* LiveRecordKept for any number of clients and any faults: no client,      *)
(* cleanup or other guardian removes or replaces the record of a guardian   *)
(* that is managing its run ("A late client must not unlink a newer run's   *)
(* metadata", stop_run).                                                    *)
THEOREM RecordKept == Spec => LiveRecordKept
  <1>1. ASSUME TypeInv, LeaseInv, [Next]_vars, NEW r \in Starts,
               record # NoRun, record.run = r, guardian[r] \in Holding
        PROVE  record' # NoRun /\ record'.run = r
    <2>1. \A q \in Starts : start[q] # "stale"
      BY <1>1, NoClientInside
    <2>2. \A m \in Cleaners : clean[m] # "stale"
      BY <1>1, NoClientInside
    <2>3. ASSUME NEW q \in Starts, NEW s \in RecordStates,
                 guardian[q] \in Holding, Publish(q, s)
          PROVE  record' # NoRun /\ record'.run = r
      <3>1. q = r
        BY <1>1, <2>3, OneGuardianInside
      <3>2. record' # NoRun
        BY <1>1, <2>3, PublishType
      <3>3. QED
        BY <2>3, <3>1, <3>2 DEF Publish, RecordOf
    <2>4. CASE UNCHANGED record
      BY <1>1, <2>4
    <2>5. QED
      BY <1>1, <2>1, <2>2, <2>3, <2>4, RecordChanges DEF RecordChange
  <1>2. TypeInv /\ LeaseInv /\ [Next]_vars =>
          [\A r \in Starts :
             (record # NoRun /\ record.run = r /\ guardian[r] \in Holding)
                => record' # NoRun /\ record'.run = r]_vars
    BY <1>1
  <1>3. QED
    BY <1>2, TypeInvariant, LeaseInvariant, PTL DEF Spec, LiveRecordKept

(* ServingIsStoppable for any number of clients, as long as listening_pids  *)
(* and TerminateJobObject do not fail: whoever waits for requests can be    *)
(* stopped through the record in the slot.                                  *)
THEOREM Stoppability ==
    ASSUME Faults \cap {"probe", "kill"} = {}
    PROVE  Spec => []ServingIsStoppable
  <1>1. TypeInv /\ RecordInv => ServingIsStoppable
    <2> SUFFICES ASSUME TypeInv, RecordInv, NEW r \in Starts, guardian[r] = "serving"
                 PROVE  record # NoRun /\ record = RecordOf(r, "ready") /\ Stoppable(record)
      BY DEF ServingIsStoppable
    <2>1. record = RecordOf(r, "ready")
      BY DEF RecordInv
    <2>2. pid[r] \in Pids /\ cport[r] \in ControlPorts
      BY DEF TypeInv, Assigned, Alive, Holding
    <2>3. record # NoRun
      BY <2>1, <2>2, RecordOfType DEF RecordStates
    <2>4. QED
      BY <2>1, <2>3 DEF Stoppable, RecordOf
  <1>2. QED
    BY <1>1, TypeInvariant, RecordInvariant, PTL

-----------------------------------------------------------------------------
(* Process ids.  A live guardian's id, and the id a start client still      *)
(* holds a handle of, belong to nobody else; so a record with the id of the *)
(* own guardian that passes the creation check is the own guardian's.       *)

InUse(r) == Alive(r) \/ start[r] \in { "waiting", "verify" }

PidInv ==
    /\ \A r, q \in Starts : (InUse(r) /\ InUse(q) /\ pid[r] = pid[q]) => r = q
    /\ \A r \in Starts : start[r] = "verify" => got[r] \in Records /\ got[r].pid = pid[r]
    /\ \A r \in Starts : start[r] = "done" => got[r].run = r

LEMMA PidInit == Init => PidInv
  BY ConstantsAssumption DEF Init, PidInv, InUse, Alive

LEMMA PidStep == TypeInv /\ SpawnInv /\ PidInv /\ [Next]_vars => PidInv'
  <1> SUFFICES ASSUME TypeInv, SpawnInv, PidInv, [Next]_vars PROVE PidInv'
    OBVIOUS
  <1> USE DEF PidInv, TypeInv, TypeOK, Alive, startVars, procVars
  <1>1. ASSUME NEW r \in Starts, StartProbe(r) PROVE PidInv'
    BY <1>1 DEF StartProbe, StartGoes, InUse
  <1>2. ASSUME NEW r \in Starts, StartOpenLease(r) PROVE PidInv'
    BY <1>2 DEF StartOpenLease, StartGoes, InUse
  <1>3. ASSUME NEW r \in Starts, StartInspect(r) PROVE PidInv'
    BY <1>3 DEF StartInspect, StartGoes, InUse
  <1>4. ASSUME NEW r \in Starts, StartUnlink(r) PROVE PidInv'
    BY <1>4 DEF StartUnlink, StartGoes, InUse
  <1>5. ASSUME NEW r \in Starts, StartRelease(r) PROVE PidInv'
    BY <1>5 DEF StartRelease, StartGoes, InUse
  <1>6. ASSUME NEW r \in Starts, StartSpawn(r) PROVE PidInv'
    <2>1. PICK p \in Pids \ PidsInUse : pid' = [pid EXCEPT ![r] = p]
      BY <1>6 DEF StartSpawn
    <2>2. \A q \in Starts : InUse(q) => pid[q] # p
      BY <2>1 DEF PidsInUse, InUse
    <2>3. /\ guardian[r] = "none" /\ guardian' = [guardian EXCEPT ![r] = "boot"]
          /\ start[r] = "spawn" /\ start' = [start EXCEPT ![r] = "waiting"]
          /\ UNCHANGED got
      BY <1>6 DEF StartSpawn, StartGoes, SpawnInv, Unspawned
    <2>4. \A q \in Starts \ {r} : InUse(q)' = InUse(q) /\ pid'[q] = pid[q]
      BY <2>1, <2>3 DEF InUse
    <2>5. QED
      BY <2>1, <2>2, <2>3, <2>4 DEF InUse
  <1>7. ASSUME NEW r \in Starts, StartRead(r) PROVE PidInv'
    BY <1>7 DEF StartRead, StartGoes, InUse
  <1>8. ASSUME NEW r \in Starts, StartVerify(r) PROVE PidInv'
    <2>1. CASE IdentityMatches(got[r])
      <3>1. /\ got[r] \in Records /\ got[r].run \in Starts
            /\ InUse(got[r].run) /\ InUse(r) /\ pid[got[r].run] = pid[r]
        BY <1>8, <2>1 DEF StartVerify, IdentityMatches, InUse, Records
      <3>2. got[r].run = r
        BY <3>1
      <3>3. QED
        BY <1>8, <2>1, <3>1, <3>2 DEF StartVerify, StartGoes, InUse
    <2>2. CASE ~IdentityMatches(got[r])
      BY <1>8, <2>2 DEF StartVerify, StartGoes, InUse
    <2>3. QED
      BY <2>1, <2>2
  <1>9. ASSUME NEW r \in Starts, StartGiveUp(r) PROVE PidInv'
    BY <1>9 DEF StartGiveUp, StartGoes, InUse
  <1>10. ASSUME NEW r \in Starts, StartCrash(r) PROVE PidInv'
    BY <1>10 DEF StartCrash, InUse
  <1>11. ASSUME NEW r \in Starts, GuardianBind(r) PROVE PidInv'
    BY <1>11 DEF GuardianBind, Goes, InUse
  <1>12. ASSUME NEW r \in Starts, GuardianOpenLease(r) PROVE PidInv'
    BY <1>12 DEF GuardianOpenLease, Goes, InUse
  <1>13. ASSUME NEW r \in Starts, GuardianRefused(r) PROVE PidInv'
    BY <1>13 DEF GuardianRefused, Goes, InUse
  <1>14. ASSUME NEW r \in Starts, GuardianLaunch(r) PROVE PidInv'
    BY <1>14 DEF GuardianLaunch, Goes, InUse
  <1>15. ASSUME NEW r \in Starts, GuardianWriteStarting(r) PROVE PidInv'
    BY <1>15 DEF GuardianWriteStarting, Goes, InUse
  <1>16. ASSUME NEW r \in Starts, GuardianObserve(r) PROVE PidInv'
    BY <1>16 DEF GuardianObserve, Goes, InUse
  <1>17. ASSUME NEW r \in Starts, GuardianObserveAgain(r) PROVE PidInv'
    BY <1>17 DEF GuardianObserveAgain, Goes, InUse
  <1>18. ASSUME NEW r \in Starts, GuardianReady(r) PROVE PidInv'
    BY <1>18 DEF GuardianReady, Goes, InUse
  <1>19. ASSUME NEW r \in Starts, GuardianFail(r) PROVE PidInv'
    BY <1>19 DEF GuardianFail, Goes, InUse
  <1>20. ASSUME NEW r \in Starts, GuardianKillFailed(r) PROVE PidInv'
    BY <1>20 DEF GuardianKillFailed, Goes, InUse
  <1>21. ASSUME NEW r \in Starts, GuardianAccept(r) PROVE PidInv'
    BY <1>21 DEF GuardianAccept, Goes, InUse
  <1>22. ASSUME NEW r \in Starts, GuardianWriteStopping(r) PROVE PidInv'
    BY <1>22 DEF GuardianWriteStopping, BackToServing, Goes, InUse
  <1>23. ASSUME NEW r \in Starts, GuardianTerminate(r) PROVE PidInv'
    BY <1>23 DEF GuardianTerminate, BackToServing, Goes, InUse
  <1>24. ASSUME NEW r \in Starts, GuardianDrain(r) PROVE PidInv'
    BY <1>24 DEF GuardianDrain, BackToServing, Goes, InUse
  <1>25. ASSUME NEW r \in Starts, GuardianReport(r) PROVE PidInv'
    BY <1>25 DEF GuardianReport, BackToServing, Goes, InUse
  <1>26. ASSUME NEW r \in Starts, GuardianCloseJob(r) PROVE PidInv'
    BY <1>26 DEF GuardianCloseJob, Goes, InUse
  <1>27. ASSUME NEW r \in Starts, GuardianCloseLease(r) PROVE PidInv'
    BY <1>27 DEF GuardianCloseLease, Goes, InUse
  <1>28. ASSUME NEW r \in Starts, GuardianExit(r) PROVE PidInv'
    BY <1>28 DEF GuardianExit, Goes, InUse
  <1>29. ASSUME NEW r \in Starts, GuardianCrash(r) PROVE PidInv'
    BY <1>29 DEF GuardianCrash, InUse
  <1>30. ASSUME NEW r \in Starts,
            ReapLease(r) \/ ReapJob(r) \/ JobEnds(r) \/
            AppListens(r) \/ AppCloses(r)
         PROVE PidInv'
    BY <1>30 DEF ReapLease, ReapJob, JobEnds, AppListens, AppCloses, InUse
  <1>31. ASSUME ForeignListener PROVE PidInv'
    BY <1>31 DEF ForeignListener, InUse
  <1>32. ASSUME NEW k \in Stops,
            StopRead(k) \/ StopVerify(k) \/ StopConnect(k)
            \/ StopAnswered(k) \/ StopTimeout(k)
         PROVE PidInv'
    BY <1>32 DEF StopRead, StopVerify, StopConnect, StopAnswered, StopTimeout,
       InUse
  <1>33. ASSUME NEW m \in Cleaners,
            CleanOpenLease(m) \/ CleanInspect(m) \/
            CleanUnlink(m) \/ CleanRelease(m)
         PROVE PidInv'
    BY <1>33 DEF CleanOpenLease, CleanInspect, CleanUnlink, CleanRelease,
       InUse
  <1>34. CASE UNCHANGED vars
    BY <1>34 DEF vars, InUse
  <1>35. QED
    BY <1>1, <1>2, <1>3, <1>4, <1>5, <1>6, <1>7, <1>8, <1>9, <1>10, <1>11,
       <1>12, <1>13, <1>14, <1>15, <1>16, <1>17, <1>18, <1>19, <1>20, <1>21,
       <1>22, <1>23, <1>24, <1>25, <1>26, <1>27, <1>28, <1>29, <1>30, <1>31,
       <1>32, <1>33, <1>34
       DEF Next, StartStep, GuardianStep, StopStep, CleanStep

(* StartReturnsOwnRun for any number of clients, any reuse of process ids   *)
(* and any faults (the wait loop of start_run).                             *)
THEOREM OwnRunReturned == Spec => []StartReturnsOwnRun
  <1>1. PidInv => StartReturnsOwnRun
    BY DEF PidInv, StartReturnsOwnRun
  <1>2. QED
    BY <1>1, PidInit, PidStep, TypeInvariant, SpawnInvariant, PTL DEF Spec
=============================================================================
