----------------------- MODULE TestProcessStopProofs -----------------------
(***************************************************************************)
(* What a stop client is told, and whose application a stop ends, proved   *)
(* on top of type correctness; and whose listener makes a run ready.       *)
(***************************************************************************)
EXTENDS TestProcessProofs

-----------------------------------------------------------------------------
(* Requests.  A client that waits in a backlog or is being served has read  *)
(* its record once and for all, and a guardian serves only clients that     *)
(* have read the record of its own run.                                     *)

Sent == { "sent", "stopped", "failed" }

ServedInv ==
    /\ \A k \in Stops : queued[k] # NoRun => stop[k] \in Sent
    /\ \A r \in Starts : serving[r] # NoRun =>
          stop[serving[r]] \in Sent /\ seen[serving[r]].run = r

LEMMA ServedInit == Init => ServedInv
  BY DEF Init, ServedInv

LEMMA ServedStep == TypeInv /\ ServedInv /\ [Next]_vars => ServedInv'
  <1> SUFFICES ASSUME TypeInv, ServedInv, [Next]_vars PROVE ServedInv'
    OBVIOUS
  <1> USE DEF ServedInv, Sent, TypeInv, TypeOK, procVars, stopVars
  <1>1. ASSUME NEW r \in Starts,
            StartProbe(r) \/ StartOpenLease(r) \/ StartInspect(r) \/
               StartUnlink(r) \/ StartRelease(r) \/ StartSpawn(r) \/
               StartRead(r) \/ StartVerify(r) \/ StartGiveUp(r) \/
               StartCrash(r)
         PROVE ServedInv'
    BY <1>1 DEF StartProbe, StartOpenLease, StartInspect, StartUnlink,
       StartRelease, StartSpawn, StartRead, StartVerify, StartGiveUp,
       StartCrash
  <1>2. ASSUME NEW r \in Starts,
            GuardianBind(r) \/ GuardianOpenLease(r) \/ GuardianRefused(r) \/
               GuardianLaunch(r) \/ GuardianWriteStarting(r) \/
               GuardianObserve(r) \/ GuardianObserveAgain(r) \/
               GuardianReady(r) \/ GuardianFail(r) \/ GuardianKillFailed(r) \/
               GuardianCloseJob(r) \/ GuardianCloseLease(r) \/ GuardianExit(r)
         PROVE ServedInv'
    BY <1>2 DEF GuardianBind, GuardianOpenLease, GuardianRefused,
       GuardianLaunch, GuardianWriteStarting, GuardianObserve,
       GuardianObserveAgain, GuardianReady, GuardianFail, GuardianKillFailed,
       GuardianCloseJob, GuardianCloseLease, GuardianExit
  <1>3. ASSUME NEW r \in Starts, GuardianAccept(r) PROVE ServedInv'
    <2>1. PICK k \in Stops :
             /\ queued[k] = r
             /\ queued' = [queued EXCEPT ![k] = NoRun]
             /\ \/ seen[k].run = r /\ serving' = [serving EXCEPT ![r] = k]
                \/ serving' = serving
             /\ UNCHANGED << stop, seen >>
      BY <1>3 DEF GuardianAccept, Authentic
    <2>2. stop[k] \in Sent
      BY <2>1, ConstantsAssumption
    <2>3. \A j \in Stops : queued'[j] # NoRun => stop'[j] \in Sent
      BY <2>1
    <2>4. \A q \in Starts : serving'[q] # NoRun =>
             stop'[serving'[q]] \in Sent /\ seen'[serving'[q]].run = q
      BY <2>1, <2>2
    <2>5. QED
      BY <2>3, <2>4
  <1>4. ASSUME NEW r \in Starts, GuardianWriteStopping(r) PROVE ServedInv'
    BY <1>4 DEF GuardianWriteStopping, BackToServing
  <1>5. ASSUME NEW r \in Starts, GuardianTerminate(r) PROVE ServedInv'
    BY <1>5 DEF GuardianTerminate, BackToServing
  <1>6. ASSUME NEW r \in Starts, GuardianDrain(r) PROVE ServedInv'
    BY <1>6 DEF GuardianDrain, BackToServing
  <1>7. ASSUME NEW r \in Starts, GuardianReport(r) PROVE ServedInv'
    BY <1>7 DEF GuardianReport, BackToServing
  <1>8. ASSUME NEW r \in Starts, GuardianCrash(r) PROVE ServedInv'
    BY <1>8 DEF GuardianCrash
  <1>9. ASSUME NEW r \in Starts,
            ReapLease(r) \/ ReapJob(r) \/ JobEnds(r) \/ AppListens(r) \/
               AppCloses(r)
         PROVE ServedInv'
    BY <1>9 DEF ReapLease, ReapJob, JobEnds, AppListens, AppCloses
  <1>10. ASSUME ForeignListener PROVE ServedInv'
    BY <1>10, ConstantsAssumption DEF ForeignListener
  <1>11. ASSUME NEW k \in Stops, StopRead(k) PROVE ServedInv'
    BY <1>11 DEF StopRead, StopGoes
  <1>12. ASSUME NEW k \in Stops, StopVerify(k) PROVE ServedInv'
    BY <1>12 DEF StopVerify, StopGoes
  <1>13. ASSUME NEW k \in Stops, StopConnect(k) PROVE ServedInv'
    BY <1>13 DEF StopConnect, StopGoes
  <1>14. ASSUME NEW k \in Stops, StopAnswered(k) PROVE ServedInv'
    BY <1>14 DEF StopAnswered, StopGoes
  <1>15. ASSUME NEW k \in Stops, StopTimeout(k) PROVE ServedInv'
    BY <1>15 DEF StopTimeout, StopGoes
  <1>16. ASSUME NEW m \in Cleaners,
            CleanOpenLease(m) \/ CleanInspect(m) \/ CleanUnlink(m) \/
               CleanRelease(m)
         PROVE ServedInv'
    BY <1>16 DEF CleanOpenLease, CleanInspect, CleanUnlink, CleanRelease
  <1>17. CASE UNCHANGED vars
    BY <1>17 DEF vars
  <1>18. QED
    BY <1>1, <1>2, <1>3, <1>4, <1>5, <1>6, <1>7, <1>8, <1>9, <1>10, <1>11,
       <1>12, <1>13, <1>14, <1>15, <1>16, <1>17
       DEF Next, StartStep, GuardianStep, StopStep, CleanStep

(* OnlyOwnRequestKills for any number of runs and clients: whatever control *)
(* ports are reused, a guardian ends its application only for a client that *)
(* has read the record of this run (the comparison in _guardian).           *)
THEOREM OwnRequest == Spec => []OnlyOwnRequestKills
  <1>1. ServedInv => OnlyOwnRequestKills
    BY DEF ServedInv, OnlyOwnRequestKills
  <1>2. QED
    BY <1>1, ServedInit, ServedStep, TypeInvariant, PTL DEF Spec

-----------------------------------------------------------------------------
(* Jobs.  A guardian has no job before it launches, has one until it        *)
(* leaves, and has terminated it once it drains.                            *)

Ended(r) == job[r] \in { "dying", "dead" }

TerminatedInv ==
    \A r \in Starts :
        /\ guardian[r] \in { "none", "boot", "bound", "refused", "leased" } => job[r] = "none"
        /\ guardian[r] \in Holding \ { "leased", "closing", "releasing" } => job[r] # "none"
        /\ guardian[r] \in { "draining", "reporting" } => Ended(r)

LEMMA TerminatedInit == Init => TerminatedInv
  BY DEF Init, TerminatedInv, Holding

LEMMA TerminatedStep == TypeInv /\ SpawnInv /\ TerminatedInv /\ [Next]_vars => TerminatedInv'
  <1> SUFFICES ASSUME TypeInv, SpawnInv, TerminatedInv, [Next]_vars PROVE TerminatedInv'
    OBVIOUS
  <1> USE DEF TerminatedInv, Ended, TypeInv, TypeOK, Holding, procVars,
     appVars
  <1>1. ASSUME NEW r \in Starts,
            StartProbe(r) \/ StartOpenLease(r) \/ StartInspect(r) \/
               StartUnlink(r) \/ StartRelease(r) \/ StartRead(r) \/
               StartVerify(r) \/ StartGiveUp(r) \/ StartCrash(r)
         PROVE TerminatedInv'
    BY <1>1 DEF StartProbe, StartOpenLease, StartInspect, StartUnlink,
       StartRelease, StartRead, StartVerify, StartGiveUp, StartCrash
  <1>2. ASSUME NEW r \in Starts, StartSpawn(r) PROVE TerminatedInv'
    BY <1>2 DEF StartSpawn, StartGoes, SpawnInv, Unspawned
  <1>3. ASSUME NEW r \in Starts, GuardianBind(r) PROVE TerminatedInv'
    BY <1>3 DEF GuardianBind, Goes
  <1>4. ASSUME NEW r \in Starts, GuardianOpenLease(r) PROVE TerminatedInv'
    BY <1>4 DEF GuardianOpenLease, Goes
  <1>5. ASSUME NEW r \in Starts, GuardianRefused(r) PROVE TerminatedInv'
    BY <1>5 DEF GuardianRefused, Goes
  <1>6. ASSUME NEW r \in Starts, GuardianLaunch(r) PROVE TerminatedInv'
    BY <1>6 DEF GuardianLaunch, Goes
  <1>7. ASSUME NEW r \in Starts, GuardianWriteStarting(r) PROVE TerminatedInv'
    BY <1>7 DEF GuardianWriteStarting, Goes
  <1>8. ASSUME NEW r \in Starts, GuardianObserve(r) PROVE TerminatedInv'
    BY <1>8 DEF GuardianObserve, Goes
  <1>9. ASSUME NEW r \in Starts, GuardianObserveAgain(r) PROVE TerminatedInv'
    BY <1>9 DEF GuardianObserveAgain, Goes
  <1>10. ASSUME NEW r \in Starts, GuardianReady(r) PROVE TerminatedInv'
    BY <1>10 DEF GuardianReady, Goes
  <1>11. ASSUME NEW r \in Starts, GuardianFail(r) PROVE TerminatedInv'
    BY <1>11 DEF GuardianFail, Goes
  <1>12. ASSUME NEW r \in Starts, GuardianKillFailed(r) PROVE TerminatedInv'
    BY <1>12 DEF GuardianKillFailed, Goes, Killed
  <1>13. ASSUME NEW r \in Starts, GuardianAccept(r) PROVE TerminatedInv'
    BY <1>13 DEF GuardianAccept, Goes
  <1>14. ASSUME NEW r \in Starts, GuardianWriteStopping(r) PROVE TerminatedInv'
    BY <1>14 DEF GuardianWriteStopping, BackToServing, Goes
  <1>15. ASSUME NEW r \in Starts, GuardianTerminate(r) PROVE TerminatedInv'
    BY <1>15 DEF GuardianTerminate, BackToServing, Goes, Killed
  <1>16. ASSUME NEW r \in Starts, GuardianDrain(r) PROVE TerminatedInv'
    BY <1>16 DEF GuardianDrain, BackToServing, Goes
  <1>17. ASSUME NEW r \in Starts, GuardianReport(r) PROVE TerminatedInv'
    BY <1>17 DEF GuardianReport, BackToServing, Goes
  <1>18. ASSUME NEW r \in Starts, GuardianCloseJob(r) PROVE TerminatedInv'
    BY <1>18 DEF GuardianCloseJob, Goes, Killed
  <1>19. ASSUME NEW r \in Starts, GuardianCloseLease(r) PROVE TerminatedInv'
    BY <1>19 DEF GuardianCloseLease, Goes
  <1>20. ASSUME NEW r \in Starts, GuardianExit(r) PROVE TerminatedInv'
    BY <1>20 DEF GuardianExit, Goes
  <1>21. ASSUME NEW r \in Starts, GuardianCrash(r) PROVE TerminatedInv'
    BY <1>21 DEF GuardianCrash
  <1>22. ASSUME NEW r \in Starts,
            ReapLease(r) \/ AppListens(r) \/ AppCloses(r)
         PROVE TerminatedInv'
    BY <1>22 DEF ReapLease, AppListens, AppCloses
  <1>23. ASSUME NEW r \in Starts, ReapJob(r) PROVE TerminatedInv'
    BY <1>23 DEF ReapJob, Killed
  <1>24. ASSUME NEW r \in Starts, JobEnds(r) PROVE TerminatedInv'
    BY <1>24 DEF JobEnds
  <1>25. ASSUME ForeignListener PROVE TerminatedInv'
    BY <1>25, ConstantsAssumption DEF ForeignListener
  <1>26. ASSUME NEW k \in Stops,
            StopRead(k) \/ StopVerify(k) \/ StopConnect(k) \/ StopAnswered(k)
               \/ StopTimeout(k)
         PROVE TerminatedInv'
    BY <1>26 DEF StopRead, StopVerify, StopConnect, StopAnswered, StopTimeout
  <1>27. ASSUME NEW m \in Cleaners,
            CleanOpenLease(m) \/ CleanInspect(m) \/ CleanUnlink(m) \/
               CleanRelease(m)
         PROVE TerminatedInv'
    BY <1>27 DEF CleanOpenLease, CleanInspect, CleanUnlink, CleanRelease
  <1>28. CASE UNCHANGED vars
    BY <1>28 DEF vars
  <1>29. QED
    BY <1>1, <1>2, <1>3, <1>4, <1>5, <1>6, <1>7, <1>8, <1>9, <1>10, <1>11,
       <1>12, <1>13, <1>14, <1>15, <1>16, <1>17, <1>18, <1>19, <1>20, <1>21,
       <1>22, <1>23, <1>24, <1>25, <1>26, <1>27, <1>28
       DEF Next, StartStep, GuardianStep, StopStep, CleanStep

-----------------------------------------------------------------------------
(* Answers.  An answer that says ok is the answer of a guardian whose job   *)
(* has been terminated, and a client that has stopped has such an answer    *)
(* from the run it has read about.                                          *)

AnswerInv ==
    \A k \in Stops :
        /\ (answer[k] # NoRun /\ answer[k].ok) =>
              /\ Ended(answer[k].run)
              /\ answer[k].free => answer[k].run \notin listeners
        /\ stop[k] = "stopped" => answer[k] # NoRun /\ Confirms(k)

LEMMA AnswerInit == Init => AnswerInv
  BY DEF Init, AnswerInv

LEMMA AnswerStep == TypeInv /\ TerminatedInv /\ AnswerInv /\ [Next]_vars => AnswerInv'
  <1> SUFFICES ASSUME TypeInv, TerminatedInv, AnswerInv, [Next]_vars PROVE AnswerInv'
    OBVIOUS
  <1> USE DEF AnswerInv, Ended, Confirms, Answers, TypeInv, TypeOK, procVars,
     appVars, stopVars
  <1>1. ASSUME NEW r \in Starts,
            StartProbe(r) \/ StartOpenLease(r) \/ StartInspect(r) \/
               StartUnlink(r) \/ StartRelease(r) \/ StartSpawn(r) \/
               StartRead(r) \/ StartVerify(r) \/ StartGiveUp(r) \/
               StartCrash(r)
         PROVE AnswerInv'
    BY <1>1 DEF StartProbe, StartOpenLease, StartInspect, StartUnlink,
       StartRelease, StartSpawn, StartRead, StartVerify, StartGiveUp,
       StartCrash
  <1>2. ASSUME NEW r \in Starts,
            GuardianBind(r) \/ GuardianOpenLease(r) \/ GuardianRefused(r) \/
               GuardianWriteStarting(r) \/ GuardianObserve(r) \/
               GuardianObserveAgain(r) \/ GuardianReady(r) \/ GuardianFail(r)
               \/ GuardianCloseLease(r) \/ GuardianExit(r) \/ GuardianCrash(r)
         PROVE AnswerInv'
    BY <1>2 DEF GuardianBind, GuardianOpenLease, GuardianRefused,
       GuardianWriteStarting, GuardianObserve, GuardianObserveAgain,
       GuardianReady, GuardianFail, GuardianCloseLease, GuardianExit,
       GuardianCrash
  <1>3. ASSUME NEW r \in Starts, GuardianLaunch(r) PROVE AnswerInv'
    BY <1>3 DEF GuardianLaunch, Goes, TerminatedInv
  <1>4. ASSUME NEW r \in Starts, GuardianKillFailed(r) PROVE AnswerInv'
    BY <1>4 DEF GuardianKillFailed, Killed
  <1>5. ASSUME NEW r \in Starts, GuardianAccept(r) PROVE AnswerInv'
    BY <1>5 DEF GuardianAccept, Goes, Respond, ErrorResponse
  <1>6. ASSUME NEW r \in Starts, GuardianWriteStopping(r) PROVE AnswerInv'
    BY <1>6 DEF GuardianWriteStopping, BackToServing, Respond, ErrorResponse
  <1>7. ASSUME NEW r \in Starts, GuardianTerminate(r) PROVE AnswerInv'
    BY <1>7 DEF GuardianTerminate, BackToServing, Respond, ErrorResponse,
       Killed
  <1>8. ASSUME NEW r \in Starts, GuardianDrain(r) PROVE AnswerInv'
    BY <1>8 DEF GuardianDrain, BackToServing, Respond, ErrorResponse
  <1>9. ASSUME NEW r \in Starts, GuardianReport(r) PROVE AnswerInv'
    <2> DEFINE Good == [run |-> r, ok |-> TRUE, free |-> PortIdle]
    <2>1. PICK response : /\ response = Good \/ response = ErrorResponse(r)
                          /\ Respond(serving[r], response)
      <3>1. Respond(serving[r], Good) \/ Respond(serving[r], ErrorResponse(r))
        BY <1>9 DEF GuardianReport, BackToServing
      <3>2. QED
        BY <3>1
    <2>2. UNCHANGED << stop, seen, job, listeners >>
      BY <1>9 DEF GuardianReport
    <2>3. Ended(r)
      BY <1>9 DEF GuardianReport, BackToServing, Goes, TerminatedInv
    <2>4. \A k \in Stops : \/ answer'[k] = answer[k]
                           \/ stop[k] = "sent" /\ answer'[k] = response
      BY <2>1 DEF Respond
    <2>5. response.ok => /\ response.run = r
                         /\ response.free => r \notin listeners
      <3>1. CASE response = Good
        <4>1. response.run = r /\ (response.free => PortIdle)
          BY <3>1, Zenon
        <4>2. QED
          BY <4>1 DEF PortIdle
      <3>2. CASE response = ErrorResponse(r)
        <4>1. ~response.ok
          BY <3>2, Zenon DEF ErrorResponse
        <4>2. QED
          BY <4>1
      <3>3. QED
        BY <2>1, <3>1, <3>2
    <2>6. QED
      BY <2>2, <2>3, <2>4, <2>5
  <1>10. ASSUME NEW r \in Starts, GuardianCloseJob(r) PROVE AnswerInv'
    BY <1>10 DEF GuardianCloseJob, Killed
  <1>11. ASSUME NEW r \in Starts, ReapLease(r) PROVE AnswerInv'
    BY <1>11 DEF ReapLease
  <1>12. ASSUME NEW r \in Starts, ReapJob(r) PROVE AnswerInv'
    BY <1>12 DEF ReapJob, Killed
  <1>13. ASSUME NEW r \in Starts, JobEnds(r) PROVE AnswerInv'
    BY <1>13 DEF JobEnds
  <1>14. ASSUME NEW r \in Starts, AppListens(r) PROVE AnswerInv'
    BY <1>14 DEF AppListens
  <1>15. ASSUME NEW r \in Starts, AppCloses(r) PROVE AnswerInv'
    BY <1>15 DEF AppCloses
  <1>16. ASSUME ForeignListener PROVE AnswerInv'
    BY <1>16, ConstantsAssumption DEF ForeignListener
  <1>17. ASSUME NEW k \in Stops, StopRead(k) PROVE AnswerInv'
    BY <1>17 DEF StopRead, StopGoes
  <1>18. ASSUME NEW k \in Stops, StopVerify(k) PROVE AnswerInv'
    BY <1>18 DEF StopVerify, StopGoes
  <1>19. ASSUME NEW k \in Stops, StopConnect(k) PROVE AnswerInv'
    BY <1>19 DEF StopConnect, StopGoes
  <1>20. ASSUME NEW k \in Stops, StopAnswered(k) PROVE AnswerInv'
    BY <1>20 DEF StopAnswered, StopGoes
  <1>21. ASSUME NEW k \in Stops, StopTimeout(k) PROVE AnswerInv'
    BY <1>21 DEF StopTimeout, StopGoes
  <1>22. ASSUME NEW m \in Cleaners,
            CleanOpenLease(m) \/ CleanInspect(m) \/ CleanUnlink(m) \/
               CleanRelease(m)
         PROVE AnswerInv'
    BY <1>22 DEF CleanOpenLease, CleanInspect, CleanUnlink, CleanRelease
  <1>23. CASE UNCHANGED vars
    BY <1>23 DEF vars
  <1>24. QED
    BY <1>1, <1>2, <1>3, <1>4, <1>5, <1>6, <1>7, <1>8, <1>9, <1>10, <1>11,
       <1>12, <1>13, <1>14, <1>15, <1>16, <1>17, <1>18, <1>19, <1>20, <1>21,
       <1>22, <1>23
       DEF Next, StartStep, GuardianStep, StopStep, CleanStep

LEMMA AnswerInvariant == Spec => []AnswerInv
  <1>1. QED
    BY AnswerInit, AnswerStep, TerminatedInit, TerminatedStep, TypeInvariant, SpawnInvariant,
       PTL DEF Spec

(* StopMeansTerminated for any number of runs and clients and any faults: a *)
(* stop that reports success has terminated the run it was aimed at.        *)
THEOREM StopIsTrue == Spec => []StopMeansTerminated
  <1>1. AnswerInv => StopMeansTerminated
    BY DEF AnswerInv, StopMeansTerminated, Confirms, Ended
  <1>2. QED
    BY <1>1, AnswerInvariant, PTL

(* FreeMeansUnbound for any number of runs and clients and any faults: when *)
(* a stop says that the port is free, the run will not use it any more.     *)
THEOREM FreeIsTrue == Spec => []FreeMeansUnbound
  <1>1. AnswerInv => FreeMeansUnbound
    BY DEF AnswerInv, FreeMeansUnbound, Confirms
  <1>2. QED
    BY <1>1, AnswerInvariant, PTL

-----------------------------------------------------------------------------
(* Readiness.                                                               *)

BoundInv ==
    /\ listeners \cap Starts \subseteq bound
    /\ \A r \in Starts : guardian[r] = "owned" => r \in bound
    /\ ReadyWasOwned

LEMMA BoundInit == Init => BoundInv
  BY ConstantsAssumption DEF Init, BoundInv, ReadyWasOwned

LEMMA BoundStep == TypeInv /\ BoundInv /\ [Next]_vars => BoundInv'
  <1> SUFFICES ASSUME TypeInv, BoundInv, [Next]_vars PROVE BoundInv'
    OBVIOUS
  <1> USE DEF BoundInv, ReadyWasOwned, TypeInv, TypeOK, slotVars, procVars,
     appVars
  <1>1. ASSUME NEW r \in Starts,
            StartProbe(r) \/ StartOpenLease(r) \/ StartInspect(r) \/
               StartRelease(r) \/ StartRead(r) \/ StartVerify(r) \/
               StartGiveUp(r) \/ StartCrash(r)
         PROVE BoundInv'
    BY <1>1 DEF StartProbe, StartOpenLease, StartInspect, StartRelease,
       StartRead, StartVerify, StartGiveUp, StartCrash
  <1>2. ASSUME NEW r \in Starts, StartUnlink(r) PROVE BoundInv'
    BY <1>2 DEF StartUnlink
  <1>3. ASSUME NEW r \in Starts, StartSpawn(r) PROVE BoundInv'
    BY <1>3 DEF StartSpawn
  <1>4. ASSUME NEW r \in Starts, GuardianBind(r) PROVE BoundInv'
    BY <1>4 DEF GuardianBind, Goes
  <1>5. ASSUME NEW r \in Starts, GuardianOpenLease(r) PROVE BoundInv'
    BY <1>5 DEF GuardianOpenLease, Goes
  <1>6. ASSUME NEW r \in Starts, GuardianRefused(r) PROVE BoundInv'
    BY <1>6 DEF GuardianRefused, Goes
  <1>7. ASSUME NEW r \in Starts, GuardianLaunch(r) PROVE BoundInv'
    BY <1>7 DEF GuardianLaunch, Goes
  <1>8. ASSUME NEW r \in Starts, GuardianWriteStarting(r) PROVE BoundInv'
    BY <1>8 DEF GuardianWriteStarting, Goes, Publish, RecordOf
  <1>9. ASSUME NEW r \in Starts, GuardianObserve(r) PROVE BoundInv'
    BY <1>9 DEF GuardianObserve, Goes, OwnsListener
  <1>10. ASSUME NEW r \in Starts, GuardianObserveAgain(r) PROVE BoundInv'
    BY <1>10 DEF GuardianObserveAgain, Goes
  <1>11. ASSUME NEW r \in Starts, GuardianReady(r) PROVE BoundInv'
    BY <1>11 DEF GuardianReady, Goes, Publish, RecordOf
  <1>12. ASSUME NEW r \in Starts, GuardianFail(r) PROVE BoundInv'
    BY <1>12 DEF GuardianFail, Goes, Publish, RecordOf
  <1>13. ASSUME NEW r \in Starts, GuardianKillFailed(r) PROVE BoundInv'
    BY <1>13 DEF GuardianKillFailed, Goes, Killed
  <1>14. ASSUME NEW r \in Starts, GuardianAccept(r) PROVE BoundInv'
    BY <1>14 DEF GuardianAccept, Goes
  <1>15. ASSUME NEW r \in Starts, GuardianWriteStopping(r) PROVE BoundInv'
    BY <1>15 DEF GuardianWriteStopping, BackToServing, Goes, Publish, RecordOf
  <1>16. ASSUME NEW r \in Starts, GuardianTerminate(r) PROVE BoundInv'
    BY <1>16 DEF GuardianTerminate, BackToServing, Goes, Killed
  <1>17. ASSUME NEW r \in Starts, GuardianDrain(r) PROVE BoundInv'
    BY <1>17 DEF GuardianDrain, BackToServing, Goes
  <1>18. ASSUME NEW r \in Starts, GuardianReport(r) PROVE BoundInv'
    BY <1>18 DEF GuardianReport, BackToServing, Goes
  <1>19. ASSUME NEW r \in Starts, GuardianCloseJob(r) PROVE BoundInv'
    BY <1>19 DEF GuardianCloseJob, Goes, Killed
  <1>20. ASSUME NEW r \in Starts, GuardianCloseLease(r) PROVE BoundInv'
    BY <1>20 DEF GuardianCloseLease, Goes
  <1>21. ASSUME NEW r \in Starts, GuardianExit(r) PROVE BoundInv'
    BY <1>21 DEF GuardianExit, Goes
  <1>22. ASSUME NEW r \in Starts, GuardianCrash(r) PROVE BoundInv'
    BY <1>22 DEF GuardianCrash
  <1>23. ASSUME NEW r \in Starts,
            ReapLease(r) \/ ReapJob(r)
         PROVE BoundInv'
    BY <1>23 DEF ReapLease, ReapJob
  <1>24. ASSUME NEW r \in Starts, JobEnds(r) PROVE BoundInv'
    BY <1>24 DEF JobEnds
  <1>25. ASSUME NEW r \in Starts, AppListens(r) PROVE BoundInv'
    BY <1>25 DEF AppListens
  <1>26. ASSUME NEW r \in Starts, AppCloses(r) PROVE BoundInv'
    BY <1>26 DEF AppCloses
  <1>27. ASSUME ForeignListener PROVE BoundInv'
    BY <1>27, ConstantsAssumption DEF ForeignListener
  <1>28. ASSUME NEW k \in Stops,
            StopRead(k) \/ StopVerify(k) \/ StopConnect(k) \/ StopAnswered(k)
               \/ StopTimeout(k)
         PROVE BoundInv'
    BY <1>28 DEF StopRead, StopVerify, StopConnect, StopAnswered, StopTimeout
  <1>29. ASSUME NEW m \in Cleaners,
            CleanOpenLease(m) \/ CleanInspect(m) \/ CleanRelease(m)
         PROVE BoundInv'
    BY <1>29 DEF CleanOpenLease, CleanInspect, CleanRelease
  <1>30. ASSUME NEW m \in Cleaners, CleanUnlink(m) PROVE BoundInv'
    BY <1>30 DEF CleanUnlink
  <1>31. CASE UNCHANGED vars
    BY <1>31 DEF vars
  <1>32. QED
    BY <1>1, <1>2, <1>3, <1>4, <1>5, <1>6, <1>7, <1>8, <1>9, <1>10, <1>11,
       <1>12, <1>13, <1>14, <1>15, <1>16, <1>17, <1>18, <1>19, <1>20, <1>21,
       <1>22, <1>23, <1>24, <1>25, <1>26, <1>27, <1>28, <1>29, <1>30, <1>31
       DEF Next, StartStep, GuardianStep, StopStep, CleanStep

(* ReadyWasOwned for any number of runs and any foreign listeners: a run is *)
(* published as ready only if its own application had the port open.        *)
THEOREM ReadyIsOwned == Spec => []ReadyWasOwned
  <1>1. BoundInv => ReadyWasOwned
    BY DEF BoundInv
  <1>2. QED
    BY <1>1, BoundInit, BoundStep, TypeInvariant, PTL DEF Spec
=============================================================================
