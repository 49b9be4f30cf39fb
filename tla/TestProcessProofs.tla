------------------------- MODULE TestProcessProofs -------------------------
(***************************************************************************)
(* Proofs about TestProcess for every set of start, stop and cleanup       *)
(* clients, of process ids and control ports, and for every set of faults. *)
(***************************************************************************)
EXTENDS TestProcess, TLAPS

-----------------------------------------------------------------------------
(* Type correctness.                                                        *)

\* A live guardian has a process id, and a control port once it has bound.
Assigned ==
    \A r \in Starts :
        /\ Alive(r) => pid[r] \in Pids
        /\ guardian[r] \in Holding \cup {"bound"} => cport[r] \in ControlPorts

TypeInv == TypeOK /\ Assigned

(* A record a guardian publishes is well formed once the guardian has a     *)
(* process id and a control port (the payload dictionary of _guardian).     *)
LEMMA RecordOfType ==
    ASSUME NEW r \in Starts, pid[r] \in Pids, cport[r] \in ControlPorts,
           NEW s \in RecordStates
    PROVE  RecordOf(r, s) \in Records /\ RecordOf(r, s) # NoRun
  BY NoRunAssumption DEF RecordOf, Records

(* write_metadata by the holder of the slot leaves a well-formed record.    *)
LEMMA PublishType ==
    ASSUME TypeInv, NEW r \in Starts, guardian[r] \in Holding,
           NEW s \in RecordStates, Publish(r, s)
    PROVE  record' \in Records /\ record' # NoRun
  <1>1. pid[r] \in Pids /\ cport[r] \in ControlPorts
    BY DEF TypeInv, Assigned, Alive, Holding
  <1>2. QED
    BY <1>1, RecordOfType DEF Publish

(* A response changes nothing but the answer of one stop client.            *)
LEMMA RespondType ==
    ASSUME TypeInv, NEW k, NEW response \in Answers, Respond(k, response)
    PROVE  answer' \in [Stops -> Answers \cup {NoRun}]
  BY DEF TypeInv, TypeOK, Respond

(* The error path of the request handler.                                   *)
LEMMA BackToServingType ==
    ASSUME TypeInv, NEW r \in Starts, NEW from, BackToServing(r, from)
    PROVE  /\ answer' \in [Stops -> Answers \cup {NoRun}]
           /\ serving' \in [Starts -> Stops \cup {NoRun}]
           /\ guardian[r] = from
           /\ guardian' = [guardian EXCEPT ![r] = "serving"]
  <1>1. ErrorResponse(r) \in Answers
    BY DEF ErrorResponse, Answers
  <1>2. QED
    BY <1>1, RespondType DEF BackToServing, Goes, TypeInv, TypeOK

(* Every step keeps every variable in its type.                             *)
LEMMA TypeStep == TypeInv /\ [Next]_vars => TypeInv'
  <1> SUFFICES ASSUME TypeInv, [Next]_vars PROVE TypeInv'
    OBVIOUS
  <1> USE ConstantsAssumption, NoRunAssumption
      DEF TypeInv, TypeOK, Assigned, Alive, Holding, StartPhases, GuardianPhases, StopPhases,
          CleanPhases, LeaseUsers, slotVars, startVars, procVars, appVars, stopVars
  <1>1. ASSUME NEW r \in Starts, StartProbe(r) PROVE TypeInv'
    BY <1>1 DEF StartProbe, PortIdle, ProbeFails, StartGoes
  <1>2. ASSUME NEW r \in Starts, StartOpenLease(r) PROVE TypeInv'
    BY <1>2 DEF StartOpenLease, LeaseIsNew, OpenLease, StartGoes
  <1>3. ASSUME NEW r \in Starts, StartInspect(r) PROVE TypeInv'
    BY <1>3 DEF StartInspect, IdentityMatches, StartGoes, Alive
  <1>4. ASSUME NEW r \in Starts, StartUnlink(r) PROVE TypeInv'
    BY <1>4 DEF StartUnlink, StartGoes
  <1>5. ASSUME NEW r \in Starts, StartRelease(r) PROVE TypeInv'
    BY <1>5 DEF StartRelease, CloseLease, StartGoes
  <1>6. ASSUME NEW r \in Starts, StartSpawn(r) PROVE TypeInv'
    BY <1>6 DEF StartSpawn, PidsInUse, StartGoes, Alive
  <1>7. ASSUME NEW r \in Starts, StartRead(r) PROVE TypeInv'
    BY <1>7 DEF StartRead, StartGoes
  <1>8. ASSUME NEW r \in Starts, StartVerify(r) PROVE TypeInv'
    BY <1>8 DEF StartVerify, IdentityMatches, StartGoes, Alive
  <1>9. ASSUME NEW r \in Starts, StartGiveUp(r) PROVE TypeInv'
    BY <1>9 DEF StartGiveUp, StartGoes
  <1>10. ASSUME NEW r \in Starts, StartCrash(r) PROVE TypeInv'
    BY <1>10 DEF StartCrash, CloseLease
  <1>11. ASSUME NEW r \in Starts, GuardianBind(r) PROVE TypeInv'
    BY <1>11 DEF GuardianBind, FreeControlPorts, Goes, Alive
  <1>12. ASSUME NEW r \in Starts, GuardianOpenLease(r) PROVE TypeInv'
    BY <1>12 DEF GuardianOpenLease, Goes, LeaseIsNew, OpenLease
  <1>13. ASSUME NEW r \in Starts, GuardianRefused(r) PROVE TypeInv'
    BY <1>13 DEF GuardianRefused, CloseLease, Goes
  <1>14. ASSUME NEW r \in Starts, GuardianLaunch(r) PROVE TypeInv'
    BY <1>14 DEF GuardianLaunch, Goes
  <1>15. ASSUME NEW r \in Starts, GuardianWriteStarting(r) PROVE TypeInv'
    <2>1. guardian[r] = "launched"
      BY <1>15 DEF GuardianWriteStarting, Goes
    <2>2. CASE Publish(r, "starting")
      BY <1>15, <2>1, <2>2, PublishType DEF GuardianWriteStarting, Goes, RecordStates
    <2>3. CASE UNCHANGED record
      BY <1>15, <2>3 DEF GuardianWriteStarting, Goes
    <2>4. QED
      BY <1>15, <2>2, <2>3 DEF GuardianWriteStarting
  <1>16. ASSUME NEW r \in Starts, GuardianObserve(r) PROVE TypeInv'
    BY <1>16 DEF GuardianObserve, Goes, OwnsListener, ProbeFails
  <1>17. ASSUME NEW r \in Starts, GuardianObserveAgain(r) PROVE TypeInv'
    BY <1>17 DEF GuardianObserveAgain, Goes
  <1>18. ASSUME NEW r \in Starts, GuardianReady(r) PROVE TypeInv'
    <2>1. guardian[r] = "owned"
      BY <1>18 DEF GuardianReady, Goes
    <2>2. CASE Publish(r, "ready")
      BY <1>18, <2>1, <2>2, PublishType DEF GuardianReady, Goes, RecordStates
    <2>3. CASE UNCHANGED record
      BY <1>18, <2>3 DEF GuardianReady, Goes
    <2>4. QED
      BY <1>18, <2>2, <2>3 DEF GuardianReady
  <1>19. ASSUME NEW r \in Starts, GuardianFail(r) PROVE TypeInv'
    <2>1. guardian[r] \in { "polling", "owned" }
      BY <1>19 DEF GuardianFail, Goes
    <2>2. CASE Publish(r, "failed")
      BY <1>19, <2>1, <2>2, PublishType DEF GuardianFail, Goes, RecordStates
    <2>3. CASE UNCHANGED record
      BY <1>19, <2>3 DEF GuardianFail, Goes
    <2>4. QED
      BY <1>19, <2>2, <2>3 DEF GuardianFail
  <1>20. ASSUME NEW r \in Starts, GuardianKillFailed(r) PROVE TypeInv'
    BY <1>20 DEF GuardianKillFailed, Goes, Killed
  <1>21. ASSUME NEW r \in Starts, GuardianAccept(r) PROVE TypeInv'
    <2> SUFFICES ASSUME NEW k \in Stops,
                        queued' = [queued EXCEPT ![k] = NoRun],
                        UNCHANGED << slotVars, startVars, pid, cport, appVars,
                                     stop, seen, clean >>,
                        \/ /\ Goes(r, "serving", "stopping")
                           /\ serving' = [serving EXCEPT ![r] = k]
                           /\ UNCHANGED answer
                        \/ /\ Goes(r, "serving", "serving")
                           /\ Respond(k, ErrorResponse(r))
                           /\ UNCHANGED serving
                 PROVE  TypeInv'
      BY <1>21 DEF GuardianAccept
    <2>1. ErrorResponse(r) \in Answers
      BY DEF ErrorResponse, Answers
    <2>2. answer' \in [Stops -> Answers \cup {NoRun}]
      BY <2>1, RespondType
    <2>3. CASE Goes(r, "serving", "stopping") /\ serving' = [serving EXCEPT ![r] = k]
      BY <2>2, <2>3 DEF Goes
    <2>4. CASE Goes(r, "serving", "serving") /\ UNCHANGED serving
      BY <2>2, <2>4 DEF Goes
    <2>5. QED
      BY <2>3, <2>4
  <1>22. ASSUME NEW r \in Starts, GuardianWriteStopping(r) PROVE TypeInv'
    <2>1. guardian[r] = "stopping"
      BY <1>22 DEF GuardianWriteStopping, BackToServing, Goes
    <2>2. CASE Publish(r, "stopping") /\ Goes(r, "stopping", "terminating")
               /\ UNCHANGED << serving, answer >>
      BY <1>22, <2>1, <2>2, PublishType DEF GuardianWriteStopping, Goes, RecordStates
    <2>3. CASE BackToServing(r, "stopping") /\ UNCHANGED record
      BY <1>22, <2>3, BackToServingType DEF GuardianWriteStopping
    <2>4. QED
      BY <1>22, <2>2, <2>3 DEF GuardianWriteStopping
  <1>23. ASSUME NEW r \in Starts, GuardianTerminate(r) PROVE TypeInv'
    <2>1. CASE BackToServing(r, "terminating") /\ UNCHANGED job
      BY <1>23, <2>1, BackToServingType DEF GuardianTerminate
    <2>2. CASE Goes(r, "terminating", "draining") /\ UNCHANGED << serving, answer >>
               /\ job' = [job EXCEPT ![r] = Killed(job[r])]
      BY <1>23, <2>2 DEF GuardianTerminate, Goes, Killed
    <2>3. QED
      BY <1>23, <2>1, <2>2 DEF GuardianTerminate
  <1>24. ASSUME NEW r \in Starts, GuardianDrain(r) PROVE TypeInv'
    <2>1. CASE BackToServing(r, "draining")
      BY <1>24, <2>1, BackToServingType DEF GuardianDrain
    <2>2. CASE Goes(r, "draining", "reporting") /\ UNCHANGED << serving, answer >>
      BY <1>24, <2>2 DEF GuardianDrain, Goes
    <2>3. QED
      BY <1>24, <2>1, <2>2 DEF GuardianDrain
  <1>25. ASSUME NEW r \in Starts, GuardianReport(r) PROVE TypeInv'
    <2>1. CASE BackToServing(r, "reporting")
      BY <1>25, <2>1, BackToServingType DEF GuardianReport
    <2>2. CASE /\ Goes(r, "reporting", "closing")
               /\ Respond(serving[r], [run |-> r, ok |-> TRUE, free |-> PortIdle])
               /\ serving' = [serving EXCEPT ![r] = NoRun]
      <3>1. [run |-> r, ok |-> TRUE, free |-> PortIdle] \in Answers
        <4>1. PortIdle \in BOOLEAN
          BY DEF PortIdle
        <4>2. QED
          BY <4>1 DEF Answers
      <3>2. answer' \in [Stops -> Answers \cup {NoRun}]
        BY <2>2, <3>1, RespondType
      <3>3. QED
        BY <1>25, <2>2, <3>2 DEF GuardianReport, Goes
    <2>3. QED
      BY <1>25, <2>1, <2>2 DEF GuardianReport
  <1>26. ASSUME NEW r \in Starts, GuardianCloseJob(r) PROVE TypeInv'
    BY <1>26 DEF GuardianCloseJob, Goes, Killed
  <1>27. ASSUME NEW r \in Starts, GuardianCloseLease(r) PROVE TypeInv'
    BY <1>27 DEF GuardianCloseLease, CloseLease, Goes
  <1>28. ASSUME NEW r \in Starts, GuardianExit(r) PROVE TypeInv'
    BY <1>28 DEF GuardianExit, Goes
  <1>29. ASSUME NEW r \in Starts, GuardianCrash(r) PROVE TypeInv'
    BY <1>29 DEF GuardianCrash, Alive
  <1>30. ASSUME NEW r \in Starts, ReapLease(r) PROVE TypeInv'
    BY <1>30 DEF ReapLease, CloseLease
  <1>31. ASSUME NEW r \in Starts, ReapJob(r) PROVE TypeInv'
    BY <1>31 DEF ReapJob, Killed
  <1>32. ASSUME NEW r \in Starts, JobEnds(r) PROVE TypeInv'
    BY <1>32 DEF JobEnds
  <1>33. ASSUME NEW r \in Starts, AppListens(r) PROVE TypeInv'
    BY <1>33 DEF AppListens
  <1>34. ASSUME NEW r \in Starts, AppCloses(r) PROVE TypeInv'
    BY <1>34 DEF AppCloses
  <1>35. ASSUME ForeignListener PROVE TypeInv'
    BY <1>35 DEF ForeignListener
  <1>36. ASSUME NEW k \in Stops, StopRead(k) PROVE TypeInv'
    BY <1>36 DEF StopRead, StopGoes, Stoppable
  <1>37. ASSUME NEW k \in Stops, StopVerify(k) PROVE TypeInv'
    BY <1>37 DEF StopVerify, IdentityMatches, StopGoes, Alive
  <1>38. ASSUME NEW k \in Stops, StopConnect(k) PROVE TypeInv'
    BY <1>38 DEF StopConnect, ListensOn, StopGoes, Alive
  <1>39. ASSUME NEW k \in Stops, StopAnswered(k) PROVE TypeInv'
    BY <1>39 DEF StopAnswered, Confirms, StopGoes
  <1>40. ASSUME NEW k \in Stops, StopTimeout(k) PROVE TypeInv'
    BY <1>40 DEF StopTimeout, AnswersInTime, StopGoes
  <1>41. ASSUME NEW m \in Cleaners, CleanOpenLease(m) PROVE TypeInv'
    BY <1>41 DEF CleanOpenLease, CleanGoes, LeaseIsNew, OpenLease
  <1>42. ASSUME NEW m \in Cleaners, CleanInspect(m) PROVE TypeInv'
    BY <1>42 DEF CleanInspect, CleanGoes, IdentityMatches, Alive
  <1>43. ASSUME NEW m \in Cleaners, CleanUnlink(m) PROVE TypeInv'
    BY <1>43 DEF CleanUnlink, CleanGoes
  <1>44. ASSUME NEW m \in Cleaners, CleanRelease(m) PROVE TypeInv'
    BY <1>44 DEF CleanRelease, CleanGoes, CloseLease
  <1>45. CASE UNCHANGED vars
    BY <1>45 DEF vars
  <1>46. QED
    BY <1>1, <1>2, <1>3, <1>4, <1>5, <1>6, <1>7, <1>8, <1>9, <1>10, <1>11, <1>12, <1>13, <1>14, <1>15, <1>16, <1>17, <1>18, <1>19, <1>20, <1>21, <1>22, <1>23, <1>24, <1>25, <1>26, <1>27, <1>28, <1>29, <1>30, <1>31, <1>32, <1>33, <1>34, <1>35, <1>36, <1>37, <1>38, <1>39, <1>40, <1>41, <1>42, <1>43, <1>44, <1>45 DEF Next, StartStep, GuardianStep, StopStep, CleanStep

\* Nothing is alive at first.
LEMMA TypeInit == Init => TypeInv
  BY ConstantsAssumption
     DEF Init, TypeInv, TypeOK, Assigned, Alive, Holding, StartPhases,
         GuardianPhases, StopPhases, CleanPhases

(* TypeInv is an invariant of every behaviour of the process helper.        *)
LEMMA TypeInvariant == Spec => []TypeInv
  <1>1. QED
    BY TypeInit, TypeStep, PTL DEF Spec

(* Every variable keeps its type in every behaviour of the process helper.  *)
THEOREM TypeCorrect == Spec => []TypeOK
  <1>1. TypeInv => TypeOK
    BY DEF TypeInv
  <1>2. QED
    BY <1>1, TypeInvariant, PTL

-----------------------------------------------------------------------------
(* The lease.  Whoever is inside a with block of the lease has an open      *)
(* handle of the mutex, and obtained it when no handle was open: that makes *)
(* the block exclusive, although handles are also opened and closed by      *)
(* processes the lease is refused to.                                       *)

Insiders ==
    { <<"start", r>> : r \in { q \in Starts : start[q] \in {"held", "stale", "leave", "clear"} } }
      \cup { <<"guardian", r>> : r \in { q \in Starts : guardian[q] \in Holding } }
      \cup { <<"cleanup", m>> : m \in { n \in Cleaners : clean[n] \in {"held", "stale", "leave"} } }

LeaseInv ==
    /\ Insiders \subseteq lease
    /\ \A u, v \in Insiders : u = v

(* A process obtains the lease only when nobody is inside.                  *)
LEMMA LeaseEntered ==
    ASSUME LeaseInv, NEW u, OpenLease(u), LeaseIsNew, Insiders' \subseteq Insiders \cup {u}
    PROVE  LeaseInv'
  BY DEF LeaseInv, OpenLease, LeaseIsNew

(* Opening a handle of an existing mutex lets nobody in.                    *)
LEMMA LeaseRefused ==
    ASSUME LeaseInv, NEW u, OpenLease(u), Insiders' \subseteq Insiders
    PROVE  LeaseInv'
  BY DEF LeaseInv, OpenLease

(* Closing a handle is harmless for everybody but its owner.                *)
LEMMA LeaseClosed ==
    ASSUME LeaseInv, NEW u, CloseLease(u), Insiders' \subseteq Insiders \ {u}
    PROVE  LeaseInv'
  BY DEF LeaseInv, CloseLease

(* Work inside or outside the block leaves the lease alone.                 *)
LEMMA LeaseKept ==
    ASSUME LeaseInv, UNCHANGED lease, Insiders' \subseteq Insiders
    PROVE  LeaseInv'
  BY DEF LeaseInv

(* Every step keeps the lease exclusive.                                    *)
LEMMA LeaseStep == TypeInv /\ LeaseInv /\ [Next]_vars => LeaseInv'
  <1> SUFFICES ASSUME TypeInv, LeaseInv, [Next]_vars PROVE LeaseInv'
    OBVIOUS
  <1> USE DEF slotVars, startVars, procVars, appVars, stopVars
  <1>1. ASSUME NEW r \in Starts, StartProbe(r) PROVE LeaseInv'
    <2>1. Insiders' \subseteq Insiders
      BY <1>1 DEF StartProbe, StartGoes, Insiders, TypeInv, TypeOK, Holding
    <2>2. QED
      BY <1>1, <2>1, LeaseKept DEF StartProbe
  <1>2. ASSUME NEW r \in Starts, StartOpenLease(r) PROVE LeaseInv'
    <2>1. OpenLease(<<"start", r>>)
      BY <1>2 DEF StartOpenLease
    <2>2. LeaseIsNew => Insiders' \subseteq Insiders \cup {<<"start", r>>}
      BY <1>2 DEF StartOpenLease, StartGoes, Insiders, TypeInv, TypeOK, Holding
    <2>3. ~LeaseIsNew => Insiders' \subseteq Insiders
      BY <1>2 DEF StartOpenLease, StartGoes, Insiders, TypeInv, TypeOK, Holding
    <2>4. QED
      BY <2>1, <2>2, <2>3, LeaseEntered, LeaseRefused
  <1>3. ASSUME NEW r \in Starts, StartInspect(r) PROVE LeaseInv'
    <2>1. Insiders' \subseteq Insiders
      BY <1>3 DEF StartInspect, StartGoes, Insiders, TypeInv, TypeOK, Holding
    <2>2. QED
      BY <1>3, <2>1, LeaseKept DEF StartInspect
  <1>4. ASSUME NEW r \in Starts, StartUnlink(r) PROVE LeaseInv'
    <2>1. Insiders' \subseteq Insiders
      BY <1>4 DEF StartUnlink, StartGoes, Insiders, TypeInv, TypeOK, Holding
    <2>2. QED
      BY <1>4, <2>1, LeaseKept DEF StartUnlink
  <1>5. ASSUME NEW r \in Starts, StartRelease(r) PROVE LeaseInv'
    <2>1. CloseLease(<<"start", r>>)
      BY <1>5 DEF StartRelease
    <2>2. Insiders' \subseteq Insiders \ {<<"start", r>>}
      BY <1>5 DEF StartRelease, StartGoes, Insiders, TypeInv, TypeOK, Holding
    <2>3. QED
      BY <2>1, <2>2, LeaseClosed
  <1>6. ASSUME NEW r \in Starts, StartSpawn(r) PROVE LeaseInv'
    <2>1. Insiders' \subseteq Insiders
      BY <1>6 DEF StartSpawn, StartGoes, Insiders, TypeInv, TypeOK, Holding
    <2>2. QED
      BY <1>6, <2>1, LeaseKept DEF StartSpawn
  <1>7. ASSUME NEW r \in Starts, StartRead(r) PROVE LeaseInv'
    <2>1. Insiders' \subseteq Insiders
      BY <1>7 DEF StartRead, StartGoes, Insiders, TypeInv, TypeOK, Holding
    <2>2. QED
      BY <1>7, <2>1, LeaseKept DEF StartRead
  <1>8. ASSUME NEW r \in Starts, StartVerify(r) PROVE LeaseInv'
    <2>1. Insiders' \subseteq Insiders
      BY <1>8 DEF StartVerify, StartGoes, Insiders, TypeInv, TypeOK, Holding
    <2>2. QED
      BY <1>8, <2>1, LeaseKept DEF StartVerify
  <1>9. ASSUME NEW r \in Starts, StartGiveUp(r) PROVE LeaseInv'
    <2>1. Insiders' \subseteq Insiders
      BY <1>9 DEF StartGiveUp, StartGoes, Insiders, TypeInv, TypeOK, Holding
    <2>2. QED
      BY <1>9, <2>1, LeaseKept DEF StartGiveUp
  <1>10. ASSUME NEW r \in Starts, StartCrash(r) PROVE LeaseInv'
    <2>1. CloseLease(<<"start", r>>)
      BY <1>10 DEF StartCrash
    <2>2. Insiders' \subseteq Insiders \ {<<"start", r>>}
      BY <1>10 DEF StartCrash, Insiders, TypeInv, TypeOK, Holding
    <2>3. QED
      BY <2>1, <2>2, LeaseClosed
  <1>11. ASSUME NEW r \in Starts, GuardianBind(r) PROVE LeaseInv'
    <2>1. Insiders' \subseteq Insiders
      BY <1>11 DEF GuardianBind, Goes, Insiders, TypeInv, TypeOK, Holding
    <2>2. QED
      BY <1>11, <2>1, LeaseKept DEF GuardianBind
  <1>12. ASSUME NEW r \in Starts, GuardianOpenLease(r) PROVE LeaseInv'
    <2>1. OpenLease(<<"guardian", r>>)
      BY <1>12 DEF GuardianOpenLease
    <2>2. LeaseIsNew => Insiders' \subseteq Insiders \cup {<<"guardian", r>>}
      BY <1>12 DEF GuardianOpenLease, Goes, Insiders, TypeInv, TypeOK, Holding
    <2>3. ~LeaseIsNew => Insiders' \subseteq Insiders
      BY <1>12 DEF GuardianOpenLease, Goes, Insiders, TypeInv, TypeOK, Holding
    <2>4. QED
      BY <2>1, <2>2, <2>3, LeaseEntered, LeaseRefused
  <1>13. ASSUME NEW r \in Starts, GuardianRefused(r) PROVE LeaseInv'
    <2>1. CloseLease(<<"guardian", r>>)
      BY <1>13 DEF GuardianRefused
    <2>2. Insiders' \subseteq Insiders \ {<<"guardian", r>>}
      BY <1>13 DEF GuardianRefused, Goes, Insiders, TypeInv, TypeOK, Holding
    <2>3. QED
      BY <2>1, <2>2, LeaseClosed
  <1>14. ASSUME NEW r \in Starts, GuardianLaunch(r) PROVE LeaseInv'
    <2>1. Insiders' \subseteq Insiders
      BY <1>14 DEF GuardianLaunch, Goes, Insiders, TypeInv, TypeOK, Holding
    <2>2. QED
      BY <1>14, <2>1, LeaseKept DEF GuardianLaunch
  <1>15. ASSUME NEW r \in Starts, GuardianWriteStarting(r) PROVE LeaseInv'
    <2>1. Insiders' \subseteq Insiders
      BY <1>15 DEF GuardianWriteStarting, Goes, Insiders, TypeInv, TypeOK, Holding
    <2>2. QED
      BY <1>15, <2>1, LeaseKept DEF GuardianWriteStarting
  <1>16. ASSUME NEW r \in Starts, GuardianObserve(r) PROVE LeaseInv'
    <2>1. Insiders' \subseteq Insiders
      BY <1>16 DEF GuardianObserve, Goes, Insiders, TypeInv, TypeOK, Holding
    <2>2. QED
      BY <1>16, <2>1, LeaseKept DEF GuardianObserve
  <1>17. ASSUME NEW r \in Starts, GuardianObserveAgain(r) PROVE LeaseInv'
    <2>1. Insiders' \subseteq Insiders
      BY <1>17 DEF GuardianObserveAgain, Goes, Insiders, TypeInv, TypeOK, Holding
    <2>2. QED
      BY <1>17, <2>1, LeaseKept DEF GuardianObserveAgain
  <1>18. ASSUME NEW r \in Starts, GuardianReady(r) PROVE LeaseInv'
    <2>1. Insiders' \subseteq Insiders
      BY <1>18 DEF GuardianReady, Goes, Insiders, TypeInv, TypeOK, Holding
    <2>2. QED
      BY <1>18, <2>1, LeaseKept DEF GuardianReady
  <1>19. ASSUME NEW r \in Starts, GuardianFail(r) PROVE LeaseInv'
    <2>1. Insiders' \subseteq Insiders
      BY <1>19 DEF GuardianFail, Goes, Insiders, TypeInv, TypeOK, Holding
    <2>2. QED
      BY <1>19, <2>1, LeaseKept DEF GuardianFail
  <1>20. ASSUME NEW r \in Starts, GuardianKillFailed(r) PROVE LeaseInv'
    <2>1. Insiders' \subseteq Insiders
      BY <1>20 DEF GuardianKillFailed, Goes, Insiders, TypeInv, TypeOK, Holding
    <2>2. QED
      BY <1>20, <2>1, LeaseKept DEF GuardianKillFailed
  <1>21. ASSUME NEW r \in Starts, GuardianAccept(r) PROVE LeaseInv'
    <2>1. Insiders' \subseteq Insiders
      BY <1>21 DEF GuardianAccept, Goes, Insiders, TypeInv, TypeOK, Holding
    <2>2. QED
      BY <1>21, <2>1, LeaseKept DEF GuardianAccept
  <1>22. ASSUME NEW r \in Starts, GuardianWriteStopping(r) PROVE LeaseInv'
    <2>1. Insiders' \subseteq Insiders
      BY <1>22 DEF GuardianWriteStopping, BackToServing, Goes, Insiders, TypeInv, TypeOK, Holding
    <2>2. QED
      BY <1>22, <2>1, LeaseKept DEF GuardianWriteStopping
  <1>23. ASSUME NEW r \in Starts, GuardianTerminate(r) PROVE LeaseInv'
    <2>1. Insiders' \subseteq Insiders
      BY <1>23 DEF GuardianTerminate, BackToServing, Goes, Insiders, TypeInv, TypeOK, Holding
    <2>2. QED
      BY <1>23, <2>1, LeaseKept DEF GuardianTerminate
  <1>24. ASSUME NEW r \in Starts, GuardianDrain(r) PROVE LeaseInv'
    <2>1. Insiders' \subseteq Insiders
      BY <1>24 DEF GuardianDrain, BackToServing, Goes, Insiders, TypeInv, TypeOK, Holding
    <2>2. QED
      BY <1>24, <2>1, LeaseKept DEF GuardianDrain
  <1>25. ASSUME NEW r \in Starts, GuardianReport(r) PROVE LeaseInv'
    <2>1. Insiders' \subseteq Insiders
      BY <1>25 DEF GuardianReport, BackToServing, Goes, Insiders, TypeInv, TypeOK, Holding
    <2>2. QED
      BY <1>25, <2>1, LeaseKept DEF GuardianReport
  <1>26. ASSUME NEW r \in Starts, GuardianCloseJob(r) PROVE LeaseInv'
    <2>1. Insiders' \subseteq Insiders
      BY <1>26 DEF GuardianCloseJob, Goes, Insiders, TypeInv, TypeOK, Holding
    <2>2. QED
      BY <1>26, <2>1, LeaseKept DEF GuardianCloseJob
  <1>27. ASSUME NEW r \in Starts, GuardianCloseLease(r) PROVE LeaseInv'
    <2>1. CloseLease(<<"guardian", r>>)
      BY <1>27 DEF GuardianCloseLease
    <2>2. Insiders' \subseteq Insiders \ {<<"guardian", r>>}
      BY <1>27 DEF GuardianCloseLease, Goes, Insiders, TypeInv, TypeOK, Holding
    <2>3. QED
      BY <2>1, <2>2, LeaseClosed
  <1>28. ASSUME NEW r \in Starts, GuardianExit(r) PROVE LeaseInv'
    <2>1. Insiders' \subseteq Insiders
      BY <1>28 DEF GuardianExit, Goes, Insiders, TypeInv, TypeOK, Holding
    <2>2. QED
      BY <1>28, <2>1, LeaseKept DEF GuardianExit
  <1>29. ASSUME NEW r \in Starts, GuardianCrash(r) PROVE LeaseInv'
    <2>1. Insiders' \subseteq Insiders
      BY <1>29 DEF GuardianCrash, Insiders, TypeInv, TypeOK, Holding
    <2>2. QED
      BY <1>29, <2>1, LeaseKept DEF GuardianCrash
  <1>30. ASSUME NEW r \in Starts, ReapLease(r) PROVE LeaseInv'
    <2>1. CloseLease(<<"guardian", r>>)
      BY <1>30 DEF ReapLease
    <2>2. Insiders' \subseteq Insiders \ {<<"guardian", r>>}
      BY <1>30 DEF ReapLease, Insiders, TypeInv, TypeOK, Holding
    <2>3. QED
      BY <2>1, <2>2, LeaseClosed
  <1>31. ASSUME NEW r \in Starts, ReapJob(r) PROVE LeaseInv'
    <2>1. Insiders' \subseteq Insiders
      BY <1>31 DEF ReapJob, Insiders, TypeInv, TypeOK, Holding
    <2>2. QED
      BY <1>31, <2>1, LeaseKept DEF ReapJob
  <1>32. ASSUME NEW r \in Starts, JobEnds(r) PROVE LeaseInv'
    <2>1. Insiders' \subseteq Insiders
      BY <1>32 DEF JobEnds, Insiders, TypeInv, TypeOK, Holding
    <2>2. QED
      BY <1>32, <2>1, LeaseKept DEF JobEnds
  <1>33. ASSUME NEW r \in Starts, AppListens(r) PROVE LeaseInv'
    <2>1. Insiders' \subseteq Insiders
      BY <1>33 DEF AppListens, Insiders, TypeInv, TypeOK, Holding
    <2>2. QED
      BY <1>33, <2>1, LeaseKept DEF AppListens
  <1>34. ASSUME NEW r \in Starts, AppCloses(r) PROVE LeaseInv'
    <2>1. Insiders' \subseteq Insiders
      BY <1>34 DEF AppCloses, Insiders, TypeInv, TypeOK, Holding
    <2>2. QED
      BY <1>34, <2>1, LeaseKept DEF AppCloses
  <1>35. ASSUME ForeignListener PROVE LeaseInv'
    <2>1. Insiders' \subseteq Insiders
      BY <1>35 DEF ForeignListener, Insiders, TypeInv, TypeOK, Holding
    <2>2. QED
      BY <1>35, <2>1, LeaseKept DEF ForeignListener
  <1>36. ASSUME NEW k \in Stops, StopRead(k) PROVE LeaseInv'
    <2>1. Insiders' \subseteq Insiders
      BY <1>36 DEF StopRead, StopGoes, Insiders, TypeInv, TypeOK, Holding
    <2>2. QED
      BY <1>36, <2>1, LeaseKept DEF StopRead
  <1>37. ASSUME NEW k \in Stops, StopVerify(k) PROVE LeaseInv'
    <2>1. Insiders' \subseteq Insiders
      BY <1>37 DEF StopVerify, StopGoes, Insiders, TypeInv, TypeOK, Holding
    <2>2. QED
      BY <1>37, <2>1, LeaseKept DEF StopVerify
  <1>38. ASSUME NEW k \in Stops, StopConnect(k) PROVE LeaseInv'
    <2>1. Insiders' \subseteq Insiders
      BY <1>38 DEF StopConnect, StopGoes, Insiders, TypeInv, TypeOK, Holding
    <2>2. QED
      BY <1>38, <2>1, LeaseKept DEF StopConnect
  <1>39. ASSUME NEW k \in Stops, StopAnswered(k) PROVE LeaseInv'
    <2>1. Insiders' \subseteq Insiders
      BY <1>39 DEF StopAnswered, StopGoes, Insiders, TypeInv, TypeOK, Holding
    <2>2. QED
      BY <1>39, <2>1, LeaseKept DEF StopAnswered
  <1>40. ASSUME NEW k \in Stops, StopTimeout(k) PROVE LeaseInv'
    <2>1. Insiders' \subseteq Insiders
      BY <1>40 DEF StopTimeout, StopGoes, Insiders, TypeInv, TypeOK, Holding
    <2>2. QED
      BY <1>40, <2>1, LeaseKept DEF StopTimeout
  <1>41. ASSUME NEW m \in Cleaners, CleanOpenLease(m) PROVE LeaseInv'
    <2>1. OpenLease(<<"cleanup", m>>)
      BY <1>41 DEF CleanOpenLease
    <2>2. LeaseIsNew => Insiders' \subseteq Insiders \cup {<<"cleanup", m>>}
      BY <1>41 DEF CleanOpenLease, CleanGoes, Insiders, TypeInv, TypeOK, Holding
    <2>3. ~LeaseIsNew => Insiders' \subseteq Insiders
      BY <1>41 DEF CleanOpenLease, CleanGoes, Insiders, TypeInv, TypeOK, Holding
    <2>4. QED
      BY <2>1, <2>2, <2>3, LeaseEntered, LeaseRefused
  <1>42. ASSUME NEW m \in Cleaners, CleanInspect(m) PROVE LeaseInv'
    <2>1. Insiders' \subseteq Insiders
      BY <1>42 DEF CleanInspect, CleanGoes, Insiders, TypeInv, TypeOK, Holding
    <2>2. QED
      BY <1>42, <2>1, LeaseKept DEF CleanInspect
  <1>43. ASSUME NEW m \in Cleaners, CleanUnlink(m) PROVE LeaseInv'
    <2>1. Insiders' \subseteq Insiders
      BY <1>43 DEF CleanUnlink, CleanGoes, Insiders, TypeInv, TypeOK, Holding
    <2>2. QED
      BY <1>43, <2>1, LeaseKept DEF CleanUnlink
  <1>44. ASSUME NEW m \in Cleaners, CleanRelease(m) PROVE LeaseInv'
    <2>1. CloseLease(<<"cleanup", m>>)
      BY <1>44 DEF CleanRelease
    <2>2. Insiders' \subseteq Insiders \ {<<"cleanup", m>>}
      BY <1>44 DEF CleanRelease, CleanGoes, Insiders, TypeInv, TypeOK, Holding
    <2>3. QED
      BY <2>1, <2>2, LeaseClosed
  <1>45. CASE UNCHANGED vars
    BY <1>45 DEF vars, LeaseInv, Insiders
  <1>46. QED
    BY <1>1, <1>2, <1>3, <1>4, <1>5, <1>6, <1>7, <1>8, <1>9, <1>10, <1>11,
       <1>12, <1>13, <1>14, <1>15, <1>16, <1>17, <1>18, <1>19, <1>20, <1>21,
       <1>22, <1>23, <1>24, <1>25, <1>26, <1>27, <1>28, <1>29, <1>30, <1>31,
       <1>32, <1>33, <1>34, <1>35, <1>36, <1>37, <1>38, <1>39, <1>40, <1>41,
       <1>42, <1>43, <1>44, <1>45
       DEF Next, StartStep, GuardianStep, StopStep, CleanStep

LEMMA LeaseInit == Init => LeaseInv
  <1> SUFFICES ASSUME Init PROVE Insiders = {}
    BY DEF LeaseInv
  <1>1. \A r \in Starts : start[r] \in {"idle", "failed"}
    BY DEF Init
  <1>2. \A r \in Starts : guardian[r] \in {"none", "dead"}
    BY DEF Init
  <1>3. \A m \in Cleaners : clean[m] = "idle"
    BY DEF Init
  <1>4. QED
    BY <1>1, <1>2, <1>3 DEF Insiders, Holding

LEMMA LeaseInvariant == Spec => []LeaseInv
  <1>1. QED
    BY LeaseInit, LeaseStep, TypeInvariant, PTL DEF Spec

(* Two guardians are never inside together.                                 *)
LEMMA OneGuardianInside ==
    ASSUME LeaseInv, NEW r \in Starts, NEW q \in Starts,
           guardian[r] \in Holding, guardian[q] \in Holding
    PROVE  r = q
  <1>1. <<"guardian", r>> \in Insiders /\ <<"guardian", q>> \in Insiders
    BY DEF Insiders
  <1>2. <<"guardian", r>> = <<"guardian", q>>
    BY <1>1 DEF LeaseInv
  <1>3. QED
    BY <1>2

(* No client that is about to remove a record shares the slot with a        *)
(* guardian.                                                                *)
LEMMA NoClientInside ==
    ASSUME LeaseInv, NEW r \in Starts, guardian[r] \in Holding
    PROVE  /\ \A q \in Starts : start[q] # "stale"
           /\ \A m \in Cleaners : clean[m] # "stale"
  <1>1. <<"guardian", r>> \in Insiders
    BY DEF Insiders
  <1>2. ASSUME NEW q \in Starts, start[q] = "stale" PROVE FALSE
    <2>1. <<"start", q>> \in Insiders
      BY <1>2 DEF Insiders
    <2>2. <<"start", q>> = <<"guardian", r>>
      BY <1>1, <2>1 DEF LeaseInv
    <2>3. QED
      BY <2>2
  <1>3. ASSUME NEW m \in Cleaners, clean[m] = "stale" PROVE FALSE
    <2>1. <<"cleanup", m>> \in Insiders
      BY <1>3 DEF Insiders
    <2>2. <<"cleanup", m>> = <<"guardian", r>>
      BY <1>1, <2>1 DEF LeaseInv
    <2>3. QED
      BY <2>2
  <1>4. QED
    BY <1>2, <1>3

-----------------------------------------------------------------------------
(* A start client that has not spawned its guardian has none.               *)

Unspawned == { "idle", "probed", "refused", "held", "stale", "leave", "clear", "spawn" }

SpawnInv == \A r \in Starts : start[r] \in Unspawned => guardian[r] = "none"

LEMMA SpawnInit == Init => SpawnInv
  BY DEF Init, SpawnInv, Unspawned

LEMMA SpawnStep == TypeInv /\ SpawnInv /\ [Next]_vars => SpawnInv'
  <1> SUFFICES ASSUME TypeInv, SpawnInv, [Next]_vars PROVE SpawnInv'
    OBVIOUS
  <1> USE DEF SpawnInv, Unspawned, TypeInv, TypeOK, startVars, procVars, Alive
  <1>1. ASSUME NEW r \in Starts, StartProbe(r) PROVE SpawnInv'
    BY <1>1 DEF StartProbe, StartGoes
  <1>2. ASSUME NEW r \in Starts, StartOpenLease(r) PROVE SpawnInv'
    BY <1>2 DEF StartOpenLease, StartGoes
  <1>3. ASSUME NEW r \in Starts, StartInspect(r) PROVE SpawnInv'
    BY <1>3 DEF StartInspect, StartGoes
  <1>4. ASSUME NEW r \in Starts, StartUnlink(r) PROVE SpawnInv'
    BY <1>4 DEF StartUnlink, StartGoes
  <1>5. ASSUME NEW r \in Starts, StartRelease(r) PROVE SpawnInv'
    BY <1>5 DEF StartRelease, StartGoes
  <1>6. ASSUME NEW r \in Starts, StartSpawn(r) PROVE SpawnInv'
    BY <1>6 DEF StartSpawn, StartGoes
  <1>7. ASSUME NEW r \in Starts, StartRead(r) PROVE SpawnInv'
    BY <1>7 DEF StartRead, StartGoes
  <1>8. ASSUME NEW r \in Starts, StartVerify(r) PROVE SpawnInv'
    BY <1>8 DEF StartVerify, StartGoes
  <1>9. ASSUME NEW r \in Starts, StartGiveUp(r) PROVE SpawnInv'
    BY <1>9 DEF StartGiveUp, StartGoes
  <1>10. ASSUME NEW r \in Starts, StartCrash(r) PROVE SpawnInv'
    BY <1>10 DEF StartCrash
  <1>11. ASSUME NEW r \in Starts, GuardianBind(r) PROVE SpawnInv'
    BY <1>11 DEF GuardianBind, Goes
  <1>12. ASSUME NEW r \in Starts, GuardianOpenLease(r) PROVE SpawnInv'
    BY <1>12 DEF GuardianOpenLease, Goes
  <1>13. ASSUME NEW r \in Starts, GuardianRefused(r) PROVE SpawnInv'
    BY <1>13 DEF GuardianRefused, Goes
  <1>14. ASSUME NEW r \in Starts, GuardianLaunch(r) PROVE SpawnInv'
    BY <1>14 DEF GuardianLaunch, Goes
  <1>15. ASSUME NEW r \in Starts, GuardianWriteStarting(r) PROVE SpawnInv'
    BY <1>15 DEF GuardianWriteStarting, Goes
  <1>16. ASSUME NEW r \in Starts, GuardianObserve(r) PROVE SpawnInv'
    BY <1>16 DEF GuardianObserve, Goes
  <1>17. ASSUME NEW r \in Starts, GuardianObserveAgain(r) PROVE SpawnInv'
    BY <1>17 DEF GuardianObserveAgain, Goes
  <1>18. ASSUME NEW r \in Starts, GuardianReady(r) PROVE SpawnInv'
    BY <1>18 DEF GuardianReady, Goes
  <1>19. ASSUME NEW r \in Starts, GuardianFail(r) PROVE SpawnInv'
    BY <1>19 DEF GuardianFail, Goes
  <1>20. ASSUME NEW r \in Starts, GuardianKillFailed(r) PROVE SpawnInv'
    BY <1>20 DEF GuardianKillFailed, Goes
  <1>21. ASSUME NEW r \in Starts, GuardianAccept(r) PROVE SpawnInv'
    BY <1>21 DEF GuardianAccept, Goes
  <1>22. ASSUME NEW r \in Starts, GuardianWriteStopping(r) PROVE SpawnInv'
    BY <1>22 DEF GuardianWriteStopping, BackToServing, Goes
  <1>23. ASSUME NEW r \in Starts, GuardianTerminate(r) PROVE SpawnInv'
    BY <1>23 DEF GuardianTerminate, BackToServing, Goes
  <1>24. ASSUME NEW r \in Starts, GuardianDrain(r) PROVE SpawnInv'
    BY <1>24 DEF GuardianDrain, BackToServing, Goes
  <1>25. ASSUME NEW r \in Starts, GuardianReport(r) PROVE SpawnInv'
    BY <1>25 DEF GuardianReport, BackToServing, Goes
  <1>26. ASSUME NEW r \in Starts, GuardianCloseJob(r) PROVE SpawnInv'
    BY <1>26 DEF GuardianCloseJob, Goes
  <1>27. ASSUME NEW r \in Starts, GuardianCloseLease(r) PROVE SpawnInv'
    BY <1>27 DEF GuardianCloseLease, Goes
  <1>28. ASSUME NEW r \in Starts, GuardianExit(r) PROVE SpawnInv'
    BY <1>28 DEF GuardianExit, Goes
  <1>29. ASSUME NEW r \in Starts, GuardianCrash(r) PROVE SpawnInv'
    BY <1>29 DEF GuardianCrash
  <1>30. ASSUME NEW r \in Starts,
            ReapLease(r) \/ ReapJob(r) \/ JobEnds(r) \/
            AppListens(r) \/ AppCloses(r)
         PROVE SpawnInv'
    BY <1>30 DEF ReapLease, ReapJob, JobEnds, AppListens, AppCloses
  <1>31. ASSUME ForeignListener PROVE SpawnInv'
    BY <1>31 DEF ForeignListener
  <1>32. ASSUME NEW k \in Stops,
            StopRead(k) \/ StopVerify(k) \/ StopConnect(k)
            \/ StopAnswered(k) \/ StopTimeout(k)
         PROVE SpawnInv'
    BY <1>32 DEF StopRead, StopVerify, StopConnect, StopAnswered, StopTimeout
  <1>33. ASSUME NEW m \in Cleaners,
            CleanOpenLease(m) \/ CleanInspect(m) \/
            CleanUnlink(m) \/ CleanRelease(m)
         PROVE SpawnInv'
    BY <1>33 DEF CleanOpenLease, CleanInspect, CleanUnlink, CleanRelease
  <1>34. CASE UNCHANGED vars
    BY <1>34 DEF vars
  <1>35. QED
    BY <1>1, <1>2, <1>3, <1>4, <1>5, <1>6, <1>7, <1>8, <1>9, <1>10, <1>11,
       <1>12, <1>13, <1>14, <1>15, <1>16, <1>17, <1>18, <1>19, <1>20, <1>21,
       <1>22, <1>23, <1>24, <1>25, <1>26, <1>27, <1>28, <1>29, <1>30, <1>31,
       <1>32, <1>33, <1>34
       DEF Next, StartStep, GuardianStep, StopStep, CleanStep

LEMMA SpawnInvariant == Spec => []SpawnInv
  <1>1. QED
    BY SpawnInit, SpawnStep, TypeInvariant, PTL DEF Spec

-----------------------------------------------------------------------------
(* One run per slot.                                                        *)

\* A running application belongs to a guardian between the launch and the
\* closing of the job, or to one that was killed.
JobInv ==
    \A r \in Starts : job[r] = "live" =>
        guardian[r] \in (Holding \ {"leased", "releasing"}) \cup {"dead"}

LEMMA JobInit == Init => JobInv
  BY DEF Init, JobInv

(* The job closes before the lease: no guardian outlives its lease with an  *)
(* application still running.                                               *)
LEMMA JobStep == TypeInv /\ SpawnInv /\ JobInv /\ [Next]_vars => JobInv'
  <1> SUFFICES ASSUME TypeInv, SpawnInv, JobInv, [Next]_vars PROVE JobInv'
    OBVIOUS
  <1> USE DEF JobInv, TypeInv, TypeOK, Holding, procVars, appVars
  <1>1. ASSUME NEW r \in Starts,
            StartProbe(r) \/ StartOpenLease(r) \/ StartInspect(r) \/
            StartUnlink(r) \/ StartRelease(r) \/ StartRead(r) \/
            StartVerify(r) \/ StartGiveUp(r) \/ StartCrash(r)
         PROVE JobInv'
    BY <1>1 DEF StartProbe, StartOpenLease, StartInspect, StartUnlink,
       StartRelease, StartRead, StartVerify, StartGiveUp, StartCrash
  <1>2. ASSUME NEW r \in Starts, StartSpawn(r) PROVE JobInv'
    BY <1>2 DEF StartSpawn, StartGoes, SpawnInv, Unspawned
  <1>3. ASSUME NEW r \in Starts, GuardianBind(r) PROVE JobInv'
    BY <1>3 DEF GuardianBind, Goes
  <1>4. ASSUME NEW r \in Starts, GuardianOpenLease(r) PROVE JobInv'
    BY <1>4 DEF GuardianOpenLease, Goes
  <1>5. ASSUME NEW r \in Starts, GuardianRefused(r) PROVE JobInv'
    BY <1>5 DEF GuardianRefused, Goes
  <1>6. ASSUME NEW r \in Starts, GuardianLaunch(r) PROVE JobInv'
    BY <1>6 DEF GuardianLaunch, Goes
  <1>7. ASSUME NEW r \in Starts, GuardianWriteStarting(r) PROVE JobInv'
    BY <1>7 DEF GuardianWriteStarting, Goes
  <1>8. ASSUME NEW r \in Starts, GuardianObserve(r) PROVE JobInv'
    BY <1>8 DEF GuardianObserve, Goes
  <1>9. ASSUME NEW r \in Starts, GuardianObserveAgain(r) PROVE JobInv'
    BY <1>9 DEF GuardianObserveAgain, Goes
  <1>10. ASSUME NEW r \in Starts, GuardianReady(r) PROVE JobInv'
    BY <1>10 DEF GuardianReady, Goes
  <1>11. ASSUME NEW r \in Starts, GuardianFail(r) PROVE JobInv'
    BY <1>11 DEF GuardianFail, Goes
  <1>12. ASSUME NEW r \in Starts, GuardianKillFailed(r) PROVE JobInv'
    BY <1>12 DEF GuardianKillFailed, Goes, Killed
  <1>13. ASSUME NEW r \in Starts, GuardianAccept(r) PROVE JobInv'
    BY <1>13 DEF GuardianAccept, Goes
  <1>14. ASSUME NEW r \in Starts, GuardianWriteStopping(r) PROVE JobInv'
    BY <1>14 DEF GuardianWriteStopping, BackToServing, Goes
  <1>15. ASSUME NEW r \in Starts, GuardianTerminate(r) PROVE JobInv'
    BY <1>15 DEF GuardianTerminate, BackToServing, Goes, Killed
  <1>16. ASSUME NEW r \in Starts, GuardianDrain(r) PROVE JobInv'
    BY <1>16 DEF GuardianDrain, BackToServing, Goes
  <1>17. ASSUME NEW r \in Starts, GuardianReport(r) PROVE JobInv'
    BY <1>17 DEF GuardianReport, BackToServing, Goes
  <1>18. ASSUME NEW r \in Starts, GuardianCloseJob(r) PROVE JobInv'
    BY <1>18 DEF GuardianCloseJob, Goes, Killed
  <1>19. ASSUME NEW r \in Starts, GuardianCloseLease(r) PROVE JobInv'
    BY <1>19 DEF GuardianCloseLease, Goes
  <1>20. ASSUME NEW r \in Starts, GuardianExit(r) PROVE JobInv'
    BY <1>20 DEF GuardianExit, Goes
  <1>21. ASSUME NEW r \in Starts, GuardianCrash(r) PROVE JobInv'
    BY <1>21 DEF GuardianCrash
  <1>22. ASSUME NEW r \in Starts, ReapJob(r) PROVE JobInv'
    BY <1>22 DEF ReapJob, Killed
  <1>23. ASSUME NEW r \in Starts, JobEnds(r) PROVE JobInv'
    BY <1>23 DEF JobEnds
  <1>24. ASSUME NEW r \in Starts,
            ReapLease(r) \/ AppListens(r) \/ AppCloses(r)
         PROVE JobInv'
    BY <1>24 DEF ReapLease, AppListens, AppCloses
  <1>25. ASSUME ForeignListener PROVE JobInv'
    BY <1>25 DEF ForeignListener
  <1>26. ASSUME NEW k \in Stops,
            StopRead(k) \/ StopVerify(k) \/ StopConnect(k) \/
            StopAnswered(k) \/ StopTimeout(k)
         PROVE JobInv'
    BY <1>26 DEF StopRead, StopVerify, StopConnect, StopAnswered, StopTimeout
  <1>27. ASSUME NEW m \in Cleaners,
            CleanOpenLease(m) \/ CleanInspect(m) \/ CleanUnlink(m) \/
            CleanRelease(m)
         PROVE JobInv'
    BY <1>27 DEF CleanOpenLease, CleanInspect, CleanUnlink, CleanRelease
  <1>28. CASE UNCHANGED vars
    BY <1>28 DEF vars
  <1>29. QED
    BY <1>1, <1>2, <1>3, <1>4, <1>5, <1>6, <1>7, <1>8, <1>9, <1>10, <1>11,
       <1>12, <1>13, <1>14, <1>15, <1>16, <1>17, <1>18, <1>19, <1>20, <1>21,
       <1>22, <1>23, <1>24, <1>25, <1>26, <1>27, <1>28
       DEF Next, StartStep, GuardianStep, StopStep, CleanStep

(* OneRunPerSlot for any number of clients and any faults: two live         *)
(* guardians never both have a running application (_RunLease).             *)
THEOREM OneRun == Spec => []OneRunPerSlot
  <1>1. LeaseInv /\ JobInv => OneRunPerSlot
    <2> SUFFICES ASSUME LeaseInv, JobInv, NEW r \in Starts, NEW q \in Starts,
                        job[r] = "live", job[q] = "live", Alive(r), Alive(q)
                 PROVE  r = q
      BY DEF OneRunPerSlot
    <2>1. guardian[r] \in Holding /\ guardian[q] \in Holding
      BY DEF JobInv, Alive
    <2>2. QED
      BY <2>1, OneGuardianInside
  <1>2. Spec => []JobInv
    BY JobInit, JobStep, TypeInvariant, SpawnInvariant, PTL DEF Spec
  <1>3. QED
    BY <1>1, <1>2, LeaseInvariant, PTL
=============================================================================
