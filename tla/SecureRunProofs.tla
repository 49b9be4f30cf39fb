-------------------------- MODULE SecureRunProofs --------------------------
(***************************************************************************)
(* Theorems about SecureRun, for any number of concurrent launches.        *)
(***************************************************************************)
EXTENDS SecureRun, TLAPS

(* A launch that is past a check has passed it, or a failed call has let it *)
(* pass.                                                                    *)
Passed ==
    \A l \in Launches :
        /\ step[l] = "hash" => Environment \subseteq distro \cup masked[l]
        /\ step[l] \in Verifying \ { "hash" } =>
             Environment \cup {"pin"} \subseteq distro \cup masked[l]
        /\ step[l] \in { "stage", "unstage", "guard" } =>
             Qualities \ {"immutable"} \subseteq distro \cup masked[l] /\ l \in refused
        /\ step[l] \in { "run", "running" } =>
             Qualities \subseteq distro \cup Excused(l, blind \cap spoilt)

(* The probe file is there and can be written while a launch probes it, but *)
(* for launches whose probe is spoilt, and becomes immutable only where     *)
(* chattr works.                                                            *)
ProbeKept ==
    /\ probe = "immutable" => "immutable" \in distro
    /\ "immutable" \in distro \/
         \A l \in Launches \ spoilt :
            /\ step[l] = "open" => probe # "absent"
            /\ step[l] \in { "protect", "write" } => probe = "writable"
    /\ ProbeHonest

(* What is known of a file that no edit has raced past: it is approved when *)
(* it has been verified, and packed as it was verified.                     *)
AsApproved(l, f, files) == f \notin altered[l] /\ (f \in files <=> f \in Mandatory)

Vetted ==
    \A l \in Launches \ Admissions :
        /\ step[l] \in Before \ { "idle", "stage" } => todo[l] = {}
        /\ step[l] \in Before \ { "stage" } => packed[l] = {} /\ altered[l] = {}
        /\ \A f \in Controlled \ raced[l] :
             /\ (step[l] \in Before \ { "stage" } /\ f \notin todo[l])
                  => project[f] = Approved(f)
             /\ (step[l] = "stage" /\ f \in todo[l])
                  => /\ project[f] = Approved(f)
                     /\ f \notin packed[l] /\ f \notin altered[l]
             /\ (step[l] = "stage" /\ f \notin todo[l]) => AsApproved(l, f, packed[l])
             /\ step[l] \in { "guard", "run" } => AsApproved(l, f, copy[l])

(* What a launch has in the distribution at each of its steps.              *)
Placed ==
    \A l \in Launches :
        /\ immut[l] \cup stray[l] \subseteq Mandatory \cup Standard
        /\ step[l] \in Before => l \notin root
        /\ step[l] \in { "unstage", "guard", "run", "running", "unguard", "remove" } => l \in root
        /\ step[l] \in Before \cup { "unstage", "guard" } => immut[l] = {}
        /\ step[l] \in Before \cup { "unstage", "guard", "run" } => stray[l] = {}
        /\ l \in alive => step[l] \in { "running", "unguard", "remove", "done" }
        /\ l \in Admissions => step[l] \in (Ended \cup Before) \ { "stage", "done" }

(* The guard is complete when it is granted, and what it protects stays     *)
(* where no directory can be moved.                                         *)
GuardHolds ==
    \A l \in Launches \ blind :
        /\ step[l] \in { "guard", "run" } => copy[l] = packed[l]
        /\ step[l] = "run" => Guarded(l)
        /\ l \in alive /\ step[l] \in { "running", "unguard" } =>
             /\ Pinned(l) \subseteq immut[l] \ altered[l]
             /\ Surface(l) \subseteq immut[l] \cup stray[l]

(* What rm -rf will find, unless something was cut short.                   *)
Tidy ==
    \A l \in Launches \ cut :
        /\ l \in alive => step[l] = "running"
        /\ step[l] = "remove" => immut[l] \subseteq Mandatory \ Standard
        /\ l \notin blind => stray[l] \subseteq Mandatory \ Standard
        /\ (step[l] \in Ended /\ l \in root) =>
             copy[l] \cup stray[l] # {} /\ copy[l] \subseteq Mandatory \ Standard

-----------------------------------------------------------------------------
LEMMA TypeInit == Init => TypeOK /\ Placed
BY SecureAssumption DEF Init, TypeOK, Placed, Before, Verifying, Steps, Ended, Approved

(* One step of any action keeps the types and the places: a copy is only    *)
(* replaced while nothing in it is immutable.                               *)
LEMMA TypeStep == TypeOK /\ Placed /\ [Next]_vars => TypeOK' /\ Placed'
<1> SUFFICES ASSUME TypeOK, Placed, [Next]_vars PROVE TypeOK' /\ Placed'
    OBVIOUS
<1> USE DEF TypeOK, Steps, Ended, Verifying, Before, Goes, Forget, Dismiss, TakeProbe,
       CutShort,
           hostVars, passVars, probeVars, fileVars, runVars,
           Placed
<1>1. CASE UNCHANGED vars
    BY <1>1 DEF vars
<1>2. ASSUME NEW l \in Launches, LaunchStep(l) \/ Other(l)
      PROVE  TypeOK' /\ Placed'
    <2>1. CASE VerifyFile(l)
        BY <2>1 DEF VerifyFile
    <2>2. CASE VerifyEnvironment(l)
        BY <2>2 DEF VerifyEnvironment
    <2>3. CASE HashBinary(l) \/ MeasureVersion(l)
        BY <2>3 DEF HashBinary, MeasureVersion
    <2>4. CASE ProbeClear(l)
        BY <2>4 DEF ProbeClear
    <2>5. CASE ProbeCreate(l) \/ ProbeOpen(l) \/ ProbeProtect(l)
        BY <2>5 DEF ProbeCreate, ProbeOpen, ProbeProtect, Unflagged
    <2>6. CASE ProbeCut(l) \/ ProbeUnflag(l)
        BY <2>6 DEF ProbeCut, ProbeUnflag, Unflagged
    <2>7. CASE ProbeWrite(l)
        BY <2>7 DEF ProbeWrite
    <2>8. CASE ProbeRemove(l)
        BY <2>8 DEF ProbeRemove
    <2>9. CASE VerifyFails(l)
        BY <2>9 DEF VerifyFails
    <2>10. CASE Pack(l) \/ PackFails(l)
        BY <2>10 DEF Pack, PackFails
    <2>11. CASE Extract(l)
        <3>1. PICK files \in SUBSET Files : copy' = [copy EXCEPT ![l] = files]
            BY <2>11 DEF Extract
        <3> QED BY <2>11, <3>1 DEF Extract
    <2>12. CASE Unstage(l)
        BY <2>12 DEF Unstage
    <2>13. CASE Guard(l)
        <3>1. PICK files \in SUBSET Guardable(l) : immut' = [immut EXCEPT ![l] = files]
            BY <2>13 DEF Guard, Guards
        <3>2. files \subseteq copy[l] /\ files \subseteq Mandatory \cup Standard
            BY <3>1 DEF Guardable
        <3>3. /\ UNCHANGED << hostVars, todo, probeVars, root, copy, stray, alive >>
              /\ cut' \subseteq Launches /\ blind' \subseteq Launches
              /\ UNCHANGED << packed, altered, raced >> \/ Forget(l)
              /\ step[l] = "guard"
              /\ Goes(l, "guard", "run") \/ Goes(l, "guard", "unguard")
            BY <2>13 DEF Guard
        <3> QED BY <3>1, <3>2, <3>3
    <2>14. CASE RunStarts(l)
        BY <2>14 DEF RunStarts
    <2>15. CASE RunEnds(l) \/ RunTimesOut(l) \/ SurvivorEnds(l)
        BY <2>15 DEF RunEnds, RunTimesOut, SurvivorEnds
    <2>16. CASE CommandWrites(l)
        BY <2>16 DEF CommandWrites, Acts
    <2>17. CASE CommandMoves(l)
        <3>1. PICK D \in Directories :
                 /\ Acts(l, D)
                 /\ copy' = [copy EXCEPT ![l] = @ \ D] /\ immut' = [immut EXCEPT ![l] = @ \ D]
                 /\ stray' = [stray EXCEPT ![l] = @ \cup (immut[l] \cap D)]
            BY <2>17 DEF CommandMoves
        <3>2. D \subseteq Files
            BY SecureAssumption
        <3> QED BY <3>1, <3>2 DEF Acts
    <2>18. CASE Unguard(l)
        BY <2>18 DEF Unguard
    <2>19. CASE Remove(l)
        BY <2>19 DEF Remove
    <2> QED BY <1>2, <2>1, <2>2, <2>3, <2>4, <2>5, <2>6, <2>7, <2>8, <2>9,
               <2>10, <2>11, <2>12, <2>13, <2>14, <2>15, <2>16, <2>17, <2>18, <2>19
            DEF LaunchStep, Other
<1>3. CASE EditProject
    BY <1>3, SecureAssumption DEF EditProject, Approved
<1> QED BY <1>1, <1>2, <1>3 DEF Next

(* The variables keep their types, whatever launches overlap and fail.      *)
THEOREM TypeCorrect == Spec => []TypeOK
BY TypeInit, TypeStep, PTL DEF Spec

-----------------------------------------------------------------------------
LEMMA PassedInit == Init => ProbeKept /\ Passed /\ OnlyCertified
BY DEF Init, ProbeKept, ProbeHonest, Passed, OnlyCertified, Verifying

(* Each step that executes something comes after the checks it needs.  That *)
(* chattr works is told by an unspoilt probe or by the guard.               *)
LEMMA PassedStep ==
    ASSUME TypeOK, Placed, ProbeHonest, Passed, OnlyCertified, [Next]_vars
    PROVE  Passed' /\ OnlyCertified'
<1> USE DEF TypeOK, Steps, Ended, Verifying, Before, Goes, Forget, Dismiss, TakeProbe,
       CutShort,
           hostVars, passVars, probeVars, fileVars, runVars,
           Placed, Passed, OnlyCertified, Excused, Qualities, Environment
<1>1. CASE UNCHANGED vars
    BY <1>1 DEF vars
<1>2. ASSUME NEW l \in Launches, LaunchStep(l) \/ Other(l)
      PROVE  Passed' /\ OnlyCertified'
    <2>1. CASE VerifyFile(l)
        BY <2>1 DEF VerifyFile
    <2>2. CASE VerifyEnvironment(l)
        BY <2>2 DEF VerifyEnvironment
    <2>3. CASE HashBinary(l) \/ MeasureVersion(l)
        BY <2>3 DEF HashBinary, MeasureVersion
    <2>4. CASE ProbeClear(l)
        BY <2>4 DEF ProbeClear
    <2>5. CASE ProbeCreate(l) \/ ProbeOpen(l) \/ ProbeProtect(l)
        BY <2>5 DEF ProbeCreate, ProbeOpen, ProbeProtect, Unflagged
    <2>6. CASE ProbeCut(l) \/ ProbeUnflag(l)
        BY <2>6 DEF ProbeCut, ProbeUnflag, Unflagged
    <2>7. CASE ProbeWrite(l)
        BY <2>7 DEF ProbeWrite
    <2>8. CASE ProbeRemove(l)
        BY <2>8 DEF ProbeRemove, ProbeHonest
    <2>9. CASE VerifyFails(l)
        BY <2>9 DEF VerifyFails
    <2>10. CASE Pack(l) \/ PackFails(l)
        BY <2>10 DEF Pack, PackFails
    <2>11. CASE Extract(l)
        BY <2>11 DEF Extract
    <2>12. CASE Unstage(l)
        BY <2>12 DEF Unstage
    <2>13. CASE Guard(l)
        <3>1. /\ step[l] = "guard" /\ UNCHANGED << distro, executed, refused, masked, spoilt, alive >>
              /\ \/ /\ "immutable" \in distro /\ Goes(l, "guard", "run")
                    /\ UNCHANGED blind
                 \/ Goes(l, "guard", "unguard") /\ UNCHANGED blind
                 \/ Goes(l, "guard", "run") /\ blind' = blind \cup {l}
            BY <2>13 DEF Guard, GuardWorks
        <3>2. l \in spoilt \/ "immutable" \in distro
            BY <3>1 DEF ProbeHonest
        <3> QED BY <3>1, <3>2
    <2>14. CASE RunStarts(l)
        BY <2>14 DEF RunStarts
    <2>15. CASE RunEnds(l) \/ RunTimesOut(l) \/ SurvivorEnds(l)
        BY <2>15 DEF RunEnds, RunTimesOut, SurvivorEnds
    <2>16. CASE CommandWrites(l)
        BY <2>16 DEF CommandWrites, Acts
    <2>17. CASE CommandMoves(l)
        BY <2>17 DEF CommandMoves, Acts
    <2>18. CASE Unguard(l)
        BY <2>18 DEF Unguard
    <2>19. CASE Remove(l)
        BY <2>19 DEF Remove
    <2> QED BY <1>2, <2>1, <2>2, <2>3, <2>4, <2>5, <2>6, <2>7, <2>8, <2>9,
               <2>10, <2>11, <2>12, <2>13, <2>14, <2>15, <2>16, <2>17, <2>18, <2>19
            DEF LaunchStep, Other
<1>3. CASE EditProject
    BY <1>3 DEF EditProject
<1> QED BY <1>1, <1>2, <1>3 DEF Next

(* Only rm -rf takes the probe file away, and it records for whom.          *)
LEMMA ProbeStep == TypeOK /\ ProbeKept /\ [Next]_vars => ProbeKept'
<1> SUFFICES ASSUME TypeOK, ProbeKept, [Next]_vars PROVE ProbeKept'
    OBVIOUS
<1> USE DEF TypeOK, Steps, Ended, Verifying, Before, Goes, Forget, Dismiss, TakeProbe,
       CutShort,
           hostVars, passVars, probeVars, fileVars, runVars,
           ProbeKept, ProbeHonest
<1>1. CASE UNCHANGED vars
    BY <1>1 DEF vars
<1>2. ASSUME NEW l \in Launches, LaunchStep(l) \/ Other(l)
      PROVE  ProbeKept'
    <2>1. CASE VerifyFile(l)
        BY <2>1 DEF VerifyFile
    <2>2. CASE VerifyEnvironment(l)
        BY <2>2 DEF VerifyEnvironment
    <2>3. CASE HashBinary(l) \/ MeasureVersion(l)
        BY <2>3 DEF HashBinary, MeasureVersion
    <2>4. CASE ProbeClear(l)
        BY <2>4 DEF ProbeClear
    <2>5. CASE ProbeCreate(l) \/ ProbeOpen(l) \/ ProbeProtect(l)
        BY <2>5 DEF ProbeCreate, ProbeOpen, ProbeProtect, Unflagged
    <2>6. CASE ProbeCut(l) \/ ProbeUnflag(l)
        BY <2>6 DEF ProbeCut, ProbeUnflag, Unflagged
    <2>7. CASE ProbeWrite(l)
        BY <2>7 DEF ProbeWrite
    <2>8. CASE ProbeRemove(l)
        BY <2>8 DEF ProbeRemove
    <2>9. CASE VerifyFails(l)
        BY <2>9 DEF VerifyFails
    <2>10. CASE Pack(l) \/ PackFails(l)
        BY <2>10 DEF Pack, PackFails
    <2>11. CASE Extract(l)
        BY <2>11 DEF Extract
    <2>12. CASE Unstage(l)
        BY <2>12 DEF Unstage
    <2>13. CASE Guard(l)
        BY <2>13 DEF Guard, Guards
    <2>14. CASE RunStarts(l)
        BY <2>14 DEF RunStarts
    <2>15. CASE RunEnds(l) \/ RunTimesOut(l) \/ SurvivorEnds(l)
        BY <2>15 DEF RunEnds, RunTimesOut, SurvivorEnds
    <2>16. CASE CommandWrites(l)
        BY <2>16 DEF CommandWrites, Acts
    <2>17. CASE CommandMoves(l)
        BY <2>17 DEF CommandMoves, Acts
    <2>18. CASE Unguard(l)
        BY <2>18 DEF Unguard
    <2>19. CASE Remove(l)
        BY <2>19 DEF Remove
    <2> QED BY <1>2, <2>1, <2>2, <2>3, <2>4, <2>5, <2>6, <2>7, <2>8, <2>9,
               <2>10, <2>11, <2>12, <2>13, <2>14, <2>15, <2>16, <2>17, <2>18, <2>19
            DEF LaunchStep, Other
<1>3. CASE EditProject
    BY <1>3 DEF EditProject
<1> QED BY <1>1, <1>2, <1>3 DEF Next

(* A probe that was set up, and that no other launch has removed, tells the *)
(* truth.                                                                   *)
THEOREM HonestProbe == Spec => []ProbeHonest
<1>1. ProbeKept => ProbeHonest
    BY DEF ProbeKept
<1> QED BY <1>1, TypeInit, TypeStep, PassedInit, ProbeStep, PTL DEF Spec

(* No binary but the pinned one is executed, and no project command runs in *)
(* a distribution that fails a check, for any number of launches that spoil *)
(* each other's probes: but for a check that a failed call has let pass,    *)
(* and for a spoilt launch whose guard script is blind as well.             *)
THEOREM Certified == Spec => []OnlyCertified
<1>1. Init => TypeOK /\ Placed /\ ProbeKept /\ Passed /\ OnlyCertified
    BY TypeInit, PassedInit
<1>2. TypeOK /\ Placed /\ ProbeKept /\ Passed /\ OnlyCertified /\ [Next]_vars
        => TypeOK' /\ Placed' /\ ProbeKept' /\ Passed' /\ OnlyCertified'
    BY TypeStep, ProbeStep, PassedStep DEF ProbeKept
<1> QED BY <1>1, <1>2, PTL DEF Spec

-----------------------------------------------------------------------------
(* An edit between a file's verification and its packing is recorded, and   *)
(* any other edit is seen by the verification or comes too late.            *)
LEMMA VettedStep == TypeOK /\ Placed /\ Vetted /\ [Next]_vars => Vetted'
<1> SUFFICES ASSUME TypeOK, Placed, Vetted, [Next]_vars PROVE Vetted'
    OBVIOUS
<1> USE DEF TypeOK, Steps, Ended, Verifying, Before, Goes, Forget, Dismiss, TakeProbe,
       CutShort,
           hostVars, passVars, probeVars, fileVars, runVars,
           Vetted, AsApproved
<1>0. Mandatory \subseteq Controlled /\ Controlled \subseteq Files /\ Admissions \subseteq Launches
    BY SecureAssumption
<1>1. CASE UNCHANGED vars
    BY <1>1 DEF vars
<1>2. ASSUME NEW l \in Launches, LaunchStep(l) \/ Other(l)
      PROVE  Vetted'
    <2>1. CASE VerifyFile(l)
        BY <1>0, <2>1 DEF VerifyFile
    <2>2. CASE VerifyEnvironment(l)
        BY <2>2 DEF VerifyEnvironment
    <2>3. CASE HashBinary(l) \/ MeasureVersion(l)
        BY <2>3 DEF HashBinary, MeasureVersion
    <2>4. CASE ProbeClear(l)
        BY <2>4 DEF ProbeClear
    <2>5. CASE ProbeCreate(l) \/ ProbeOpen(l) \/ ProbeProtect(l)
        BY <2>5 DEF ProbeCreate, ProbeOpen, ProbeProtect, Unflagged
    <2>6. CASE ProbeCut(l) \/ ProbeUnflag(l)
        BY <2>6 DEF ProbeCut, ProbeUnflag, Unflagged
    <2>7. CASE ProbeWrite(l)
        BY <2>7 DEF ProbeWrite
    <2>8. CASE ProbeRemove(l)
        BY <1>0, <2>8 DEF ProbeRemove
    <2>9. CASE VerifyFails(l)
        BY <2>9 DEF VerifyFails
    <2>10. CASE Pack(l) \/ PackFails(l)
        BY <1>0, <2>10 DEF Pack, PackFails, Approved
    <2>11. CASE Extract(l)
        BY <2>11 DEF Extract
    <2>12. CASE Unstage(l)
        BY <2>12 DEF Unstage
    <2>13. CASE Guard(l)
        BY <2>13 DEF Guard, Guards
    <2>14. CASE RunStarts(l)
        BY <2>14 DEF RunStarts
    <2>15. CASE RunEnds(l) \/ RunTimesOut(l) \/ SurvivorEnds(l)
        BY <2>15 DEF RunEnds, RunTimesOut, SurvivorEnds
    <2>16. CASE CommandWrites(l)
        BY <2>16 DEF CommandWrites, Acts
    <2>17. CASE CommandMoves(l)
        BY <2>17 DEF CommandMoves, Acts
    <2>18. CASE Unguard(l)
        BY <2>18 DEF Unguard
    <2>19. CASE Remove(l)
        BY <2>19 DEF Remove
    <2> QED BY <1>2, <2>1, <2>2, <2>3, <2>4, <2>5, <2>6, <2>7, <2>8, <2>9,
               <2>10, <2>11, <2>12, <2>13, <2>14, <2>15, <2>16, <2>17, <2>18, <2>19
            DEF LaunchStep, Other
<1>3. CASE EditProject
    BY <1>0, <1>3 DEF EditProject, Between
<1> QED BY <1>1, <1>2, <1>3 DEF Next

(* What the command is given is what was verified, for any number of        *)
(* launches and editors, but for the files an edit has slipped in between.  *)
THEOREM AsVerified == Spec => []StagedAsVerified
<1>1. Init => Vetted
    BY SecureAssumption DEF Init, Vetted, Before, Verifying
<1>2. Placed /\ Vetted => StagedAsVerified
    BY DEF Placed, Vetted, StagedAsVerified, AsApproved, Before, Verifying, Ended
<1> QED BY <1>1, <1>2, TypeInit, TypeStep, VettedStep, PTL DEF Spec

-----------------------------------------------------------------------------
(* A guard that is granted is complete, and nothing the command can do to   *)
(* the files takes a protected one out of its place but a move of its       *)
(* directory.                                                               *)
LEMMA GuardStep == TypeOK /\ Placed /\ GuardHolds /\ [Next]_vars => GuardHolds'
<1> SUFFICES ASSUME TypeOK, Placed, GuardHolds, [Next]_vars PROVE GuardHolds'
    OBVIOUS
<1> USE DEF TypeOK, Steps, Ended, Verifying, Before, Goes, Forget, Dismiss, TakeProbe,
       CutShort,
           hostVars, passVars, probeVars, fileVars, runVars,
           Placed, GuardHolds, Guarded, Guardable, Pinned, Surface
<1>1. CASE UNCHANGED vars
    BY <1>1 DEF vars
<1>2. ASSUME NEW l \in Launches, LaunchStep(l) \/ Other(l)
      PROVE  GuardHolds'
    <2>1. CASE VerifyFile(l)
        BY <2>1 DEF VerifyFile
    <2>2. CASE VerifyEnvironment(l)
        BY <2>2 DEF VerifyEnvironment
    <2>3. CASE HashBinary(l) \/ MeasureVersion(l)
        BY <2>3 DEF HashBinary, MeasureVersion
    <2>4. CASE ProbeClear(l)
        BY <2>4 DEF ProbeClear
    <2>5. CASE ProbeCreate(l) \/ ProbeOpen(l) \/ ProbeProtect(l)
        BY <2>5 DEF ProbeCreate, ProbeOpen, ProbeProtect, Unflagged
    <2>6. CASE ProbeCut(l) \/ ProbeUnflag(l)
        BY <2>6 DEF ProbeCut, ProbeUnflag, Unflagged
    <2>7. CASE ProbeWrite(l)
        BY <2>7 DEF ProbeWrite
    <2>8. CASE ProbeRemove(l)
        BY <2>8 DEF ProbeRemove
    <2>9. CASE VerifyFails(l)
        BY <2>9 DEF VerifyFails
    <2>10. CASE Pack(l) \/ PackFails(l)
        BY <2>10 DEF Pack, PackFails
    <2>11. CASE Extract(l)
        BY <2>11 DEF Extract
    <2>12. CASE Unstage(l)
        BY <2>12 DEF Unstage
    <2>13. CASE Guard(l)
        BY <2>13 DEF Guard, Guards, GuardWorks
    <2>14. CASE RunStarts(l)
        BY <2>14 DEF RunStarts
    <2>15. CASE RunEnds(l) \/ RunTimesOut(l) \/ SurvivorEnds(l)
        BY <2>15 DEF RunEnds, RunTimesOut, SurvivorEnds
    <2>16. CASE CommandWrites(l)
        BY <2>16 DEF CommandWrites, Acts
    <2>17. CASE CommandMoves(l)
        BY <2>17 DEF CommandMoves, Acts, Flagged, UnderGuard
    <2>18. CASE Unguard(l)
        BY <2>18 DEF Unguard
    <2>19. CASE Remove(l)
        BY <2>19 DEF Remove
    <2> QED BY <1>2, <2>1, <2>2, <2>3, <2>4, <2>5, <2>6, <2>7, <2>8, <2>9,
               <2>10, <2>11, <2>12, <2>13, <2>14, <2>15, <2>16, <2>17, <2>18, <2>19
            DEF LaunchStep, Other
<1>3. CASE EditProject
    BY <1>3 DEF EditProject
<1> QED BY <1>1, <1>2, <1>3 DEF Next

(* No protected file at the root or in a control directory is ever changed  *)
(* or out of its place while the project's command runs, for any number of  *)
(* launches, whatever the command does and every failure but one.           *)
THEOREM GuardInPlace == Spec => []GuardedWhileRunning
<1>1. Init => GuardHolds
    BY DEF Init, GuardHolds
<1>2. TypeOK /\ GuardHolds => GuardedWhileRunning
    BY DEF TypeOK, GuardHolds, GuardedWhileRunning, UnderGuard
<1> QED BY <1>1, <1>2, TypeInit, TypeStep, GuardStep, PTL DEF Spec

-----------------------------------------------------------------------------
(* What rm -rf leaves of a run root is what the guard's undo has left.      *)
LEMMA TidyStep == TypeOK /\ Placed /\ Tidy /\ [Next]_vars => Tidy'
<1> SUFFICES ASSUME TypeOK, Placed, Tidy, [Next]_vars PROVE Tidy'
    OBVIOUS
<1> USE DEF TypeOK, Steps, Ended, Verifying, Before, Goes, Forget, Dismiss, TakeProbe,
       CutShort,
           hostVars, passVars, probeVars, fileVars, runVars,
           Placed, Tidy
<1>1. CASE UNCHANGED vars
    BY <1>1 DEF vars
<1>2. ASSUME NEW l \in Launches, LaunchStep(l) \/ Other(l)
      PROVE  Tidy'
    <2>1. CASE VerifyFile(l)
        BY <2>1 DEF VerifyFile
    <2>2. CASE VerifyEnvironment(l)
        BY <2>2 DEF VerifyEnvironment
    <2>3. CASE HashBinary(l) \/ MeasureVersion(l)
        BY <2>3 DEF HashBinary, MeasureVersion
    <2>4. CASE ProbeClear(l)
        BY <2>4 DEF ProbeClear
    <2>5. CASE ProbeCreate(l) \/ ProbeOpen(l) \/ ProbeProtect(l)
        BY <2>5 DEF ProbeCreate, ProbeOpen, ProbeProtect, Unflagged
    <2>6. CASE ProbeCut(l) \/ ProbeUnflag(l)
        BY <2>6 DEF ProbeCut, ProbeUnflag, Unflagged
    <2>7. CASE ProbeWrite(l)
        BY <2>7 DEF ProbeWrite
    <2>8. CASE ProbeRemove(l)
        BY <2>8 DEF ProbeRemove
    <2>9. CASE VerifyFails(l)
        BY <2>9 DEF VerifyFails
    <2>10. CASE Pack(l) \/ PackFails(l)
        BY <2>10 DEF Pack, PackFails
    <2>11. CASE Extract(l)
        BY <2>11 DEF Extract
    <2>12. CASE Unstage(l)
        BY <2>12 DEF Unstage
    <2>13. CASE Guard(l)
        BY <2>13 DEF Guard, Guards
    <2>14. CASE RunStarts(l)
        BY <2>14 DEF RunStarts
    <2>15. CASE RunEnds(l) \/ RunTimesOut(l) \/ SurvivorEnds(l)
        BY <2>15 DEF RunEnds, RunTimesOut, SurvivorEnds
    <2>16. CASE CommandWrites(l)
        BY <2>16 DEF CommandWrites, Acts
    <2>17. CASE CommandMoves(l)
        BY <2>17, SecureAssumption DEF CommandMoves, Acts, Flagged, UnderGuard
    <2>18. CASE Unguard(l)
        BY <2>18 DEF Unguard
    <2>19. CASE Remove(l)
        BY <2>19 DEF Remove
    <2> QED BY <1>2, <2>1, <2>2, <2>3, <2>4, <2>5, <2>6, <2>7, <2>8, <2>9,
               <2>10, <2>11, <2>12, <2>13, <2>14, <2>15, <2>16, <2>17, <2>18, <2>19
            DEF LaunchStep, Other
<1>3. CASE EditProject
    BY <1>3 DEF EditProject
<1> QED BY <1>1, <1>2, <1>3 DEF Next

(* A run root that remains holds nothing but protected files outside the    *)
(* standard surface, unless something was cut short.                        *)
THEOREM Discarded == Spec => []OnlyProtectedStay
<1>1. Init => Tidy
    BY DEF Init, Tidy, Ended
<1>2. Tidy => OnlyProtectedStay
    BY DEF Tidy, OnlyProtectedStay
<1> QED BY <1>1, <1>2, TypeInit, TypeStep, TidyStep, PTL DEF Spec

-----------------------------------------------------------------------------
(* The two promises the code breaks: each holds where its causes are out.   *)

\* Every guard script has seen every path.
NoneBlind == blind = {}

LEMMA BlindStep ==
    ASSUME "enumerate" \notin Faults PROVE NoneBlind /\ [Next]_vars => NoneBlind'
BY DEF NoneBlind, Next, LaunchStep, Other, VerifyFile, VerifyEnvironment, HashBinary,
       MeasureVersion, ProbeClear, ProbeCreate, ProbeOpen, ProbeProtect, Unflagged, ProbeCut,
       ProbeUnflag, ProbeWrite, ProbeRemove, VerifyFails, Pack, PackFails, Extract, Unstage,
       Guard, Guards, RunStarts, RunEnds, RunTimesOut, SurvivorEnds, CommandWrites, Acts,
       CommandMoves, Unguard, Remove, EditProject, vars, runVars

(* The guard fails closed, whatever else fails or is raced, unless the      *)
(* first python3 of its script dies.                                        *)
THEOREM NeverOpen == ASSUME "enumerate" \notin Faults PROVE Spec => []FailsClosed
<1>1. Init => NoneBlind /\ GuardHolds
    BY DEF Init, NoneBlind, GuardHolds
<1>2. NoneBlind /\ GuardHolds => FailsClosed
    BY DEF NoneBlind, GuardHolds, FailsClosed
<1>3. NoneBlind /\ [Next]_vars => NoneBlind'
    BY BlindStep
<1> QED BY <1>1, <1>2, <1>3, TypeInit, TypeStep, GuardStep, PTL DEF Spec

\* Nothing was cut short.
NoneCut == cut = {}

LEMMA CutStep ==
    ASSUME ~CallsFail, "survive" \notin Faults, "enumerate" \notin Faults
    PROVE  NoneCut /\ NoneBlind /\ TypeOK /\ Placed /\ Tidy /\ [Next]_vars => NoneCut'
<1> SUFFICES ASSUME NoneCut, NoneBlind, TypeOK, Placed, Tidy, [Next]_vars PROVE NoneCut'
    OBVIOUS
<1> USE DEF NoneCut, vars, runVars, CutShort
<1>1. ASSUME NEW l \in Launches, Remove(l) PROVE NoneCut'
    <2>1. l \notin alive
        BY <1>1 DEF Tidy, Remove, Goes
    <2> QED BY <1>1, <2>1 DEF Remove
<1>2. ASSUME NEW l \in Launches, LaunchStep(l) \/ Other(l), ~Remove(l) PROVE NoneCut'
    BY <1>2 DEF LaunchStep, Other, VerifyFile, VerifyEnvironment, HashBinary, MeasureVersion,
           ProbeClear, ProbeCreate, ProbeOpen, ProbeProtect, Unflagged, ProbeCut, ProbeUnflag,
           ProbeWrite, ProbeRemove, VerifyFails, Pack, PackFails, Extract, Unstage, Guard,
           Guards, RunStarts, RunEnds, RunTimesOut, SurvivorEnds, CommandWrites, Acts,
           CommandMoves, Unguard, Remove, Forget
<1> QED BY <1>1, <1>2 DEF Next, EditProject

(* No run root stays behind, whatever else fails and whatever the command   *)
(* does, if calls do not fail, no process outlives its call, the scripts    *)
(* see every path and the baseline protects only the standard surface.      *)
THEOREM NothingStays ==
    ASSUME ~CallsFail, "survive" \notin Faults, "enumerate" \notin Faults,
           Mandatory \subseteq Standard
    PROVE  Spec => []NothingLeft
<1>1. Init => NoneCut /\ NoneBlind /\ Tidy
    BY DEF Init, NoneCut, NoneBlind, Tidy, Ended
<1>2. NoneCut /\ NoneBlind /\ Tidy => NothingLeft
    BY DEF NoneCut, NoneBlind, Tidy, NothingLeft
<1>3. NoneBlind /\ [Next]_vars => NoneBlind'
    BY BlindStep
<1>4. NoneCut /\ NoneBlind /\ TypeOK /\ Placed /\ Tidy /\ [Next]_vars => NoneCut'
    BY CutStep
<1> QED BY <1>1, <1>2, <1>3, <1>4, TypeInit, TypeStep, TidyStep, PTL DEF Spec
=============================================================================
