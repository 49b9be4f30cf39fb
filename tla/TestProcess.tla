---------------------------- MODULE TestProcess ----------------------------
(***************************************************************************)
(* Ownership of managed test applications, src/security/rad_security/      *)
(* processes.py, for one project and one port (one run slot).              *)
(*                                                                         *)
(* A start client inspects the slot, removes a stale metadata record and   *)
(* spawns a guardian; the guardian takes the slot's lease (a named mutex), *)
(* launches the application inside a Job Object of its own, publishes its  *)
(* record, and serves authenticated stop requests on a loopback port.      *)
(* Stop clients read the record and send a request; cleanup clients remove *)
(* stale records.  All of them are separate Windows processes, so every    *)
(* action below is one system call or one uninterrupted piece of work, and *)
(* any of the processes may run between two of them.                       *)
(*                                                                         *)
(* A run (guardian instance, run_id, control token and process creation    *)
(* time) is named by the start client that spawned it.                     *)
(***************************************************************************)
EXTENDS Naturals

CONSTANTS
    Starts,       \* start clients; each spawns at most one guardian
    Past,         \* starts whose run ended before the behaviour begins
    Stops,        \* stop clients, each sends at most one request
    Cleaners,     \* cleanup clients, each repeats cleanup_state
    Pids,         \* process ids Windows hands out (reused after an exit)
    ControlPorts, \* ephemeral ports a guardian's control socket may get
    NoRun,        \* no run / no record / no client
    Foreign,      \* a listener on the managed port outside every job
    Faults        \* which failures the environment produces

FaultKinds ==
    { "crash",    \* a client or a guardian is killed
      "stall",    \* a guardian waiting in accept() is too slow for a client
      "probe",    \* listening_pids raises (TCP table changed repeatedly)
      "write",    \* write_metadata raises OSError
      "kill",     \* TerminateJobObject fails
      "launch",   \* create_process_in_job raises
      "foreign" } \* a process outside every job listens on the port

ASSUME ConstantsAssumption ==
    /\ Faults \subseteq FaultKinds
    /\ Past \subseteq Starts
    /\ NoRun \notin Starts \cup Stops \cup Pids \cup ControlPorts
    /\ Foreign \notin Starts

VARIABLES
    lease,     \* open handles of the mutex Local\RAD-Process-<project>-<port>
    record,    \* the metadata file of the slot, or NoRun
    start,     \* where each start client is
    got,       \* the ready record a start client has read
    guardian,  \* where each guardian is
    pid,       \* process id of each guardian
    cport,     \* control port of each guardian
    job,       \* Job Object of each guardian
    listeners, \* owners of listening sockets on the managed port
    bound,     \* runs whose application has listened on the port (history)
    stop,      \* where each stop client is
    seen,      \* the record each stop client has read
    queued,    \* guardian whose backlog holds the client's request
    serving,   \* the client whose connection each guardian is handling
    answer,    \* the response sent back to each stop client
    clean      \* where each cleanup client is

slotVars   == << lease, record >>
startVars  == << start, got >>
procVars   == << guardian, pid, cport, serving >>
appVars    == << job, listeners, bound >>
stopVars   == << stop, seen, queued, answer >>
vars == << slotVars, startVars, procVars, appVars, stopVars, clean >>

-----------------------------------------------------------------------------
(* Types.                                                                   *)

RecordStates == { "starting", "ready", "failed", "stopping" }

Records == [run : Starts, pid : Pids, cport : ControlPorts, state : RecordStates]

StartPhases == { "idle", "probed", "refused", "held", "stale", "leave",
                 "clear", "spawn", "waiting", "verify", "done", "failed" }

GuardianPhases == { "none", "boot", "bound", "refused", "leased", "launched",
                    "polling", "owned", "failing", "serving", "stopping",
                    "terminating", "draining", "reporting", "closing",
                    "releasing", "exiting", "dead" }

StopPhases  == { "idle", "read", "checked", "sent", "stopped", "failed" }
CleanPhases == { "idle", "refused", "held", "stale", "leave" }

Answers == [run : Starts, ok : BOOLEAN, free : BOOLEAN]

ASSUME NoRunAssumption == NoRun \notin Records \cup Answers

\* Every process that opens the lease, as <<kind, name>>.
LeaseUsers == ({"start"} \X Starts) \cup ({"guardian"} \X Starts)
                 \cup ({"cleanup"} \X Cleaners)

(* The state each variable ranges over.                                     *)
TypeOK ==
    /\ lease \subseteq LeaseUsers
    /\ record \in Records \cup {NoRun}
    /\ start \in [Starts -> StartPhases]
    /\ got \in [Starts -> Records \cup {NoRun}]
    /\ guardian \in [Starts -> GuardianPhases]
    /\ pid \in [Starts -> Pids \cup {NoRun}]
    /\ cport \in [Starts -> ControlPorts \cup {NoRun}]
    /\ job \in [Starts -> {"none", "live", "dying", "dead"}]
    /\ listeners \subseteq Starts \cup {Foreign}
    /\ bound \subseteq Starts
    /\ stop \in [Stops -> StopPhases]
    /\ seen \in [Stops -> Records \cup {NoRun}]
    /\ queued \in [Stops -> Starts \cup {NoRun}]
    /\ serving \in [Starts -> Stops \cup {NoRun}]
    /\ answer \in [Stops -> Answers \cup {NoRun}]
    /\ clean \in [Cleaners -> CleanPhases]

\* Nothing runs; the record of a past run may have been left behind.
Init ==
    /\ lease = {}
    /\ record \in { rec \in Records : rec.run \in Past } \cup {NoRun}
    /\ start = [r \in Starts |-> IF r \in Past THEN "failed" ELSE "idle"]
    /\ got = [r \in Starts |-> NoRun]
    /\ guardian = [r \in Starts |-> IF r \in Past THEN "dead" ELSE "none"]
    /\ pid = [r \in Starts |-> NoRun]
    /\ cport = [r \in Starts |-> NoRun]
    /\ job = [r \in Starts |-> IF r \in Past THEN "dead" ELSE "none"]
    /\ listeners = {}
    /\ bound = Past
    /\ stop = [k \in Stops |-> "idle"]
    /\ seen = [k \in Stops |-> NoRun]
    /\ queued = [k \in Stops |-> NoRun]
    /\ serving = [r \in Starts |-> NoRun]
    /\ answer = [k \in Stops |-> NoRun]
    /\ clean = [m \in Cleaners |-> "idle"]

-----------------------------------------------------------------------------
(* Windows services the code relies on.                                     *)

Alive(r) == guardian[r] \notin {"none", "dead"}

\* Mutation: the creation time is not compared.
PidIsRunning(rec) == \E r \in Starts : Alive(r) /\ pid[r] = rec.pid

(* process_identity_matches: a process with this id is running and was     *)
(* created when the record says; creation times name the instance.         *)
IdentityMatches(rec) == Alive(rec.run) /\ pid[rec.run] = rec.pid

\* Popen keeps a handle to its child, which keeps the child's id from reuse.
PidsInUse == { pid[r] : r \in { q \in Starts :
                 Alive(q) \/ start[q] \in {"waiting", "verify"} } }

(* _RunLease.__init__: CreateMutexW opens a handle in any case; the caller  *)
(* owns the slot only if no handle existed, and otherwise closes it again.  *)
OpenLease(u) == lease' = lease \cup {u}
LeaseIsNew   == lease = {}
CloseLease(u) == lease' = lease \ {u}

(* listening_pids(port) returns no owner / raises.                          *)
PortIdle    == listeners = {}
ProbeFails  == "probe" \in Faults

\* Closing or terminating a job object kills what still runs in it.
Killed(j) == IF j = "live" THEN "dying" ELSE j

\* The signed record a guardian publishes.
RecordOf(r, state) == [run |-> r, pid |-> pid[r], cport |-> cport[r], state |-> state]

-----------------------------------------------------------------------------
(* start_run.                                                               *)

StartGoes(r, from, to) ==
    /\ start[r] = from
    /\ start' = [start EXCEPT ![r] = to]

StartProbe(r) ==
    /\ \/ PortIdle /\ StartGoes(r, "idle", "probed")
       \/ (~PortIdle \/ ProbeFails) /\ StartGoes(r, "idle", "failed")
    /\ UNCHANGED << slotVars, got, procVars, appVars, stopVars, clean >>

StartOpenLease(r) ==
    /\ StartGoes(r, "probed", IF LeaseIsNew THEN "held" ELSE "refused")
    /\ OpenLease(<<"start", r>>)
    /\ UNCHANGED << record, got, procVars, appVars, stopVars, clean >>

StartInspect(r) ==
    /\ StartGoes(r, "held",
         IF record = NoRun THEN "clear"
         ELSE IF IdentityMatches(record) THEN "leave" ELSE "stale")
    /\ UNCHANGED << slotVars, got, procVars, appVars, stopVars, clean >>

StartUnlink(r) ==
    /\ StartGoes(r, "stale", "clear")
    /\ record' = NoRun
    /\ UNCHANGED << lease, got, procVars, appVars, stopVars, clean >>

\* Leaving the with block, or closing the handle of a refused lease.
StartRelease(r) ==
    /\ \/ StartGoes(r, "clear", "spawn")
       \/ StartGoes(r, "leave", "failed")
       \/ StartGoes(r, "refused", "failed")
    /\ CloseLease(<<"start", r>>)
    /\ UNCHANGED << record, got, procVars, appVars, stopVars, clean >>

StartSpawn(r) ==
    /\ StartGoes(r, "spawn", "waiting")
    /\ \E p \in Pids \ PidsInUse : pid' = [pid EXCEPT ![r] = p]
    /\ guardian' = [guardian EXCEPT ![r] = "boot"]
    /\ UNCHANGED << slotVars, got, cport, serving, appVars, stopVars, clean >>

\* The wait loop reads the record: a ready record of the right process id
\* goes on to the identity check, a failed one or another id raises.
StartRead(r) ==
    /\ record # NoRun
    /\ \/ /\ record.state = "ready" /\ record.pid = pid[r]
          /\ StartGoes(r, "waiting", "verify")
          /\ got' = [got EXCEPT ![r] = record]
       \/ /\ \/ record.state = "ready" /\ record.pid # pid[r]
             \/ record.state = "failed"
          /\ StartGoes(r, "waiting", "failed")
          /\ UNCHANGED got
    /\ UNCHANGED << slotVars, procVars, appVars, stopVars, clean >>

StartVerify(r) ==
    /\ start[r] = "verify"
    /\ StartGoes(r, "verify", IF IdentityMatches(got[r]) THEN "done" ELSE "failed")
    /\ UNCHANGED << slotVars, got, procVars, appVars, stopVars, clean >>

\* guardian.poll() reports an exit, or startup_timeout + 5 s have passed.
StartGiveUp(r) ==
    /\ StartGoes(r, "waiting", "failed")
    /\ UNCHANGED << slotVars, got, procVars, appVars, stopVars, clean >>

\* The start client is killed; its handles close with it.
StartCrash(r) ==
    /\ "crash" \in Faults
    /\ start[r] \notin {"idle", "done", "failed"}
    /\ start' = [start EXCEPT ![r] = "failed"]
    /\ CloseLease(<<"start", r>>)
    /\ UNCHANGED << record, got, procVars, appVars, stopVars, clean >>

StartStep(r) ==
    \/ StartProbe(r) \/ StartOpenLease(r) \/ StartInspect(r) \/ StartUnlink(r)
    \/ StartRelease(r) \/ StartSpawn(r) \/ StartRead(r) \/ StartVerify(r)
    \/ StartGiveUp(r)

-----------------------------------------------------------------------------
(* _guardian.                                                               *)

Goes(r, from, to) ==
    /\ guardian[r] = from
    /\ guardian' = [guardian EXCEPT ![r] = to]

WriteFails == "write" \in Faults

\* write_metadata: the record is replaced as a whole or not at all.
Publish(r, state) == record' = RecordOf(r, state)

\* Ports that no live guardian has bound (SO_EXCLUSIVEADDRUSE).
FreeControlPorts == ControlPorts \ { cport[r] : r \in { q \in Starts : Alive(q) } }

\* Mutation: the control port is not read back from the socket.
GuardianBindUnread(r) ==
    /\ Goes(r, "boot", "bound")
    /\ UNCHANGED << slotVars, startVars, pid, cport, serving, appVars, stopVars, clean >>

\* bind and listen; a bad ready URL or environment entry is refused after it.
GuardianBind(r) ==
    /\ \/ /\ Goes(r, "boot", "bound")
          /\ \E p \in FreeControlPorts : cport' = [cport EXCEPT ![r] = p]
       \/ /\ "launch" \in Faults
          /\ Goes(r, "boot", "exiting")
          /\ UNCHANGED cport
    /\ UNCHANGED << slotVars, startVars, pid, serving, appVars, stopVars, clean >>

\* Mutation: an existing mutex is taken over.
GuardianTakesOver(r) ==
    /\ Goes(r, "bound", "leased")
    /\ OpenLease(<<"guardian", r>>)
    /\ UNCHANGED << record, startVars, pid, cport, serving, appVars, stopVars, clean >>

GuardianOpenLease(r) ==
    /\ Goes(r, "bound", IF LeaseIsNew THEN "leased" ELSE "refused")
    /\ OpenLease(<<"guardian", r>>)
    /\ UNCHANGED << record, startVars, pid, cport, serving, appVars, stopVars, clean >>

\* The handle of a refused lease is closed and the guardian exits.
GuardianRefused(r) ==
    /\ Goes(r, "refused", "exiting")
    /\ CloseLease(<<"guardian", r>>)
    /\ UNCHANGED << record, startVars, pid, cport, serving, appVars, stopVars, clean >>

\* WindowsJob() and create_process_in_job: the command runs only once it is
\* in the job; a failure terminates it and leaves through the with block.
GuardianLaunch(r) ==
    /\ \/ /\ Goes(r, "leased", "launched")
          /\ job' = [job EXCEPT ![r] = "live"]
       \/ /\ "launch" \in Faults
          /\ Goes(r, "leased", "closing")
          /\ UNCHANGED job
    /\ UNCHANGED << slotVars, startVars, pid, cport, serving, listeners, bound,
                    stopVars, clean >>

\* Mutation: a failed write of the first record is ignored.
GuardianIgnoresWriteError(r) ==
    /\ Goes(r, "launched", "polling")
    /\ Publish(r, "starting") \/ (WriteFails /\ UNCHANGED record)
    /\ UNCHANGED << lease, startVars, pid, cport, serving, appVars, stopVars, clean >>

GuardianWriteStarting(r) ==
    /\ \/ Goes(r, "launched", "polling") /\ Publish(r, "starting")
       \/ WriteFails /\ Goes(r, "launched", "closing") /\ UNCHANGED record
    /\ UNCHANGED << lease, startVars, pid, cport, serving, appVars, stopVars, clean >>

\* Mutation: any listener on the port counts as the application's.
AnyListener(r) == listeners # {}

\* One iteration of the readiness loop: a listener that is in the own job.
OwnsListener(r) == r \in listeners

GuardianObserve(r) ==
    /\ \/ OwnsListener(r) /\ Goes(r, "polling", "owned")
       \/ ProbeFails /\ Goes(r, "polling", "closing")
    /\ UNCHANGED << slotVars, startVars, pid, cport, serving, appVars, stopVars, clean >>

\* The ready URL did not answer: the next iteration looks again from nothing.
GuardianObserveAgain(r) ==
    /\ Goes(r, "owned", "polling")
    /\ UNCHANGED << slotVars, startVars, pid, cport, serving, appVars, stopVars, clean >>

\* An owned listener was observed and the ready URL answers.
GuardianReady(r) ==
    /\ \/ Goes(r, "owned", "serving") /\ Publish(r, "ready")
       \/ WriteFails /\ Goes(r, "owned", "closing") /\ UNCHANGED record
    /\ UNCHANGED << lease, startVars, pid, cport, serving, appVars, stopVars, clean >>

\* The deadline passed without an owned listener, or the last ready check of
\* the URL failed.
GuardianFail(r) ==
    /\ \/ /\ Goes(r, "polling", "failing") \/ Goes(r, "owned", "failing")
          /\ Publish(r, "failed")
       \/ /\ WriteFails
          /\ Goes(r, "polling", "closing") \/ Goes(r, "owned", "closing")
          /\ UNCHANGED record
    /\ UNCHANGED << lease, startVars, pid, cport, serving, appVars, stopVars, clean >>

GuardianKillFailed(r) ==
    /\ Goes(r, "failing", "closing")
    /\ \/ job' = [job EXCEPT ![r] = Killed(job[r])]
       \/ "kill" \in Faults /\ UNCHANGED job
    /\ UNCHANGED << slotVars, startVars, pid, cport, serving, listeners, bound,
                    stopVars, clean >>

\* A response reaches its client unless the client has hung up.
Respond(k, response) ==
    answer' = [answer EXCEPT ![k] = IF stop[k] = "sent" THEN response ELSE @]

ErrorResponse(r) == [run |-> r, ok |-> FALSE, free |-> FALSE]

\* Mutation: requests are not checked against the run.
AnyRequest(r, k) == TRUE

\* The request names this run and carries its token.
Authentic(r, k) == seen[k].run = r

\* accept() takes a connection from the backlog and the request is validated.
GuardianAccept(r) ==
    \E k \in Stops :
        /\ queued[k] = r
        /\ queued' = [queued EXCEPT ![k] = NoRun]
        /\ \/ /\ Authentic(r, k)
              /\ Goes(r, "serving", "stopping")
              /\ serving' = [serving EXCEPT ![r] = k]
              /\ UNCHANGED answer
           \/ /\ ~Authentic(r, k)
              /\ Goes(r, "serving", "serving")
              /\ Respond(k, ErrorResponse(r))
              /\ UNCHANGED serving
        /\ UNCHANGED << slotVars, startVars, pid, cport, appVars, stop, seen, clean >>

\* The except clause of the handler: an error response, back to accept().
BackToServing(r, from) ==
    /\ Goes(r, from, "serving")
    /\ Respond(serving[r], ErrorResponse(r))
    /\ serving' = [serving EXCEPT ![r] = NoRun]

GuardianWriteStopping(r) ==
    /\ \/ /\ Goes(r, "stopping", "terminating")
          /\ Publish(r, "stopping")
          /\ UNCHANGED << serving, answer >>
       \/ /\ WriteFails
          /\ BackToServing(r, "stopping")
          /\ UNCHANGED record
    /\ UNCHANGED << lease, startVars, pid, cport, appVars, stop, seen, queued, clean >>

GuardianTerminate(r) ==
    /\ \/ /\ Goes(r, "terminating", "draining")
          /\ job' = [job EXCEPT ![r] = Killed(job[r])]
          /\ UNCHANGED << serving, answer >>
       \/ /\ "kill" \in Faults
          /\ BackToServing(r, "terminating")
          /\ UNCHANGED job
    /\ UNCHANGED << slotVars, startVars, pid, cport, listeners, bound, stop, seen,
                    queued, clean >>

\* The own listeners are gone, or five seconds have passed.
GuardianDrain(r) ==
    /\ \/ /\ Goes(r, "draining", "reporting")
          /\ UNCHANGED << serving, answer >>
       \/ ProbeFails /\ BackToServing(r, "draining")
    /\ UNCHANGED << slotVars, startVars, pid, cport, appVars, stop, seen, queued, clean >>

\* Mutation: a drain that ended is taken for a free port.
GuardianReportsFree(r) ==
    /\ Goes(r, "reporting", "closing")
    /\ Respond(serving[r], [run |-> r, ok |-> TRUE, free |-> TRUE])
    /\ serving' = [serving EXCEPT ![r] = NoRun]
    /\ UNCHANGED << slotVars, startVars, pid, cport, appVars, stop, seen, queued, clean >>

\* Mutation: a response that cannot be sent raises into the except clause.
GuardianReportOrServe(r) ==
    /\ \/ Goes(r, "reporting", "closing") /\ stop[serving[r]] = "sent"
       \/ Goes(r, "reporting", "serving") /\ stop[serving[r]] # "sent"
    /\ Respond(serving[r], [run |-> r, ok |-> TRUE, free |-> PortIdle])
    /\ serving' = [serving EXCEPT ![r] = NoRun]
    /\ UNCHANGED << slotVars, startVars, pid, cport, appVars, stop, seen, queued, clean >>

\* The last probe of the port, the response, and return 0 come what may.
GuardianReport(r) ==
    /\ \/ /\ Goes(r, "reporting", "closing")
          /\ Respond(serving[r], [run |-> r, ok |-> TRUE, free |-> PortIdle])
          /\ serving' = [serving EXCEPT ![r] = NoRun]
       \/ ProbeFails /\ BackToServing(r, "reporting")
    /\ UNCHANGED << slotVars, startVars, pid, cport, appVars, stop, seen, queued, clean >>

\* Mutation: the lease is closed before the job.
GuardianClosesLeaseFirst(r) ==
    /\ Goes(r, "closing", "releasing")
    /\ CloseLease(<<"guardian", r>>)
    /\ UNCHANGED << record, startVars, pid, cport, serving, appVars, stopVars, clean >>

\* Mutation: the guardian waits for its application before closing the job.
GuardianWaitsForJob(r) ==
    /\ Goes(r, "closing", "releasing")
    /\ job[r] \in {"none", "dead"}
    /\ UNCHANGED << slotVars, startVars, pid, cport, serving, appVars, stopVars, clean >>

\* with _RunLease(...), WindowsJob(): the job closes first, the lease second.
GuardianCloseJob(r) ==
    /\ Goes(r, "closing", "releasing")
    /\ job' = [job EXCEPT ![r] = Killed(job[r])]
    /\ UNCHANGED << slotVars, startVars, pid, cport, serving, listeners, bound,
                    stopVars, clean >>

GuardianCloseLease(r) ==
    /\ Goes(r, "releasing", "exiting")
    /\ CloseLease(<<"guardian", r>>)
    /\ UNCHANGED << record, startVars, pid, cport, serving, appVars, stopVars, clean >>

GuardianExit(r) ==
    /\ Goes(r, "exiting", "dead")
    /\ UNCHANGED << slotVars, startVars, pid, cport, serving, appVars, stopVars, clean >>

\* The guardian is killed: its handles stay open until Windows closes them.
GuardianCrash(r) ==
    /\ "crash" \in Faults
    /\ Alive(r)
    /\ guardian' = [guardian EXCEPT ![r] = "dead"]
    /\ serving' = [serving EXCEPT ![r] = NoRun]
    /\ UNCHANGED << slotVars, startVars, pid, cport, appVars, stopVars, clean >>

GuardianStep(r) ==
    \/ GuardianBind(r) \/ GuardianOpenLease(r) \/ GuardianRefused(r)
    \/ GuardianLaunch(r) \/ GuardianWriteStarting(r) \/ GuardianObserve(r)
    \/ GuardianObserveAgain(r) \/ GuardianReady(r) \/ GuardianFail(r)
    \/ GuardianKillFailed(r) \/ GuardianAccept(r) \/ GuardianWriteStopping(r)
    \/ GuardianTerminate(r) \/ GuardianDrain(r) \/ GuardianReport(r)
    \/ GuardianCloseJob(r) \/ GuardianCloseLease(r) \/ GuardianExit(r)

-----------------------------------------------------------------------------
(* Windows, closing what a dead guardian left open, and the applications.   *)

ReapLease(r) ==
    /\ guardian[r] = "dead"
    /\ <<"guardian", r>> \in lease
    /\ CloseLease(<<"guardian", r>>)
    /\ UNCHANGED << record, startVars, procVars, appVars, stopVars, clean >>

\* Mutation: the job is created without the kill-on-close limit.
ReapJobOnly(r) == guardian[r] = "dead" /\ job[r] = "live" /\ UNCHANGED vars

\* JOB_OBJECT_LIMIT_KILL_ON_JOB_CLOSE.
ReapJob(r) ==
    /\ guardian[r] = "dead"
    /\ job[r] = "live"
    /\ job' = [job EXCEPT ![r] = Killed(job[r])]
    /\ UNCHANGED << slotVars, startVars, procVars, listeners, bound, stopVars, clean >>

\* The processes of a job have ended: killed, or of their own accord.
JobEnds(r) ==
    /\ job[r] \in {"live", "dying"}
    /\ job' = [job EXCEPT ![r] = "dead"]
    /\ listeners' = listeners \ {r}
    /\ UNCHANGED << slotVars, startVars, procVars, bound, stopVars, clean >>

\* A killed process runs no more code: only a live job opens a listener.
AppListens(r) ==
    /\ job[r] = "live"
    /\ r \notin listeners
    /\ listeners' = listeners \cup {r}
    /\ bound' = bound \cup {r}
    /\ UNCHANGED << slotVars, startVars, procVars, job, stopVars, clean >>

AppCloses(r) ==
    /\ r \in listeners
    /\ listeners' = listeners \ {r}
    /\ UNCHANGED << slotVars, startVars, procVars, job, bound, stopVars, clean >>

ForeignListener ==
    /\ "foreign" \in Faults
    /\ listeners' = IF Foreign \in listeners THEN listeners \ {Foreign}
                    ELSE listeners \cup {Foreign}
    /\ UNCHANGED << slotVars, startVars, procVars, job, bound, stopVars, clean >>



-----------------------------------------------------------------------------
(* stop_run and _control_request.                                           *)

StopGoes(k, from, to) ==
    /\ stop[k] = from
    /\ stop' = [stop EXCEPT ![k] = to]

Stoppable(rec) == rec.state \in {"starting", "ready"}

StopRead(k) ==
    /\ \/ /\ record # NoRun /\ Stoppable(record)
          /\ StopGoes(k, "idle", "read")
          /\ seen' = [seen EXCEPT ![k] = record]
       \/ /\ record # NoRun => ~Stoppable(record)
          /\ StopGoes(k, "idle", "failed")
          /\ UNCHANGED seen
    /\ UNCHANGED << slotVars, startVars, procVars, appVars, queued, answer, clean >>

StopVerify(k) ==
    /\ stop[k] = "read"
    /\ StopGoes(k, "read", IF IdentityMatches(seen[k]) THEN "checked" ELSE "failed")
    /\ UNCHANGED << slotVars, startVars, procVars, appVars, seen, queued, answer, clean >>

\* Connecting succeeds as soon as the control socket listens, accepted or not.
ListensOn(r, p) == Alive(r) /\ guardian[r] # "boot" /\ cport[r] = p

StopConnect(k) ==
    /\ \/ \E r \in Starts :
            /\ stop[k] = "checked" /\ ListensOn(r, seen[k].cport)
            /\ StopGoes(k, "checked", "sent")
            /\ queued' = [queued EXCEPT ![k] = r]
       \/ /\ stop[k] = "checked"
          /\ \A r \in Starts : ~ListensOn(r, seen[k].cport)
          /\ StopGoes(k, "checked", "failed")
          /\ UNCHANGED queued
    /\ UNCHANGED << slotVars, startVars, procVars, appVars, seen, answer, clean >>

\* Mutation: any response counts.
AnyResponse(k) == TRUE

\* _verify_response: signed with the token of the run in the record, and ok.
Confirms(k) == answer[k].run = seen[k].run /\ answer[k].ok

StopAnswered(k) ==
    /\ stop[k] = "sent" /\ answer[k] # NoRun
    /\ StopGoes(k, "sent", IF Confirms(k) THEN "stopped" ELSE "failed")
    /\ UNCHANGED << slotVars, startVars, procVars, appVars, seen, queued, answer, clean >>

\* A guardian that waits in accept(), or is on its way from accept() to
\* TerminateJobObject, answers or moves on well within a client's timeout;
\* the readiness loop and the drain may outlast it.
AnswersInTime(r, k) ==
    \/ queued[k] = r /\ guardian[r] = "serving"
    \/ serving[r] = k /\ guardian[r] \in { "stopping", "terminating" }

\* The socket timeout, or a reset: "authenticated guardian is unreachable".
StopTimeout(k) ==
    /\ answer[k] = NoRun
    /\ (\E r \in Starts : AnswersInTime(r, k)) => "stall" \in Faults
    /\ StopGoes(k, "sent", "failed")
    /\ UNCHANGED << slotVars, startVars, procVars, appVars, seen, queued, answer, clean >>

StopStep(k) ==
    \/ StopRead(k) \/ StopVerify(k) \/ StopConnect(k)
    \/ StopAnswered(k) \/ StopTimeout(k)

-----------------------------------------------------------------------------
(* cleanup_state, for the record of this slot.                              *)

CleanGoes(m, from, to) ==
    /\ clean[m] = from
    /\ clean' = [clean EXCEPT ![m] = to]

\* Mutation: stale records are removed without holding the lease.
CleanSkipsLease(m) ==
    /\ record # NoRun
    /\ CleanGoes(m, "idle", "held")
    /\ UNCHANGED << slotVars, startVars, procVars, appVars, stopVars >>

CleanOpenLease(m) ==
    /\ record # NoRun
    /\ CleanGoes(m, "idle", IF LeaseIsNew THEN "held" ELSE "refused")
    /\ OpenLease(<<"cleanup", m>>)
    /\ UNCHANGED << record, startVars, procVars, appVars, stopVars >>

CleanInspect(m) ==
    /\ CleanGoes(m, "held",
         IF record = NoRun THEN "leave"
         ELSE IF IdentityMatches(record) THEN "leave" ELSE "stale")
    /\ UNCHANGED << slotVars, startVars, procVars, appVars, stopVars >>

CleanUnlink(m) ==
    /\ CleanGoes(m, "stale", "leave")
    /\ record' = NoRun
    /\ UNCHANGED << lease, startVars, procVars, appVars, stopVars >>

CleanRelease(m) ==
    /\ CleanGoes(m, "leave", "idle") \/ CleanGoes(m, "refused", "idle")
    /\ CloseLease(<<"cleanup", m>>)
    /\ UNCHANGED << record, startVars, procVars, appVars, stopVars >>

CleanStep(m) ==
    CleanOpenLease(m) \/ CleanInspect(m) \/ CleanUnlink(m) \/ CleanRelease(m)

-----------------------------------------------------------------------------
Next ==
    \/ \E r \in Starts :
         \/ StartStep(r) \/ StartCrash(r)
         \/ GuardianStep(r) \/ GuardianCrash(r)
         \/ ReapLease(r) \/ ReapJob(r) \/ JobEnds(r)
         \/ AppListens(r) \/ AppCloses(r)
    \/ ForeignListener
    \/ \E k \in Stops : StopStep(k)
    \/ \E m \in Cleaners : CleanStep(m)

Spec == Init /\ [][Next]_vars

(* Every process is scheduled: a guardian that can take a step eventually   *)
(* takes one, its readiness loop ends at startup_timeout at the latest      *)
(* (GuardianFail), a client that has begun goes on,  *)
(* and Windows closes the handles of a dead process and finishes killing.   *)
(* Whether a client is started at all, an application listens, or a process *)
(* fails is nobody's promise.                                               *)
Fairness ==
    /\ \A r \in Starts :
         /\ WF_vars(GuardianStep(r)) /\ WF_vars(GuardianFail(r))
         /\ WF_vars(ReapLease(r)) /\ WF_vars(ReapJob(r))
         /\ WF_vars(job[r] = "dying" /\ JobEnds(r))
         /\ WF_vars(start[r] # "idle" /\ StartStep(r))
    /\ \A k \in Stops : WF_vars(stop[k] # "idle" /\ StopStep(k))
    /\ \A m \in Cleaners : WF_vars(clean[m] # "idle" /\ CleanStep(m))

FairSpec == Spec /\ Fairness

-----------------------------------------------------------------------------
(* What the protocol promises.                                              *)

\* The guardian is inside  with _RunLease(...), WindowsJob() as job.
Holding == { "leased", "launched", "polling", "owned", "failing", "serving",
             "stopping", "terminating", "draining", "reporting", "closing",
             "releasing" }

(* Two applications run in the slot at once only while Windows is still     *)
(* closing the handles of a guardian that was killed: a guardian that lives *)
(* never shares the slot with another live guardian's application, whatever *)
(* the order in which start clients, cleanups and exits interleave.         *)
OneRunPerSlot ==
    \A r, q \in Starts :
        (r # q /\ job[r] = "live" /\ job[q] = "live") => ~(Alive(r) /\ Alive(q))

(* No client, cleanup or other guardian removes or replaces the record of a *)
(* guardian that is still managing its run ("a late client must not unlink  *)
(* a newer run's metadata", stop_run).                                      *)
LiveRecordKept ==
    [][ \A r \in Starts :
          (record # NoRun /\ record.run = r /\ guardian[r] \in Holding)
             => record' # NoRun /\ record'.run = r ]_vars

(* A guardian that is waiting for requests can be asked to stop: the record *)
(* in the slot is its own and in a state stop_run accepts.                  *)
ServingIsStoppable ==
    \A r \in Starts : guardian[r] = "serving" =>
        record # NoRun /\ record = RecordOf(r, "ready") /\ Stoppable(record)

(* A start that succeeds returns the run of the guardian it spawned, even   *)
(* if Windows reused the process id of a guardian another client spawned.   *)
StartReturnsOwnRun ==
    \A r \in Starts : start[r] = "done" => got[r].run = r

(* A guardian ends its application on request only for a client that read   *)
(* this very run's record, although control ports are reused between runs.  *)
OnlyOwnRequestKills ==
    \A r \in Starts : serving[r] # NoRun => seen[serving[r]].run = r

(* A stop that reports success is true: the run named by the record that    *)
(* the client read has no running application any more.                     *)
StopMeansTerminated ==
    \A k \in Stops : stop[k] = "stopped" =>
        job[seen[k].run] \in {"dying", "dead"}

(* A stop whose response says port_free left no listener of the run behind, *)
(* now or later.                                                            *)
FreeMeansUnbound ==
    \A k \in Stops : (stop[k] = "stopped" /\ answer[k].free) =>
        seen[k].run \notin listeners

(* A run is published as ready only if its own application had the port     *)
(* open: somebody else's listener never makes a run ready.                  *)
ReadyWasOwned ==
    (record # NoRun /\ record.state = "ready") => record.run \in bound

(* A guardian whose application was terminated on request exits.            *)
StoppedRunLeaves ==
    \A r \in Starts : (guardian[r] = "draining") ~> (guardian[r] = "dead")

(* The application of a guardian that is gone, killed or not, is gone too.  *)
OrphanJobsDie ==
    \A r \in Starts : (guardian[r] = "dead") ~> (job[r] \in {"none", "dead"})

(* The run slot as its users see it: RunSlot is implemented.                *)
SlotPhase(g) ==
    CASE g \in { "none", "boot", "bound", "refused" } -> "new"
      [] g \in { "leased", "launched", "polling", "owned", "failing" } -> "owned"
      [] g = "serving" -> "ready"
      [] g \in { "stopping", "terminating", "draining", "reporting" } -> "stopping"
      [] g \in { "closing", "releasing" } -> "leaving"
      [] g \in { "exiting", "dead" } -> "gone"

SlotPhases == [r \in Starts |-> SlotPhase(guardian[r])]

Shown == IF record = NoRun THEN NoRun ELSE record.run

Slot == INSTANCE RunSlot WITH
            Runs <- Starts, None <- NoRun, phase <- SlotPhases, shown <- Shown

ImplementsRunSlot == Slot!SlotSpec

ImplementsFairRunSlot == Slot!SlotFairSpec
=============================================================================
