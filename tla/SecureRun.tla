----------------------------- MODULE SecureRun -----------------------------
(***************************************************************************)
(* Secure runs in the certified WSL distribution: verify_project of        *)
(* launcher.py and launch_secure_run of wsl_backend.py.  A launch compares *)
(* the project with the baseline, verifies the backend, stages the project *)
(* into a run root of its own, makes the control plane immutable, runs the *)
(* project's command in the sandbox, and cleans up.  An admission (also    *)
(* of launcher.py) returns after the verification.                         *)
(*                                                                         *)
(* The project is read file by file, twice, and may be edited all along.   *)
(* Every other step is one wsl.exe call with a timeout, or a command of    *)
(* the script that it executes.  Launches run side by side in one          *)
(* distribution; a run root has a random name and belongs to one launch,   *)
(* but the directory of the self-probe has a fixed name.  The command owns *)
(* the copy it runs over: only the immutable flag stands in its way.  That *)
(* it moves a directory back to its place is left out: this leads to no    *)
(* other state than the one before.                                        *)
(***************************************************************************)
EXTENDS Naturals

CONSTANTS
    Launches,    \* concurrent launches
    Admissions,  \* those that only verify: calls of prepare_secure_launch
    Files,       \* files a project may consist of
    Controlled,  \* those that classify_path gives to the control plane
    Mandatory,   \* files the baseline protects (protected_relative)
    Standard,    \* files under CONTROL_FILES and CONTROL_DIRS
    Directories, \* the files below each directory of the project
    Editable,    \* files that are edited while launches read the project
    Distros,     \* conditions the distribution may be in
    Faults       \* which failures the environment produces

Environment == { "present", "nonroot", "interop-off", "drives-hidden" }

Qualities == Environment \cup
    { "pin",         \* the executable has the pinned digest
      "version",     \* ... and reports the expected version
      "socket",      \* the sandbox denies socket()
      "immutable" }  \* chattr +i takes effect

FaultKinds ==
    { "call",      \* a call of wsl.exe fails or runs into its timeout
      "local",     \* staging refuses a local file or a limit
      "tar",       \* the extraction in the distribution fails
      "chattr",    \* chattr fails on some file
      "python",    \* python3 does not start in the sandbox
      "enumerate", \* the first python3 of a guard or unguard script dies
      "survive" }  \* processes outlive the wsl.exe that was killed

\* CONTROL_FILES and CONTROL_DIRS are entries of the project's root, which is
\* not among the directories.
ASSUME SecureAssumption ==
    /\ Admissions \subseteq Launches
    /\ \A D \in Directories : D \subseteq Standard \/ (D \subseteq Files /\ D \cap Standard = {})
    /\ Mandatory \subseteq Controlled /\ Controlled \cup Standard \cup Editable \subseteq Files
    /\ Distros \subseteq SUBSET Qualities
    /\ Faults \subseteq FaultKinds

VARIABLES
    distro,   \* the qualities the distribution has
    project,  \* what the project holds, on the Windows side
    probe,    \* AGENTS.md in /home/<user>/probe-root
    step,     \* where each launch is
    todo,     \* files the pass over the project has not reached
    packed,   \* files a launch has put into its archive
    altered,  \* those of them that nobody approved, until the command starts;
              \* then what it has written, removed or moved under the guard
    raced,    \* files edited between being verified and packed (history)
    executed, \* launches that have executed the codex binary (history)
    refused,  \* launches whose probe has seen its write denied
    masked,   \* checks that a failed call has let pass (history)
    spoilt,   \* launches whose probe was not set up, or has been removed by
              \* another launch (history)
    root,     \* launches whose run root exists
    copy,     \* files in each run root
    immut,    \* those of them that are immutable
    stray,    \* immutable files that have been moved away with their directory
    alive,    \* launches whose command is running in the distribution
    cut,      \* launches whose staging, guard or clean-up was cut short, or
              \* whose command has outlived its time (history)
    blind     \* launches whose guard did not see every path (history)

hostVars == << distro, project >>
passVars == << todo, packed, altered, raced >>
probeVars == << probe, executed, refused, masked, spoilt >>
fileVars == << root, copy, immut, stray >>
runVars == << fileVars, alive, cut, blind >>
vars == << hostVars, passVars, probeVars, runVars, step >>

Ended == { "refused", "failed", "admitted", "done" }

Steps == Ended \cup
    { "idle", "hash", "version", "clear", "create", "open", "protect", "write",
      "unflag", "unprobe", "stage", "unstage", "guard", "run", "running", "unguard", "remove" }

\* What the baseline says of a file; of the others nothing is expected.
Approved(f) == IF f \in Mandatory THEN "reviewed" ELSE "absent"

(* The state each variable ranges over; only run roots hold files, and only *)
(* files that are there are immutable.                                      *)
TypeOK ==
    /\ distro \in Distros
    /\ project \in [Files -> { "absent", "reviewed", "changed" }]
    /\ todo \in [Launches -> SUBSET Files] /\ packed \in [Launches -> SUBSET Files]
    /\ altered \in [Launches -> SUBSET Files] /\ raced \in [Launches -> SUBSET Files]
    /\ probe \in { "absent", "foreign", "writable", "immutable" }
    /\ masked \in [Launches -> SUBSET { "drives-hidden", "socket" }]
    /\ step \in [Launches -> Steps]
    /\ executed \subseteq Launches /\ refused \subseteq Launches /\ spoilt \subseteq Launches
    /\ root \subseteq Launches /\ alive \subseteq Launches
    /\ cut \subseteq Launches /\ blind \subseteq Launches
    /\ copy \in [Launches -> SUBSET Files] /\ immut \in [Launches -> SUBSET Files]
    /\ stray \in [Launches -> SUBSET Files]
    /\ \A l \in Launches :
         immut[l] \subseteq copy[l] /\ (copy[l] \cup stray[l] # {} => l \in root)

Init ==
    /\ distro \in Distros
    /\ project = [f \in Files |-> Approved(f)]
    /\ todo = [l \in Launches |-> Files]
    /\ packed = [l \in Launches |-> {}]
    /\ altered = [l \in Launches |-> {}]
    /\ raced = [l \in Launches |-> {}]
    /\ probe = "absent"
    /\ step = [l \in Launches |-> "idle"]
    /\ executed = {} /\ refused = {} /\ spoilt = {} /\ root = {} /\ alive = {}
    /\ cut = {} /\ blind = {}
    /\ copy = [l \in Launches |-> {}]
    /\ immut = [l \in Launches |-> {}]
    /\ stray = [l \in Launches |-> {}]
    /\ masked = [l \in Launches |-> {}]

Verifying == { "hash", "version", "clear", "create", "open", "protect", "write",
               "unflag", "unprobe" }

Before == Verifying \cup { "idle", "stage" }

Goes(l, from, to) ==
    /\ step[l] = from
    /\ step' = [step EXCEPT ![l] = to]

CallsFail == "call" \in Faults

\* A call fails while the run root exists.
CutShort(l) == CallsFail /\ cut' = cut \cup {l}

-----------------------------------------------------------------------------
(* verify_project: every control-plane file is the baseline's, and none is  *)
(* missing or unexpected.                                                   *)

\* Mutation: the files are counted, their content is not compared.
VerifyPresence(l) ==
    /\ \E f \in todo[l] :
         /\ Goes(l, "idle",
              IF f \in Controlled /\ ((project[f] = "absent") # (Approved(f) = "absent"))
              THEN "refused" ELSE "idle")
         /\ todo' = [todo EXCEPT ![l] = @ \ {f}]
    /\ UNCHANGED << hostVars, packed, altered, raced, probeVars, runVars >>

VerifyFile(l) ==
    /\ \E f \in todo[l] :
         /\ Goes(l, "idle",
              IF f \in Controlled /\ project[f] # Approved(f) THEN "refused" ELSE "idle")
         /\ todo' = [todo EXCEPT ![l] = @ \ {f}]
    /\ UNCHANGED << hostVars, packed, altered, raced, probeVars, runVars >>

\* A launch reads the project, or will read it again.
Reads(l) == step[l] = "idle" \/ (l \notin Admissions /\ step[l] \in Before)

\* A launch has verified f and not packed it yet.
Between(l, f) ==
    /\ l \notin Admissions
    /\ \/ step[l] = "stage" /\ f \in todo[l]
       \/ step[l] \in Before \ { "stage" } /\ f \notin todo[l]

\* Anybody edits, adds or removes a file; bounded to the time some launch
\* still reads the project.
EditProject ==
    /\ \E l \in Launches : Reads(l)
    /\ \E f \in Editable : \E content \in { "absent", "changed", Approved(f) } :
         /\ content # project[f]
         /\ project' = [project EXCEPT ![f] = content]
         /\ raced' = [l \in Launches |->
                         IF Between(l, f) THEN raced[l] \cup {f} ELSE raced[l]]
    /\ UNCHANGED << distro, todo, packed, altered, probeVars, runVars, step >>

-----------------------------------------------------------------------------
(* verify_wsl_backend: every failed check refuses the launch.  Two of the   *)
(* checks look for what must not be said, so a call that says nothing       *)
(* passes them.                                                             *)

\* That c-visible is not printed passes for a hidden drive.
VerifyEnvironment(l) ==
    /\ todo[l] = {}
    /\ \/ /\ Environment \subseteq distro
          /\ Goes(l, "idle", "hash") /\ UNCHANGED masked
       \/ /\ CallsFail /\ Environment \ distro = {"drives-hidden"}
          /\ Goes(l, "idle", "hash")
          /\ masked' = [masked EXCEPT ![l] = @ \cup {"drives-hidden"}]
       \/ /\ ~(Environment \subseteq distro) \/ CallsFail
          /\ Goes(l, "idle", "refused") /\ UNCHANGED masked
    /\ UNCHANGED << hostVars, passVars, probe, executed, refused, spoilt, runVars >>

\* Mutation: a digest that differs is recorded, but does not return.
HashRecorded(l) ==
    /\ Goes(l, "hash", "version")
    /\ UNCHANGED << hostVars, passVars, probeVars, runVars >>

\* sha256sum: the binary is not executed to establish what it is.
HashBinary(l) ==
    /\ Goes(l, "hash", IF "pin" \in distro THEN "version" ELSE "refused")
    /\ UNCHANGED << hostVars, passVars, probeVars, runVars >>

\* A wrong version is recorded; the probe still runs.
MeasureVersion(l) ==
    /\ Goes(l, "version", "clear")
    /\ executed' = executed \cup {l}
    /\ UNCHANGED << hostVars, passVars, probe, refused, masked, spoilt, runVars >>

\* Of a launch that is not verified nothing is recorded any more.
Dismiss(l) ==
    /\ executed' = executed \ {l} /\ refused' = refused \ {l}
    /\ masked' = [masked EXCEPT ![l] = {}]

(* self_probe.  Its first script prepares the file, as root, command by     *)
(* command; any of them may find what another launch has made of it.        *)

\* rm -rf takes the file from launches that have it, unless it is immutable.
TakeProbe(l, others) ==
    \/ /\ probe # "immutable" /\ probe' = "absent"
       /\ spoilt' = others \cup
            { m \in Launches \ {l} : step[m] \in { "open", "protect", "write" } }
    \/ /\ probe = "immutable" \/ CallsFail
       /\ UNCHANGED probe /\ spoilt' = others

ProbeClear(l) ==
    /\ Goes(l, "clear", "create")
    /\ TakeProbe(l, spoilt)
    /\ UNCHANGED << hostVars, passVars, executed, refused, masked, runVars >>

\* Mutation: the probe file is not created.
ProbeCreateNothing(l) ==
    /\ Goes(l, "create", "open")
    /\ UNCHANGED << hostVars, passVars, probeVars, runVars >>

\* mkdir -p and  echo ctl >  make a file that belongs to root.
ProbeCreate(l) ==
    /\ Goes(l, "create", "open")
    /\ probe' = IF probe = "absent" THEN "foreign" ELSE probe
    /\ UNCHANGED << hostVars, passVars, executed, refused, masked, spoilt, runVars >>

\* chown, which an immutable file refuses, and  chattr -i.
Unflagged == IF probe = "immutable" THEN { "foreign", "writable" } ELSE { probe }

ProbeOpen(l) ==
    /\ Goes(l, "open", "protect")
    /\ probe' \in IF probe = "foreign" THEN { "writable" } ELSE Unflagged
    /\ UNCHANGED << hostVars, passVars, executed, refused, masked, spoilt, runVars >>

\* chattr +i.
ProbeProtect(l) ==
    /\ Goes(l, "protect", "write")
    /\ probe' = IF probe # "absent" /\ "immutable" \in distro THEN "immutable" ELSE probe
    /\ UNCHANGED << hostVars, passVars, executed, refused, masked, spoilt, runVars >>

\* The script ends early; its exit status is not read.
ProbeCut(l) ==
    /\ CallsFail
    /\ \E at \in { "clear", "create", "open", "protect" } : Goes(l, at, "write")
    /\ spoilt' = spoilt \cup {l}
    /\ UNCHANGED << hostVars, passVars, probe, executed, refused, masked, runVars >>

\* echo x >> AGENTS.md inside the sandbox.  The write is denied by the flag, by
\* root's ownership and by a directory that has been removed under it.  Without
\* a directory to enter nothing is said; without the file it is created.
ProbeWrite(l) ==
    /\ Goes(l, "write", "unflag")
    /\ \/ /\ probe # "writable"
          /\ refused' = refused \cup {l} /\ UNCHANGED probe
       \/ /\ probe \in { "absent", "writable" } \/ CallsFail
          /\ probe' \in IF probe = "absent" THEN { "absent", "writable" } ELSE { probe }
          /\ UNCHANGED refused
    /\ UNCHANGED << hostVars, passVars, executed, masked, spoilt, runVars >>

\* The last script: chattr -i, which allows other launches to write, ...
ProbeUnflag(l) ==
    /\ Goes(l, "unflag", "unprobe")
    /\ probe' \in Unflagged \cup IF CallsFail THEN {probe} ELSE {}
    /\ UNCHANGED << hostVars, passVars, executed, refused, masked, spoilt, runVars >>

\* ... and rm -rf; all checks are then looked at.  SOCKET-DENIED is printed as
\* well when python3 does not start.
ProbeRemove(l) ==
    /\ \/ /\ "version" \in distro /\ l \in refused
          /\ "socket" \in distro \/ "python" \in Faults
          /\ Goes(l, "unprobe", IF l \in Admissions THEN "admitted" ELSE "stage")
          /\ TakeProbe(l, spoilt)
          /\ masked' = [masked EXCEPT ![l] = @ \cup ({"socket"} \ distro)]
          /\ UNCHANGED << executed, refused >>
       \/ /\ ~({"version", "socket"} \subseteq distro /\ l \in refused) \/ CallsFail
          /\ Goes(l, "unprobe", "refused")
          /\ TakeProbe(l, spoilt \ {l})
          /\ Dismiss(l)
    /\ todo' = [todo EXCEPT ![l] = Files]
    /\ UNCHANGED << hostVars, packed, altered, raced, runVars >>

\* An exception: a call runs into its timeout, or a script is not delivered.
\* A script that outlives its call is that of a launch which fails later.
VerifyFails(l) ==
    /\ CallsFail
    /\ \E at \in Verifying \cup { "idle" } : Goes(l, at, "failed")
    /\ Dismiss(l) /\ spoilt' = spoilt \ {l}
    /\ UNCHANGED << hostVars, passVars, probe, runVars >>

-----------------------------------------------------------------------------
(* stage_project.                                                           *)

\* The histories of a launch end where no property asks for them any more.
Forget(l) ==
    /\ packed' = [packed EXCEPT ![l] = {}]
    /\ altered' = [altered EXCEPT ![l] = {}]
    /\ raced' = [raced EXCEPT ![l] = {}]
    /\ UNCHANGED << hostVars, todo, probeVars >>

\* The archive is built from what the project holds by now.
Pack(l) ==
    /\ \E f \in todo[l] :
         /\ todo' = [todo EXCEPT ![l] = @ \ {f}]
         /\ packed' = [packed EXCEPT ![l] = IF project[f] = "absent" THEN @ ELSE @ \cup {f}]
         /\ altered' = [altered EXCEPT ![l] = IF project[f] = "changed" THEN @ \cup {f} ELSE @]
    /\ Goes(l, "stage", "stage")
    /\ UNCHANGED << hostVars, raced, probeVars, runVars >>

\* A local file or a limit refuses staging.
PackFails(l) ==
    /\ "local" \in Faults
    /\ Goes(l, "stage", "failed")
    /\ Forget(l)
    /\ UNCHANGED runVars

\* The archive is extracted; launch_secure_run is not in its try block yet.
Extract(l) ==
    /\ todo[l] = {} /\ root' = root \cup {l}
    /\ \/ /\ Goes(l, "stage", "guard")
          /\ copy' = [copy EXCEPT ![l] = packed[l]]
          /\ UNCHANGED << hostVars, passVars, probeVars, cut >>
       \/ /\ \/ "tar" \in Faults /\ Goes(l, "stage", "unstage") /\ UNCHANGED cut
             \/ CutShort(l) /\ Goes(l, "stage", "failed")
          /\ \E part \in SUBSET packed[l] : copy' = [copy EXCEPT ![l] = part]
          /\ Forget(l)
    /\ UNCHANGED << immut, stray, alive, blind >>

\* rm -rf of the run root as the sandbox user, and an exception.
Unstage(l) ==
    /\ Goes(l, "unstage", "failed")
    /\ \/ root' = root \ {l} /\ copy' = [copy EXCEPT ![l] = {}] /\ UNCHANGED cut
       \/ CutShort(l) /\ UNCHANGED << root, copy >>
    /\ UNCHANGED << hostVars, passVars, probeVars, immut, stray, alive, blind >>

-----------------------------------------------------------------------------
(* guard_control_plane_wsl.                                                 *)

\* Mandatory paths and, as coverage, whatever exists of the standard surface.
Guardable(l) == (Mandatory \cup Standard) \cap copy[l]

\* Mutation: a mandatory path that is missing is not an error.
GuardSkipsMissing(l) == "immutable" \in distro

GuardWorks(l) == "immutable" \in distro /\ Mandatory \subseteq copy[l]

Guards(l, files) == immut' = [immut EXCEPT ![l] = files]

\* Every error is in the report, and a report with an error raises.  When the
\* enumeration dies the loop ends early and the report has nothing to say.
Guard(l) ==
    /\ \/ /\ GuardWorks(l) /\ Guards(l, Guardable(l)) /\ Goes(l, "guard", "run")
          /\ UNCHANGED << hostVars, passVars, probeVars, blind, cut >>
       \/ /\ \/ (~GuardWorks(l) \/ "chattr" \in Faults) /\ UNCHANGED cut
             \/ CutShort(l)
          /\ \E part \in SUBSET Guardable(l) :
               Guards(l, IF "immutable" \in distro THEN part ELSE {})
          /\ Goes(l, "guard", "unguard")
          /\ Forget(l) /\ UNCHANGED blind
       \/ /\ "enumerate" \in Faults
          /\ \E part \in SUBSET Guardable(l) :
               Guards(l, IF "immutable" \in distro THEN part ELSE {})
          /\ Goes(l, "guard", "run")
          /\ blind' = blind \cup {l}
          /\ UNCHANGED << hostVars, passVars, probeVars, cut >>
    /\ UNCHANGED << root, copy, stray, alive >>

-----------------------------------------------------------------------------
(* run_sandboxed.                                                           *)

RunStarts(l) ==
    /\ \/ Goes(l, "run", "running") /\ alive' = alive \cup {l}
       \/ CallsFail /\ Goes(l, "run", "unguard") /\ UNCHANGED alive
    /\ altered' = [altered EXCEPT ![l] = {}] /\ raced' = [raced EXCEPT ![l] = {}]
    /\ packed' = IF l \in blind THEN [packed EXCEPT ![l] = {}] ELSE packed
    /\ UNCHANGED << hostVars, todo, probeVars, fileVars, cut, blind >>

RunEnds(l) ==
    /\ Goes(l, "running", "unguard")
    /\ alive' = alive \ {l}
    /\ UNCHANGED << hostVars, passVars, probeVars, fileVars, cut, blind >>

\* Mutation: the run has no timeout.
NoTimeout(l) == FALSE /\ UNCHANGED vars

\* subprocess.run kills wsl.exe when the timeout expires and raises.
RunTimesOut(l) ==
    /\ Goes(l, "running", "unguard")
    /\ \/ alive' = alive \ {l} /\ UNCHANGED cut
       \/ "survive" \in Faults /\ UNCHANGED alive /\ cut' = cut \cup {l}
    /\ UNCHANGED << hostVars, passVars, probeVars, fileVars, blind >>

SurvivorEnds(l) ==
    /\ l \in alive /\ step[l] # "running"
    /\ alive' = alive \ {l}
    /\ UNCHANGED << hostVars, passVars, probeVars, fileVars, cut, blind, step >>

\* The guard has seen every path and has not been undone.
UnderGuard(l) == l \notin blind /\ step[l] \in { "running", "unguard" }

\* Mutation: chattr is not recursive.
FlaggedNothing(l) == {}

\* chattr -R sets the flag on a control directory and all it holds; of other
\* directories only single files have it.
Flagged(l) ==
    { D \in Directories : UnderGuard(l) /\ D \subseteq Standard /\ D \cap immut[l] # {} }

\* The command, or what outlives it, changes files; bounded to the time until
\* the launch ends.
Acts(l, files) ==
    /\ l \in alive /\ step[l] \in { "running", "unguard", "remove" }
    /\ altered' = IF UnderGuard(l) THEN [altered EXCEPT ![l] = @ \cup files] ELSE altered
    /\ UNCHANGED << hostVars, todo, packed, raced, probeVars, root, alive, cut, blind, step >>

\* It creates, writes or removes a file.
CommandWrites(l) ==
    /\ \E f \in Files \ (immut[l] \cup UNION Flagged(l)) :
         /\ Acts(l, {f})
         /\ \/ copy' = [copy EXCEPT ![l] = @ \cup {f}]
            \/ copy' = [copy EXCEPT ![l] = @ \ {f}]
    /\ UNCHANGED << immut, stray >>

\* It renames a directory, and immutable files with it.
CommandMoves(l) ==
    \E D \in Directories \ Flagged(l) :
        /\ D \cap copy[l] # {}
        /\ Acts(l, D)
        /\ copy' = [copy EXCEPT ![l] = @ \ D]
        /\ immut' = [immut EXCEPT ![l] = @ \ D]
        /\ stray' = [stray EXCEPT ![l] = @ \cup (immut[l] \cap D)]

-----------------------------------------------------------------------------
(* clean_remote, with every exception ignored.                              *)

\* Mutation: the run root is removed while it is still guarded.
UnguardNothing(l) ==
    /\ Goes(l, "unguard", "remove")
    /\ UNCHANGED << hostVars, passVars, probeVars, runVars >>

\* clean_remote does not hand protected_relative on to the unguard script.
Unguard(l) ==
    /\ \/ /\ Goes(l, "unguard", "remove")
          /\ immut' = [immut EXCEPT ![l] = @ \ Standard]
          /\ UNCHANGED cut
       \/ /\ \/ CallsFail /\ Goes(l, "unguard", "done")
             \/ (CallsFail \/ "enumerate" \in Faults) /\ Goes(l, "unguard", "remove")
          /\ \E part \in SUBSET Standard : immut' = [immut EXCEPT ![l] = @ \ part]
          /\ cut' = cut \cup {l}
    /\ Forget(l)
    /\ UNCHANGED << root, copy, stray, alive, blind >>

\* Mutation: rm -rf is taken to remove whatever it finds.
RemoveAll(l) ==
    /\ Goes(l, "remove", "done")
    /\ copy' = [copy EXCEPT ![l] = {}]
    /\ root' = root \ {l}
    /\ UNCHANGED << hostVars, passVars, probeVars, immut, stray, alive, cut, blind >>

\* rm -rf as root leaves what is immutable and what is written behind it; its
\* exit status is not read.
Remove(l) ==
    /\ Goes(l, "remove", "done")
    /\ \/ /\ l \notin alive /\ copy' = [copy EXCEPT ![l] = immut[l]]
          /\ root' = IF immut[l] \cup stray[l] = {} THEN root \ {l} ELSE root
          /\ UNCHANGED cut
       \/ /\ l \in alive \/ CallsFail
          /\ \E part \in SUBSET copy[l] : copy' = [copy EXCEPT ![l] = immut[l] \cup part]
          /\ cut' = cut \cup {l} /\ UNCHANGED root
    /\ UNCHANGED << hostVars, passVars, probeVars, immut, stray, alive, blind >>

LaunchStep(l) ==
    \/ VerifyFile(l) \/ VerifyEnvironment(l) \/ HashBinary(l) \/ MeasureVersion(l)
    \/ ProbeClear(l) \/ ProbeCreate(l) \/ ProbeOpen(l) \/ ProbeProtect(l) \/ ProbeCut(l)
    \/ ProbeWrite(l) \/ ProbeUnflag(l) \/ ProbeRemove(l)
    \/ Pack(l) \/ PackFails(l) \/ Extract(l) \/ Unstage(l) \/ Guard(l)
    \/ RunStarts(l) \/ RunTimesOut(l) \/ Unguard(l) \/ Remove(l)

Other(l) ==
    VerifyFails(l) \/ RunEnds(l) \/ SurvivorEnds(l) \/ CommandWrites(l) \/ CommandMoves(l)

Next ==
    \/ \E l \in Launches : LaunchStep(l) \/ Other(l)
    \/ EditProject

Spec == Init /\ [][Next]_vars

\* Every call returns or runs into its timeout; the command need not end.
\* Nobody waits for an admission, which stages nothing.
FairSpec == Spec /\ \A l \in Launches \ Admissions : WF_vars(LaunchStep(l))

-----------------------------------------------------------------------------
(* What a secure run promises.                                              *)

\* What a distribution may lack although launch l has verified it.
Excused(l, which) == masked[l] \cup IF l \in which THEN {"immutable"} ELSE {}

(* The binary is executed only in an isolated distribution and with the     *)
(* pinned digest, and the project's command only where every check holds,   *)
(* but for a check that a failed call has let pass.  Another launch that    *)
(* spoils the probe does not suffice to get past it: the guard script would *)
(* notice, unless its enumeration dies as well; an admission has no guard.  *)
OnlyCertified ==
    \A l \in Launches :
        /\ l \in executed => Environment \cup {"pin"} \subseteq distro \cup masked[l]
        /\ step[l] = "admitted" => Qualities \subseteq distro \cup Excused(l, spoilt)
        /\ l \in alive => Qualities \subseteq distro \cup Excused(l, blind \cap spoilt)

(* What the guard grants: every mandatory file is there and immutable, and  *)
(* so is what exists of the standard surface (PH3-004).                     *)
Guarded(l) == Mandatory \subseteq immut[l] /\ Guardable(l) \subseteq immut[l]

\* What the guard protects, and what of it no directory can be moved away with.
Surface(l) == Mandatory \cup (Standard \cap packed[l])
Pinned(l) == { f \in Surface(l) : \A D \in Directories : f \in D => D \subseteq Standard }

(* As long as processes of the project's command run, whatever they do, and *)
(* the guard has not been undone: a protected file is in its place and as   *)
(* it was staged, if it is at the root or in a control directory; elsewhere *)
(* it can at most be moved away with its directory.  This takes a guard     *)
(* script that has seen every path.                                         *)
GuardedWhileRunning ==
    \A l \in alive : UnderGuard(l) =>
        /\ Pinned(l) \subseteq immut[l] \ altered[l]
        /\ Surface(l) \subseteq immut[l] \cup stray[l]

(* "Baseline verification precedes any staging": the control plane the      *)
(* command is given is the baseline's, nothing missing, added or changed,   *)
(* but for files that were edited after they had been verified and before   *)
(* they were packed, which no later step detects.                           *)
StagedAsVerified ==
    \A l \in Launches : step[l] = "run" =>
        \A f \in Controlled \ raced[l] :
            f \notin altered[l] /\ (f \in copy[l] <=> f \in Mandatory)

(* A self-probe that saw its write denied tells that chattr works, if its   *)
(* script has prepared the file and no other launch has removed it: a write *)
(* can be denied by a missing directory and by root's ownership as well.    *)
ProbeHonest == refused \subseteq spoilt \/ "immutable" \in distro

(* However a launch ends, its run root goes: unless staging, the guard or   *)
(* the clean-up is cut short, or the command outlives its time, nothing     *)
(* stays but protected files that are not part of the standard surface.     *)
OnlyProtectedStay ==
    \A l \in Launches \ cut :
        (step[l] \in Ended /\ l \in root) =>
            /\ copy[l] \cup stray[l] # {}
            /\ copy[l] \subseteq Mandatory \ Standard
            /\ l \notin blind => stray[l] \subseteq Mandatory \ Standard

(* A launch that has staged the project ends, even if its command hangs.    *)
StagedEnds == \A l \in Launches \ Admissions : (l \in root) ~> (step[l] \in Ended)

(* "the staged run is cleaned up": however a launch ends, its run root does *)
(* not stay behind.                                                         *)
NothingLeft == \A l \in Launches : step[l] \in Ended => l \notin root

(* The guard "fails closed unless every mandatory path is present and       *)
(* immutable": whatever its script goes through, it does not grant less.    *)
FailsClosed == \A l \in Launches : step[l] = "run" => Guarded(l)
=============================================================================
