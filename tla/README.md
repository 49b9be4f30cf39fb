# TLA+ models of RAD Protocol's security tools

RAD Protocol is a set of instructions for coding agents and, beside them, a small program that
keeps agents away from what governs them. This directory models the program: `security/`, `tools/`
and what the `scripts/` call. The models are translated from the source; a definition names the
code it stands for in `PROJECT.json` under `map`.

## 1. The system

| Part | Source | State it keeps | Operations | How hard |
|---|---|---|---|---|
| test process ownership | `security/rad_security/processes.py` | one signed record per (project, port), a named mutex (lease), a job object per run, control socket, trust key file | `start_run`, `_guardian`, `stop_run`, `cleanup_state` | several processes, crashes, reused pids and ports, timeouts |
| Windows control-plane guard | `guard.py`, driven by `rad_secure.py` and `launcher.py` | security descriptors in the file system, snapshots in the session | `lock`, `verify`, `restore`, `unlock`; `harden`/`unharden` of an installation | one entry at a time, failures half-way, overlapping sessions, files that come and go |
| WSL secure run | `wsl_backend.py` | run roots and immutable flags in the distribution, the probe directory | verify, self-probe, stage, guard, run, clean up | every step a remote call with a timeout, concurrent launches |
| trusted launch admission | `launcher.py` | none (runtime capability table) | `inspect_project`, `launch_trusted_project`, `prepare_secure_launch` | sequential; check before use |
| baseline and installation | `baseline.py`, `install.py` | installed tree, its manifest and release pin | `install_release`, `load_verified_installation`, `verify_target` | partial failure, racing installers, a source or project that changes while it is read |
| workspace broker | `workspace.py` | files of the project | `read`, `write` under locked parents | in-place overwrite, killed writers, directories and files replaced by links |
| command policy | `policy.py` | none | path and role rules | overlapping tables, many spellings of one entry |
| adapter generator | `tools/generate_adapters.py` | generated adapter files | generate, check for drift | in-place writes one by one, concurrent edits, files left by an older manifest |
| protocol text, adapters, examples | `.rad/`, `docs/`, `examples/` | - | - | not code |

Interactions. A start client spawns a *guardian* process and from then on speaks with it only
through the signed record; a stop client reads the record and connects to the control port in it;
cleanup touches the same record; all of them meet in the lease, a mutex whose *existence* is the
lock. The launcher takes the control-plane guard around a runtime process; `rad_secure.py guard`
takes and removes it from separate commands; both act on descriptors that any process of the
project may run into at any moment. A WSL launch is a series of `wsl.exe` calls into a
distribution it shares with other launches. All components rely on `verify_target`, the comparison
of a project with its baseline.

What each component has to get right:

* process ownership - one run per slot; nobody acts on a record, pid or port that has come to mean
  another run; a stop kills the run it was aimed at and only that; success is reported only if it
  is true; a run that was told to end ends;
* guard - while a runtime runs everything locked stays as it was; afterwards descriptors are what
  they were; whatever happened, an operator can unlock;
* secure run - nothing unverified executes; the command runs only under a full guard; nothing is
  left behind;
* trust key - whoever has a key has the one in the file; whoever it is that the code looks for
  must not be able to read it, whatever directory and key were found;
* installation - a tree that is accepted, or reported as installed, is the pinned release and
  stays so; a partial installation is never usable;
* broker - nothing outside the project is reached; a read never mixes two writes;
* policy - a file has one class however it is spelt, and no one both develops and judges it;
* generator - a check is right about every adapter, whatever left it as it is.

## 2. Modules

```
RunSlot            what a (project, port) slot promises          (abstract)
  ^ refined by
TestProcess        start, guardian, stop, cleanup, the operating system
SealedTree         what the guard promises of a project's tree       (abstract)
  ^ refined by
ControlPlaneGuard  lock, verify, restore, unlock over security descriptors
SecureRun          verification and launches in the WSL distribution

TrustedHost        the five parts below, one at work in each behaviour
  Installation       install, verify, harden, unharden a trusted tree
  TrustKey           provisioning of the state directory and the trust key
  WorkspaceBroker    structured reads and writes of a product file
  AdapterGenerator   generation and check of runtime adapters
  PathPolicy         spellings, classes and writers of paths

MCTestProcess, MCControlPlaneGuard, MCSecureRun, MCTrustedHost     constants of the runs

TestProcessProofs        types, one run per slot
TestProcessSlotProofs    the record, reachability of a serving run
TestProcessStopProofs    what stop clients are told, readiness
TestProcessRefinement    TestProcess implements RunSlot and keeps its promises
RunSlotProofs            the abstract slot
ControlPlaneGuardProofs  types, held locks, traces, recovery, the sealed tree
SecureRunProofs          types, checks before execution, staging, the guard, clean-up
TrustedHostProofs        the five parts of the host and their composition
```

### TestProcess

One module for all the actors of `processes.py`, because each property is about how they
interleave. `Starts` are the start clients and at the same time the runs they create: run `r` is
what start client `r` has spawned. An action is one system call with an effect others can see (or
the longest stretch of code without one):

| State | Code |
|---|---|
| `lease` | open handles of the mutex; `LeaseIsNew` is `GetLastError() != ERROR_ALREADY_EXISTS` in `_RunLease.__init__` |
| `record` | the file at `metadata_path`; written by `os.replace`, so as a whole |
| `start`, `got` | where `start_run` is, and the payload it has read |
| `guardian`, `pid`, `cport`, `serving` | where `_guardian` is, its pid, control port and the connection it handles |
| `job`, `listeners`, `bound` | the job object, who listens on the application's port, and (history) who ever did |
| `stop`, `seen`, `queued`, `answer` | where `stop_run` is, the record it read, the backlog its connection waits in, the response |
| `clean` | where `cleanup_state` is |

A signature is abstracted to authenticity: a record is either one a guardian of this slot wrote or
absent. The token of a run is its name, which is what `secrets.token_urlsafe` gives it.
`process_identity_matches` compares pid *and* creation time; the model keeps both, the name of the
run standing for the creation time. A pid or control port may be reused as soon as Windows allows
it. `Past` are runs of an earlier time of which only a record may remain. The read-only `status`
request is left out (it changes nothing and nothing in the repository sends it).

### ControlPlaneGuard

Paths are the root, other directories and control files (`Leaves`); `Inside[d]` is what lies in a
directory, `Way(p)` a path with the directories above it. A descriptor is the set of deny entries
for Everyone it holds: the guard's, and one the project may have had before (`Pre`, on any path;
the repository's own tests put one on `AGENTS.md`). `Guarded` is the set `control_plane_entries`
and the parents added by `lock` select. `Rank` is the order they are processed in (the root,
control directories, other parents, files); a session keeps the *set* of what it has captured or
denied, and its next entry is the `First` one left. `verify` probes one file and one directory:
whichever the walk names first, so either outcome is possible when some are denied and some are
not.

The project's own processes create, edit and remove control files and directories at any moment
(`Create`, `EditLeaf`, `Remove`). Removing is deleting a file or *renaming* a directory with all
that is in it; it needs the right on the name *or* on its directory, as on Windows. `lock` denies
the immediate parent of a control file and nothing further up, so a directory whose own directory
no guard selects (`Movable`) can always be renamed, and be made anew under its old name.
`Anchored` are the paths to which this cannot happen: every directory above them is selected
whenever they are. What the guard promises of paths it promises of these; run `moved` shows the
rest. That a renamed directory is brought back with the descriptors it had is not modelled, nor
that the project root itself is renamed.

Four variables are history. `prior` is what each descriptor would be had no guard ever run; `kept`
are the entries that lock commands have left denied and that no unlock has freed since; `swapped`
are paths whose entry was replaced after a command had captured deny entries of its predecessor:
descriptors are put back by path, so the new entry gets the old one's; `events` notes that
something happened which a launch does not undo (a `lock` command left its denials, an `unlock`
removed entries, a restore failed, a command was killed). The properties about traces are
conditioned on `events` and `swapped`, which is how the boundary of each promise is written down.

`SealedTree` is what the guard looks like from outside: entries are sealed at one stroke with the
directories on the way to them, nobody edits a sealed file, nothing that is sealed all the way is
deleted or renamed, no file appears in a sealed directory, and only the guard unseals. It speaks
of the anchored entries. The refinement mapping takes as sealed what running sessions hold and
`kept`. The steps of a lock, of a rollback and of a restore stutter; a launch that comes after a
lock command captures its denials and puts them back, so it gives nothing of the seal away.

### SecureRun

`verify_project` and `stage_project` each read the project file by file (`VerifyFile`, `Pack`);
between and during the two passes it may be edited (`EditProject`, bounded to the time some launch
still reads it). `raced` is history: the files edited after a launch had verified them and before
it packed them. No later step of the code can detect those, so `StagedAsVerified` exempts exactly
them. `Files` are those that staging does not exclude. `Admissions` are the calls of
`prepare_secure_launch`, which end once the backend is verified.

Otherwise there is one action per call into the distribution, and `Qualities` are the conditions a
distribution may fail. Two checks look for what must *not* be said, so a call that says nothing
passes them: `host-drive-hidden` when the `wsl.exe` call fails, and `socket-denied` when python3
does not start in the sandbox. `masked` records which check a launch owes to that. The self-probe
is taken apart into the commands of its scripts (`ProbeClear` ... `ProbeRemove`), because every
launch uses the one directory: a write is denied as well by a directory that another launch has
just removed and by a file that still belongs to root. `spoilt` are launches whose script was cut
short or whose file another launch removed.

A run root belongs to one launch (its name is random). The sandboxed command owns the copy: it
creates, writes and removes files and renames directories wherever no immutable flag stands in its
way (`CommandWrites`, `CommandMoves`), as long as it lives - also when it has outlived the killed
`wsl.exe` (`survive`) and clean-up is under way. `chattr -R` covers a control directory as a
whole; of a protected file elsewhere only the file has the flag, so its directory can be renamed
with it (`stray`) and the name be used again. That is the reason for the two halves of
`GuardedWhileRunning`: `Pinned` files are in place and unchanged, the other protected ones
unchanged wherever they have gone. Not modelled: that a renamed directory is moved back (this
leads to no new state), and that the project directory or the run root itself is renamed.

`Faults` names what may go wrong: any call fails or times out, a local file staging refuses,
`tar`, `chattr`, python3 in the sandbox, the enumeration of the guard or unguard script, and
processes that outlive the killed `wsl.exe`. `cut` and `blind` are history: the launches whose
staging, guard or clean-up was cut short or whose command outlived its call, and those whose guard
script lost its enumeration. A script that outlives its own call is that of a launch which fails
later. What survivors do once their launch has ended is not modelled, and the histories of a
launch are forgotten where no property asks for them any more.

### TrustedHost and its parts

These parts keep their state in files of their own: an installation directory, the state directory
of the processes, a product file, the adapters. No call of one touches the files of another, so no
property relates two of them. `TrustedHost` is the host on which exactly one part is at work in a
behaviour; each disjunct of its next-state relation is the next-state relation of a part, and one
run checks them all without multiplying their states. Each part is a specification of its own
(`KeySpec`, `InstallSpec`, ...), and the theorems are about these and about the composition.

* **Installation.** `source` is the tree that is copied, `tree` the destination; of a file it
  matters only whether it is absent, half written, as the pin wants it, or anything else, so a
  digest is right when no file differs (`Pass` visits the files one by one, as `snapshot_release`
  does). `denied` are the entries `harden_installation` has reached; what a denial prevents is
  `Changeable`. `meddled` is history: others changed the tree before it was sealed. The promises
  are made for trees nobody meddled with - or that were sealed first, when they hold whatever
  others try. `EditSource` is bounded to the time an installer still reads the source.
* **TrustKey.** `Creators` are start clients (`load_or_create_key`), `Users` all others
  (`load_key`); each first provisions, hardens and checks the directory, one `icacls` call per
  step. The directory and the key may be there already, with any descriptor (`FoundAcls`); a new
  directory inherits, and so does the key file, which is created with `O_EXCL`, empty. A
  descriptor tells who else has access by entries of the object's `own` and who by entries from
  above (`down`). `icacls /inheritance:r /grant:r` removes the latter only. The check reads a
  listing and knows the names of two groups in two languages, after a blank: `Strangers` are
  therefore `known` or `other`, and an entry of the object's own for another principal (or for a
  known one listed with its domain, as `BUILTIN\Users`) passes it. A listing whose `icacls` fails
  names nobody and passes too (`unlisted`). `KeyIsPrivate` claims what is left. That the key found
  is a link or has two names is refused at once and not modelled.
* **WorkspaceBroker.** An operation holds a handle of every directory above the file (`opened`);
  handles share reading only, so `Redirect` cannot touch a directory somebody holds. The level after
  `Depth` is the file: if it is a link or has a second hard link, opening it fails. The file is a
  sequence of blocks named after their writers, overwritten in place and then truncated. `latest`
  and `wanted` are history.
* **AdapterGenerator.** What is rendered is a function of the versions of the canonical files that
  were read; which adapters there are depends on the version of the manifest (`AdapterSet`). A
  stale file that cannot be read, which the check skips, is left out. `touched` and `outdated` are
  history and mark what others changed meanwhile.
* **PathPolicy.** A path is a sequence of segments, each a case-folded name and the form it is
  spelt in. The tables are the code's. The reference is `reached`, the entry Windows finds: each
  behaviour spells a path segment by segment and takes one `Step` of the resolution with each. The
  behaviours spell every path up to `MaxSegments`, with up to `MaxOdd` segments that are not spelt
  plainly; the theorems hold for any bounds.

## 3. Runs

Passing runs, with the instance each uses and why it is large enough:

| Run | Instance | Shows |
|---|---|---|
| `crash` | 2 starts, 1 stop; crashes, failing writes, clients that stall | types; one run per slot; its record is kept and it can be stopped; a start reports its own run; only a request for its own run ends an application |
| `failures` | 1 start and a run of an earlier time, 2 stops, 1 cleanup; every failure | a confirmed stop has terminated, a port reported free is not used by the run, a ready run owned its port; cleanup never removes a live record; `TestProcess` implements `RunSlot` |
| `liveness` | 1 start, 1 stop, 1 cleanup; crash, write and launch failures, a foreign listener | a stopped run leaves, orphans die, `TestProcess` implements the fair `RunSlot` |
| `sessions` | 1 session that runs launch, lock and unlock in any sequence over the root, a control directory that lies in an ordinary one, an ordinary directory and a control file in it, the latter two with or without deny entries of their own; every failure and crashes | a granted lock denies all it selected; nothing locked changes in a run; launches restore descriptors; no deny entry of the project's own is lost before an unlock; an unlock leaves no denial; `ControlPlaneGuard` implements `SealedTree` |
| `launch` | 1 launch and 1 admission, 2 protected files, 8 distributions: the certified one, one that fails both forgiven checks, and each that fails one other; every failure, edits of one file, everything the command may write and rename | nothing executes before its checks; protected files in place while the command runs; what runs was verified; an honest probe; only protected files stay; the launch ends |
| `parts` | 2 installers and a reader of 2 files and a manifest; 2 start clients and a user of the key, with no directory or one of three descriptors with and without a key; 2 writers and a reader below 2 directories; 2 generators and a check of 2 runtimes; every path of up to 3 of 17 names, one of them spelt oddly | each part of `TrustedHost` keeps its promises |

Two starts are what a race for a slot takes; a third would only wait. Two pids and two control
ports force reuse. Two stop clients are needed for one to be queued while another is served. In
the guard, what `lock` distinguishes is a control directory and an ordinary one with a file in it;
what a project's processes distinguish is whether a directory lies in one that is denied, and the
instance has one of each kind; one session is what the properties promise (see `overlap`), and it
repeats commands without end. In `SecureRun` launches share the probe directory and nothing else,
so the second call is an admission, which does all that a launch does there; one of the two files
is in a control directory and edited, the other one in an ordinary directory. A distribution that
fails several checks is left to the proof. In `parts`, two installers race for the destination
while a reader looks at it; a file of the release and one that does not belong to it can each be
missing, extra or edited; two writers, one writing less than there was and one more, are what
makes tails and mixtures; the found descriptors are an inherited one, one with a known name and
one that passes the check with another principal. The second version of the manifest drops an
adapter, so a stale file can occur. Seventeen names include every kind of table entry and each way
two tables can overlap, and three segments are one more than the longest prefix. The bounds are
`LastVersion` (edits of the canonical file), `MaxSegments`, `MaxOdd`, `Selections` (which runtimes
are asked for), the windows of `EditSource` and `EditProject`, and `Editable`; other counters need
none: every client makes one call, except cleanup and guard sessions, which repeat, and time is
not modelled - a deadline may pass whenever the code waits.

Deadlock is not checked where the system may stop: every start and stop client has ended, or every
launch has.

Runs that find a disagreement between the code and what is said of it (each is a finding in
`PROJECT.json` with the line it quotes):

| Run | What TLC shows |
|---|---|
| `stuck_stop` | the port probe fails after the job was terminated; the guardian returns to `accept()`, its record says `stopping`, which `stop_run` refuses: it stays for ever with the lease |
| `overlap` | two launches overlap; the one that ends first takes the other's denials away |
| `moved` | while the runtime runs, the directory of a locked control file is renamed through the ordinary, undenied directory above it, so that the file is not there any more |
| `recovery` | a launch is killed; a missing baseline file makes unlock refuse, and the denied directory keeps the file from being put back |
| `residue_wsl` | clean-up removes the immutable flag from the standard surface only; a protected file outside it keeps the run root |
| `fail_open` | the enumeration in the guard script dies and the guard reports success |

`HeldLockDenies` and `StoppedRunLeaves` appear in both lists: they hold in the circumstances of
the passing run and fail in those of the other one. `OnlyProtectedStay`, `GuardedWhileRunning` and
`LeavesSurviveRun` are what remains true of `NothingLeft`, `FailsClosed` and `LockedLeavesStay`;
under which constants these and `RecoveryPossible` do hold is proved (section 5). A passing run
therefore says where the boundary lies: `HeldLockDenies`, `LeavesSurviveRun` and
`QuietMeansOriginal` for sessions that do not overlap (the second one for files no undenied
directory above which can be renamed), `GuardedWhileRunning` for launches whose enumeration
completes, `OnlyProtectedStay` for launches that were not cut short and whose command did not
outlive its call, `StoppedRunLeaves` if the probe and the kill do not fail.

Behaviour of the models beyond these boundaries that no run asserts, listed because a maintainer
will want to know it:

* a launch that starts while another holds the lock captures the other's denials as original and
  restores them for good (`QuietMeansOriginal` with two sessions);
* `unlock` removes deny entries for Everyone that the project had of its own;
* a control file created after the walk of `lock` is not in its plan, and not denied when the
  runtime starts;
* `stage_project` is called before the `try` whose `finally` cleans up, so a staging call that
  times out leaves a partial run root (it sets `cut`);
* two launches share the probe directory: one that removes or replaces it makes the other's write
  fail, which counts as a denial (`spoilt`); an admission has nothing else to go by. For a launch,
  the guard script still notices that `chattr` has no effect, unless its enumeration dies too
  (`OnlyCertified`);
* a failed call lets a distribution with a visible host drive pass, and one without python3 in the
  sandbox seems to deny sockets (`masked`);
* the command may rename an ordinary directory with a protected file in it and put something else
  under the old name;
* a deny entry that a control file had of its own is put on whatever has the file's name when the
  guard restores (`swapped`), and so may the guard's own denial after a lock command;
* the state directory and the key may be readable by a principal the check does not know, if the
  directory or key was found with such an entry, and by anyone if a listing failed;
* a protected file edited between `verify_project` and staging runs as edited (`raced`);
* a start client that loses the race for the trust key can read it before it is written, and
  fails; if its creator is killed there, every later client fails until an operator removes the
  file;
* files changed between the last comparison of an installation and its hardening are hardened as
  they are; readers refuse the tree.

## 4. Fairness

`TestProcess!Fairness` is weak fairness of what Windows or a loop with a deadline guarantees: each
guardian's own steps (every loop in it polls with a deadline or a socket timeout), the closing of
a dead process's handles, and the end of a job that was killed. A client that has begun gets it
too, because its calls return or run into a deadline; nobody need start one. Crashes, the
application's behaviour and foreign processes get none. `SecureRun!FairSpec` is weak fairness of
each launch's own steps, `RunTimesOut` included, because each call has a timeout; the command
itself need not end. Admissions get none, as nobody waits for them.

## 5. Proofs

All theorems hold for every value of the constants, any number of clients and every set of faults
unless stated.

| Theorem | Module | States |
|---|---|---|
| `TypeCorrect` | TestProcessProofs | `Spec => []TypeOK` |
| `OneRun` | TestProcessProofs | `Spec => []OneRunPerSlot` |
| `RecordKept` | TestProcessSlotProofs | `Spec => LiveRecordKept` |
| `Stoppability` | TestProcessSlotProofs | `Spec => []ServingIsStoppable` when `probe` and `kill` are not among the faults |
| `OwnRunReturned` | TestProcessSlotProofs | `Spec => []StartReturnsOwnRun` |
| `OwnRequest` | TestProcessStopProofs | `Spec => []OnlyOwnRequestKills` |
| `StopIsTrue` | TestProcessStopProofs | `Spec => []StopMeansTerminated` |
| `FreeIsTrue` | TestProcessStopProofs | `Spec => []FreeMeansUnbound` |
| `ReadyIsOwned` | TestProcessStopProofs | `Spec => []ReadyWasOwned` |
| `Refinement` | TestProcessRefinement | `Spec => ImplementsRunSlot` |
| `Exclusive`, `Published` | RunSlotProofs | the abstract slot's two invariants |
| `SlotKeepsPromises` | TestProcessRefinement | both of them of `TestProcess`, through the refinement |
| `TypeCorrect` | ControlPlaneGuardProofs | `Spec => []TypeOK` |
| `LockHolds` | ControlPlaneGuardProofs | `Spec => []HeldLockDenies` for one session |
| `LeavesKept` | ControlPlaneGuardProofs | `Spec => LeavesSurviveRun` for one session |
| `NoTrace` | ControlPlaneGuardProofs | `Spec => []QuietMeansOriginal` for one session |
| `UnlockFreesAll` | ControlPlaneGuardProofs | `Spec => []UnlockFrees` for one session |
| `OwnStays` | ControlPlaneGuardProofs | `Spec => []OwnEntriesKept`, any number of sessions |
| `TreeIsSealed` | ControlPlaneGuardProofs | `Spec => ImplementsSealedTree` for one session |
| `RecoveryOpen` | ControlPlaneGuardProofs | `Spec => []RecoveryPossible` for one session, without lock commands, crashes and failing restores |
| `TypeCorrect` | SecureRunProofs | `Spec => []TypeOK` |
| `Certified` | SecureRunProofs | `Spec => []OnlyCertified`, any number of launches |
| `HonestProbe` | SecureRunProofs | `Spec => []ProbeHonest`, any number of launches |
| `AsVerified` | SecureRunProofs | `Spec => []StagedAsVerified`, any number of launches and edits |
| `GuardInPlace` | SecureRunProofs | `Spec => []GuardedWhileRunning`, any number of launches |
| `Discarded` | SecureRunProofs | `Spec => []OnlyProtectedStay`, any number of launches |
| `NeverOpen` | SecureRunProofs | `Spec => []FailsClosed` when `enumerate` is not among the faults |
| `NothingStays` | SecureRunProofs | `Spec => []NothingLeft` when no call fails, no process outlives its call, no enumeration dies and what is protected is of the standard surface |
| `OneTrustKey` | TrustedHostProofs | `KeySpec => []KeyAgreement` |
| `KeyStaysPrivate` | TrustedHostProofs | `KeySpec => []KeyIsPrivate` |
| `BrokerStaysInside` | TrustedHostProofs | `BrokerSpec => []StaysInside` |
| `BrokerReadsLastWrite` | TrustedHostProofs | `BrokerSpec => []ReadsLastWrite` |
| `InstallationStays` | TrustedHostProofs | `InstallSpec => []AcceptedStays` |
| `InstallationIsPinned` | TrustedHostProofs | `InstallSpec => []InstalledIsPinned` |
| `AdaptersAreRight` | TrustedHostProofs | `AdapterSpec => []VerdictIsRight` |
| `GeneratorRepairs` | TrustedHostProofs | `AdapterSpec => []GeneratedIsCurrent` |
| `OneClass` | TrustedHostProofs | `PolicySpec => []OneClassPerFile`, paths of any length and any spelling |
| `Duties` | TrustedHostProofs | `PolicySpec => []DutiesSeparated`, paths of any length and any spelling |
| `HostTypes` | TrustedHostProofs | `HostSpec => []HostTypeOK` |
| `HostKeepsPromises` | TrustedHostProofs | `HostSpec` implies all ten of these |

**TestProcess.** `OneRunPerSlot` is not inductive: it speaks of jobs, and what keeps them apart is
the lease. The invariant that is inductive says that the handles open on the mutex are exactly
those of the processes whose control point lies in the region that holds one; that at most one of
them *owns* it, that is found no other handle when it opened its own; and that a guardian's job is
live only in its owning region or after it died. A dead guardian's handle may be closed before its
job ends, so the guarantee is about guardians that live. `RecordKept` adds to this that a client
about to unlink (`stale`) owns the slot, and that the run of the record it inspected was dead: a
dead run stays dead, and no new guardian can publish while the slot is owned. `Stoppability` needs
that a serving guardian's own record is on disk, which holds until a handler fails half-way; hence
its assumption. `OwnRunReturned` is where the comparison of creation times matters: the child's
pid cannot be reused while the client has its handle, and a record with this pid whose identity
matches is the child's.

The abstract `RunSlot` separates the promise from the protocol: phases of runs and the run on
show. `Refinement` maps control points of guardians to phases (`SlotPhase`) and shows that every
step of the detailed protocol is a step of the slot or a stutter. `SlotKeepsPromises` takes the
theorems about the slot back to the protocol.

`StopIsTrue` and `FreeIsTrue` rest on one fact about guardians: from the moment the job is
terminated (`draining`, `reporting`) it never becomes live again, so an answer that was true when
it was sent stays true. `OwnRequest` needs that a client's record does not change once it has
connected; `ReadyIsOwned` that the guardian saw its own application listen before it wrote
`ready`.

**ControlPlaneGuard.** `LockHolds` needs the order of the denials: the invariant (`LockInv`) says
that what is denied so far is closed downwards in `Rank` and that the plan contains with an
anchored entry every directory above it (`Closed`), so a denied entry lies in denied directories
and nobody can delete it or rename what it lies in. `NoTrace` says that only captured entries
differ from the project's own and that what was captured is the project's own, or belonged to
something that has been replaced since (`TraceInv`, `Clean`); what does not exist has no entries
(`PlaceInv`), so a snapshot that cannot be set leaves none behind. `UnlockFreesAll` is about what
`unlock` can see: it works out its entries from the files that are there, so an ordinary directory
is found only through a file in it. `FreeInv` says that such a directory, when denied, is about to
be restored or holds a file that is denied too and not about to be freed (`Kept`), which nobody
can delete; an unlock that stops half-way has freed directories before files.

`OwnStays` needs none of this: whoever captures a descriptor captures the project's own entries
with it (`OwnInv`), so it does not matter how sessions overlap; only the guard's own entries can
be captured or restored at the wrong time. `TreeIsSealed` adds that what a lock command left
exists, is denied, and is captured *with* its denial by every later command (`KeptInv`); with
`LockInv` it follows that every sealed entry is denied, so a write, a creation or a deletion that
descriptors allow is one that the sealed tree allows. `RecoveryOpen` is the other side of run
`recovery`: the invariant (`TidyInv`) is that entries are denied only by the session under way,
and only those it has captured.

One session is assumed because the code does not exclude a second (`overlap`). The assumption on
the constants says that paths form a tree, that directories come before the files and, for what is
anchored, before what lies in them, and that the baseline records control files; any path may have
deny entries of its own.

**SecureRun.** `GuardInPlace` holds for any number of launches: run roots are private to their
launch, and no write or rename of the command takes a flag away (`GuardHolds`): a flagged file
cannot be written, and one whose directory can be moved is at most `stray`. `HonestProbe` follows
the probe file through the commands of both scripts (`ProbeKept`): it is immutable only where
`chattr` works, and elsewhere it is there and writable when it is written to, unless the probe is
spoilt. `Certified` adds the checks passed or masked at each step (`Passed`): a command that runs
without the flags needs a spoilt probe *and* a blind guard. `AsVerified` carries what each pass
has seen of a file (`Vetted`): a file that is verified, not raced and not packed yet still is as
approved. `Discarded` follows what is immutable, and what has been moved away so, through clean-up
(`Tidy`). `NeverOpen` and `NothingStays` say what the disagreements `fail_open` and `residue_wsl`
hang on: without the dying enumeration no guard script is `blind`, and without failing calls,
survivors and unusual protected paths no launch is `cut`, nothing protected can be moved and every
protected path is freed by `unguard`.

**TrustedHost.** Each part has an inductive invariant of its own.

* `KeyInv`: whoever is past the hardening of the directory uses one that hands nothing down but
  entries of its own, so a key file made later has no others (`KeyDirs`); whoever writes the key
  is alone, has created the file, and nobody holds a key meanwhile.
* Broker: no directory an operation holds is a link (`Kept`), which is all `StaysInside` needs:
  the file is opened below them and refused if it is a link. For the contents, `Access` says that
  a writer is alone in the file and readers are without one; `Contained` what the file holds in
  terms of the last write and the writer's position (a prefix of its data followed by the old
  tail); `ReadSoFar` that a reader has a prefix of what it will return.
* Installation: one installer owns the destination (`OneOwner`, from `mkdir`); while nobody
  meddles, what it has compared or recorded stays right (`Recording`); once sealed, the root and
  every entry are denied and so the tree stays (`Sealing`). The order of the denials matters: with
  the root first nothing can appear below it afterwards.
* Adapters: what has been loaded is current unless `outdated` (`Loaded`), what a generator has
  gone over is current unless `touched` (`Written`), and so is the verdict so far about what a
  check has gone over (`Looked`).

* Policy: the recursion is in the behaviour and not in an operator, so the fact about paths of any
  length is an ordinary invariant. `PolicyInv` says that Windows finds an acceptable path under
  exactly the segments the tables look it up by, so both have one class. `DutiesSeparated`
  compares the tables themselves; `PrefixFirst` is the lemma about the prefixes in them.

`HostTypes` and `HostKeepsPromises` follow because a step of one part leaves the variables of the
others alone. The constants' assumptions are only that roles and sentinels differ, that a release
is part of the payload, and that two runtimes have no adapter in common.

Every invariant and every action property of the passing runs is a theorem. Not proved: liveness
(`StoppedRunLeaves`, `OrphanJobsDie`, `ImplementsFairRunSlot`, `StagedEnds`), which is beyond the
prover and only model-checked. Of the six properties that runs refute, three are proved under the
constants that exclude the cause (`RecoveryPossible`, `FailsClosed`, `NothingLeft`),
`HeldLockDenies` for one session, and `LockedLeavesStay` for one session and anchored files
(`LeavesKept`). `StoppedRunLeaves` is liveness.

## 6. Plan

1. `RunSlot`, `TestProcess` and their proofs: done.
2. `ControlPlaneGuard` and `SecureRun` and their proofs: done.
3. `TrustKey`, `Installation`, `WorkspaceBroker`, `AdapterGenerator`, `PathPolicy`, their
   composition and proofs: done.
4. `SealedTree` and the proof that `ControlPlaneGuard` implements it: done. An abstract *staged
   run* (admitted, guarded, discarded) for `SecureRun` is left.
5. `TrustKey` composed with `TestProcess` through the key a record is signed with. At present
   `TestProcess` takes from it that all clients have one key.
6. `OneClassPerFile` and `DutiesSeparated` for paths of any length: done.

## 7. Not modelled

Parsing and printing of the command lines, the PowerShell and shell wrappers in `scripts/` (they
forward their arguments), the Markdown protocol and adapters, the examples and tests. Cryptography
is abstracted to who could have produced a message, a digest to equality of contents. Wall-clock
time is abstracted to "a deadline may pass now". Of the launcher, `inspect_project` (links and
limits, names only), the capability table and `verify_runtime_executable` are stateless checks
that raise. Of the policy, the `canonicalize_*` and `ensure_disjoint_paths` helpers inspect one
directory and raise. Staging's exclusions are in the choice of `Files`. The text of the adapters
and the permission tables inside it are data of the generator. The POSIX branch of
`read_project_bytes` opens directories one relative to the other and changes nothing.
