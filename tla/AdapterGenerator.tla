-------------------------- MODULE AdapterGenerator --------------------------
(***************************************************************************)
(* src/tools/generate_adapters.py: runtime adapters are generated from the *)
(* canonical files under .rad/ and, with --check, compared with them.      *)
(*                                                                         *)
(* A run reads the canonical files one after the other and renders its     *)
(* adapters in memory.  A generator then overwrites them in place; a check *)
(* reads them, and walks the directories of its runtimes for generated     *)
(* files that are no longer expected.  Runs overlap with each other and    *)
(* with edits of either kind of file, and a generator may be killed.       *)
(***************************************************************************)
EXTENDS Naturals, FiniteSets

CONSTANTS
    Generators, Checkers,  \* runs without and with --check
    Runtimes,              \* codex, opencode, claude, cursor
    Selections,            \* the sets of runtimes asked for with --runtime or --all
    CanonFiles,            \* the manifest, the command policy and CANON
    RadManifest,           \* .rad/manifest.json, which names the roles
    LastVersion,           \* bounds how often a canonical file is edited
    Paths, NoPath,
    AdapterSet             \* the adapters of a runtime under a manifest

Processes == Generators \cup Checkers
Versions == 1 .. LastVersion

ASSUME AdapterAssumption ==
    /\ Generators \cap Checkers = {}
    /\ Selections \subseteq SUBSET Runtimes
    /\ RadManifest \in CanonFiles
    /\ LastVersion \in Nat \ {0} /\ NoPath \notin Paths
    /\ AdapterSet \in [Runtimes -> [Versions -> SUBSET Paths]]
    /\ \A s, t \in Runtimes : \A m, n \in Versions :
         s # t => AdapterSet[s][m] \cap AdapterSet[t][n] = {}

VARIABLES
    canon,     \* the version of each canonical file
    adapter,   \* what each path holds
    run,       \* where each run is
    selected,  \* the runtimes it was asked for
    loaded,    \* the version of each canonical file it has read
    left,      \* what it still has to read, write or compare
    writing,      \* the path it has open for writing
    problem,   \* a check has found something
    touched,   \* paths others have changed since it began (history)
    outdated   \* a canonical file was edited since it began (history)

adapterHistory == << touched, outdated >>
adapterVars ==
    << canon, adapter, run, selected, loaded, left, writing, problem,
       adapterHistory >>

RunPhases ==
    { "idle", "load", "write", "fill", "compare", "walk",
      "generated", "in sync", "drift", "killed" }

\* A generated file is what was rendered from certain canonical versions.
Rendered == [CanonFiles -> Versions]
Absent == << "absent" >>
Torn == << "torn" >>
HandEdited == << "hand edited" >>
Rendering(versions) == << "rendered", versions >>
Generated == { Rendering(v) : v \in Rendered }
AdapterContents == { Absent, Torn, HandEdited } \cup Generated

AdapterTypeOK ==
    /\ canon \in Rendered
    /\ adapter \in [Paths -> AdapterContents]
    /\ run \in [Processes -> RunPhases]
    /\ selected \in [Processes -> SUBSET Runtimes]
    /\ loaded \in [Processes -> Rendered]
    /\ left \in [Processes -> SUBSET (CanonFiles \cup Paths)]
    /\ writing \in [Processes -> Paths \cup { NoPath }]
    /\ problem \in [Processes -> BOOLEAN]
    /\ touched \in [Processes -> SUBSET Paths]
    /\ outdated \in [Processes -> BOOLEAN]

Expected(runtimes, versions) ==
    UNION { AdapterSet[r][versions[RadManifest]] : r \in runtimes }

\* The paths below the directories of some runtimes.
Below(runtimes) == UNION { Expected(runtimes, v) : v \in Rendered }

\* A generated file carries the marker, and keeps it when edited by hand.
Marked(content) == content \notin { Absent, Torn }

AdapterInit ==
    /\ canon = [c \in CanonFiles |-> 1]
    /\ adapter = [p \in Paths |-> Absent]
    /\ run = [g \in Processes |-> "idle"]
    /\ selected = [g \in Processes |-> {}]
    /\ loaded = [g \in Processes |-> canon]
    /\ left = [g \in Processes |-> {}]
    /\ writing = [g \in Processes |-> NoPath]
    /\ problem = [g \in Processes |-> FALSE]
    /\ touched = [g \in Processes |-> {}]
    /\ outdated = [g \in Processes |-> FALSE]

RunGoes(g, from, to) ==
    /\ run[g] = from
    /\ run' = [run EXCEPT ![g] = to]

\* p is changed by g; every other run sees that.
Changes(g, p, content) ==
    /\ adapter' = [adapter EXCEPT ![p] = content]
    /\ touched' = [h \in Processes |->
                     IF h = g THEN touched[h] ELSE touched[h] \cup { p }]

-----------------------------------------------------------------------------
Start(g) ==
    /\ RunGoes(g, "idle", "load")
    /\ \E runtimes \in Selections :
         selected' = [selected EXCEPT ![g] = runtimes]
    /\ left' = [left EXCEPT ![g] = CanonFiles]
    /\ touched' = [touched EXCEPT ![g] = {}]
    /\ outdated' = [outdated EXCEPT ![g] = FALSE]
    /\ UNCHANGED << canon, adapter, loaded, writing, problem >>

\* The manifest and the command policy are read first, then what CORE_HASH
\* is computed from.
LoadCanon(g) ==
    /\ RunGoes(g, "load", "load")
    /\ \E c \in left[g] :
         /\ RadManifest \in left[g] => c = RadManifest
         /\ loaded' = [loaded EXCEPT ![g][c] = canon[c]]
         /\ left' = [left EXCEPT ![g] = @ \ { c }]
    /\ UNCHANGED << canon, adapter, selected, writing, problem, adapterHistory >>

\* Every adapter of the selected runtimes is rendered.
Render(g) ==
    /\ left[g] = {}
    /\ RunGoes(g, "load", IF g \in Generators THEN "write" ELSE "compare")
    /\ left' = [left EXCEPT ![g] = Expected(selected[g], loaded[g])]
    /\ UNCHANGED << canon, adapter, selected, loaded, writing, problem, adapterHistory >>

\* Mutation: an adapter that is there is left alone.
WriteMissing(g) ==
    /\ \/ RunGoes(g, "write", "fill") /\ \E p \in left[g] :
            /\ adapter[p] = Absent /\ Changes(g, p, Torn)
            /\ writing' = [writing EXCEPT ![g] = p]
            /\ left' = [left EXCEPT ![g] = @ \ { p }]
       \/ RunGoes(g, "write", "write") /\ \E p \in left[g] :
            /\ adapter[p] # Absent
            /\ left' = [left EXCEPT ![g] = @ \ { p }]
            /\ UNCHANGED << adapter, touched, writing >>
    /\ UNCHANGED << canon, selected, loaded, problem, outdated >>

\* write_text opens the file, which truncates it ...
WriteOpen(g) ==
    /\ RunGoes(g, "write", "fill")
    /\ \E p \in left[g] :
         /\ Changes(g, p, Torn)
         /\ writing' = [writing EXCEPT ![g] = p]
         /\ left' = [left EXCEPT ![g] = @ \ { p }]
    /\ UNCHANGED << canon, selected, loaded, problem, outdated >>

\* ... and fills it, whoever else has opened it by now.
WriteFill(g) ==
    /\ RunGoes(g, "fill", "write")
    /\ Changes(g, writing[g], Rendering(loaded[g]))
    /\ writing' = [writing EXCEPT ![g] = NoPath]
    /\ UNCHANGED << canon, selected, loaded, left, problem, outdated >>

AllGenerated(g) ==
    /\ left[g] = {} /\ RunGoes(g, "write", "generated")
    /\ UNCHANGED << canon, adapter, selected, loaded, left, writing, problem, adapterHistory >>

GeneratorKilled(g) ==
    /\ \E at \in { "load", "write", "fill" } : RunGoes(g, at, "killed")
    /\ writing' = [writing EXCEPT ![g] = NoPath]
    /\ left' = [left EXCEPT ![g] = {}]
    /\ UNCHANGED << canon, adapter, selected, loaded, problem, adapterHistory >>

-----------------------------------------------------------------------------
(* --check.                                                                 *)

\* check_files.
Compare(g) ==
    /\ RunGoes(g, "compare", "compare")
    /\ \E p \in left[g] :
         /\ problem' = [problem EXCEPT ![g] = @ \/ adapter[p] # Rendering(loaded[g])]
         /\ left' = [left EXCEPT ![g] = @ \ { p }]
    /\ UNCHANGED << canon, adapter, selected, loaded, writing, adapterHistory >>

\* Mutation: only the expected files are looked at again.
WalkExpected(g) ==
    /\ left[g] = {} /\ RunGoes(g, "compare", "walk")
    /\ UNCHANGED << canon, adapter, selected, loaded, left, writing, problem, adapterHistory >>

\* stale_generated_files: the directories of the expected files, without
\* the expected files.  Files that cannot be read are left out here.
BeginWalk(g) ==
    /\ left[g] = {} /\ RunGoes(g, "compare", "walk")
    /\ left' = [left EXCEPT ![g] = Below(selected[g]) \ Expected(selected[g], loaded[g])]
    /\ UNCHANGED << canon, adapter, selected, loaded, writing, problem, adapterHistory >>

Walk(g) ==
    /\ RunGoes(g, "walk", "walk")
    /\ \E p \in left[g] :
         /\ problem' = [problem EXCEPT ![g] = @ \/ Marked(adapter[p])]
         /\ left' = [left EXCEPT ![g] = @ \ { p }]
    /\ UNCHANGED << canon, adapter, selected, loaded, writing, adapterHistory >>

Verdict(g) ==
    /\ left[g] = {}
    /\ RunGoes(g, "walk", IF problem[g] THEN "drift" ELSE "in sync")
    /\ UNCHANGED << canon, adapter, selected, loaded, left, writing, problem, adapterHistory >>

-----------------------------------------------------------------------------
(* Everybody else.                                                          *)

EditCanon ==
    /\ \E c \in CanonFiles :
         /\ canon[c] < LastVersion
         /\ canon' = [canon EXCEPT ![c] = @ + 1]
    /\ outdated' = [g \in Processes |-> TRUE]
    /\ UNCHANGED << adapter, run, selected, loaded, left, writing, problem, touched >>

HandEdit ==
    /\ \E p \in Paths :
         /\ adapter[p] \in Generated
         /\ adapter' = [adapter EXCEPT ![p] = HandEdited]
         /\ touched' = [g \in Processes |-> touched[g] \cup { p }]
    /\ UNCHANGED << canon, run, selected, loaded, left, writing, problem, outdated >>

AdapterNext ==
    \/ \E g \in Processes : Start(g) \/ LoadCanon(g) \/ Render(g)
    \/ \E g \in Generators :
         WriteOpen(g) \/ WriteFill(g) \/ AllGenerated(g) \/ GeneratorKilled(g)
    \/ \E g \in Checkers : Compare(g) \/ BeginWalk(g) \/ Walk(g) \/ Verdict(g)
    \/ EditCanon \/ HandEdit

AdapterSpec == AdapterInit /\ [][AdapterNext]_adapterVars

-----------------------------------------------------------------------------
(* What a check or a generator of these runtimes calls current.             *)
Current(g, p) ==
    IF p \in Expected(selected[g], canon) THEN adapter[p] = Rendering(canon)
    ELSE ~Marked(adapter[p])

(* The verdict of --check is right about every adapter that nobody changed  *)
(* during the check: "in sync" means that each is what the canonical files  *)
(* render to, or was never generated by this tool; "drift" that one is not. *)
(* A crashed generator, an older manifest or a hand edit left it so, and    *)
(* generators may be at work on others of them.                             *)
VerdictIsRight ==
    \A g \in Checkers : ~outdated[g] =>
        /\ run[g] = "in sync" =>
              \A p \in Below(selected[g]) \ touched[g] : Current(g, p)
        /\ run[g] = "drift" =>
              \E p \in Below(selected[g]) : p \in touched[g] \/ ~Current(g, p)

(* A generator that is done has repaired whatever it found: its adapters    *)
(* are current, except those others changed since it began.                 *)
GeneratedIsCurrent ==
    \A g \in Generators : (run[g] = "generated" /\ ~outdated[g]) =>
        \A p \in Expected(selected[g], canon) \ touched[g] : Current(g, p)
=============================================================================
