---------------------------- MODULE Installation ----------------------------
(***************************************************************************)
(* The trusted installation: install_release of src/security/install.py,   *)
(* load_verified_installation of baseline.py, harden_installation and      *)
(* unharden_installation of guard.py.                                      *)
(*                                                                         *)
(* Installers copy a source tree that others may edit into one             *)
(* destination, compare the copy with the release pin, write the manifest  *)
(* and, on request, deny its modification entry by entry.  Whatever ends   *)
(* an installer leaves its partial tree behind.  Readers decide            *)
(* whether the tree may be used; processes of the same account may change  *)
(* it whenever no denial prevents them.                                    *)
(***************************************************************************)

CONSTANTS
    Installers,  \* calls of install_release
    Readers,     \* calls of load_verified_installation
    Payload,     \* files a tree may hold, without the manifest
    Release,     \* those the pinned release consists of
    Manifest,    \* .rad-security-baseline.json
    Root,        \* the destination directory itself
    NoFile

Callers == Installers \cup Readers
Entries == Payload \cup { Manifest }

ASSUME InstallAssumption ==
    /\ Release \subseteq Payload
    /\ Manifest \notin Payload /\ Root \notin Entries /\ NoFile \notin Entries
    /\ Installers \cap Readers = {}

VARIABLES
    source,   \* the tree an installer copies
    exists,   \* whether the destination directory exists
    tree,     \* ... and what it holds
    denied,   \* entries with a deny entry for Everyone
    caller,   \* where each call is
    todo,     \* entries its current pass has not reached
    hand,     \* the file an installer has open for writing
    sealed,   \* the tree has been hardened as a whole (history)
    meddled   \* others changed the tree while it was not sealed (history)

treeVars == << source, exists, tree, denied >>
installVars == << treeVars, caller, todo, hand, sealed, meddled >>

\* "torn" is a file that was opened for writing and not filled yet.
Contents == { "absent", "torn", "pinned", "edited" }

CallerPhases ==
    { "idle", "failed", "done", "refused", "accepted",              \* ends
      "source", "mkdir", "copy", "fill", "compare", "build",
      "manifest", "record", "plan", "deny",                         \* installer
      "digest", "load", "recompute" }                               \* reader

InstallTypeOK ==
    /\ source \in [Payload -> Contents] /\ exists \in BOOLEAN
    /\ tree \in [Entries -> Contents]
    /\ denied \subseteq Entries \cup { Root }
    /\ caller \in [Callers -> CallerPhases]
    /\ todo \in [Callers -> SUBSET (Entries \cup { Root })]
    /\ hand \in [Installers -> Payload \cup { NoFile }]
    /\ sealed \in BOOLEAN /\ meddled \in BOOLEAN

\* What the pin demands of an entry; anything else in the tree changes the digest.
Wanted(e) == IF e \in Release \cup { Manifest } THEN "pinned" ELSE "absent"

\* What others put there: an edited file, none, or what is wanted.
Variants(e) == { "absent", "edited", Wanted(e) }

Complete == \A e \in Entries : tree[e] = Wanted(e)

InstallInit ==
    /\ source = [e \in Payload |-> Wanted(e)]
    /\ exists = FALSE
    /\ tree = [e \in Entries |-> "absent"]
    /\ denied = {}
    /\ caller = [c \in Callers |-> "idle"]
    /\ todo = [c \in Callers |-> {}]
    /\ hand = [i \in Installers |-> NoFile]
    /\ sealed = FALSE /\ meddled = FALSE

CallerGoes(c, from, to) ==
    /\ caller[c] = from
    /\ caller' = [caller EXCEPT ![c] = to]

Leaves(c, entries) == todo' = [todo EXCEPT ![c] = entries]

\* A pass of snapshot_release: it reaches the files of the tree one after
\* the other, and a file that differs from the pin decides its result.
Pass(c, at, files, next, otherwise) ==
  /\ caller[c] = at
  /\ \/ \E f \in todo[c] :
          IF files[f] = Wanted(f)
          THEN CallerGoes(c, at, at) /\ Leaves(c, todo[c] \ { f })
          ELSE CallerGoes(c, at, otherwise) /\ Leaves(c, {})
     \/ /\ todo[c] = {} /\ CallerGoes(c, at, next)
        /\ Leaves(c, IF next \in { "compare", "build", "copy", "recompute" }
                     THEN Payload ELSE {})

-----------------------------------------------------------------------------
(* install_release.                                                         *)

\* canonicalize_new_directory, and the source is digested.
InstallBegin(i) ==
    /\ CallerGoes(i, "idle", IF exists THEN "failed" ELSE "source")
    /\ Leaves(i, IF exists THEN {} ELSE Payload)
    /\ UNCHANGED << treeVars, hand, sealed, meddled >>

CheckSource(i) ==
    /\ Pass(i, "source", source, "mkdir", "failed")
    /\ UNCHANGED << treeVars, hand, sealed, meddled >>

\* mkdir raises if the directory has appeared since.
MakeDirectory(i) ==
    /\ CallerGoes(i, "mkdir", IF exists THEN "failed" ELSE "copy")
    /\ exists' = TRUE /\ Leaves(i, IF exists THEN {} ELSE Payload)
    /\ UNCHANGED << source, tree, denied, hand, sealed, meddled >>

\* copyfile opens the destination, which truncates it ...
CopyOpen(i) ==
    /\ caller[i] = "copy"
    /\ \E f \in todo[i] :
         /\ Leaves(i, todo[i] \ { f })
         /\ \/ /\ source[f] # "absent"
               /\ CallerGoes(i, "copy", "fill")
               /\ tree' = [tree EXCEPT ![f] = "torn"]
               /\ hand' = [hand EXCEPT ![i] = f]
            \/ /\ source[f] = "absent"
               /\ CallerGoes(i, "copy", "copy")
               /\ UNCHANGED << tree, hand >>
    /\ UNCHANGED << source, exists, denied, sealed, meddled >>

\* ... and copies what the source holds by now.
CopyFill(i) ==
    /\ CallerGoes(i, "fill", "copy")
    /\ \E content \in Variants(hand[i]) \ { "absent" } :
         /\ source[hand[i]] \in { content, "absent" }
         /\ tree' = [tree EXCEPT ![hand[i]] = content]
    /\ hand' = [hand EXCEPT ![i] = NoFile]
    /\ UNCHANGED << source, exists, denied, todo, sealed, meddled >>

CopyDone(i) ==
    /\ todo[i] = {} /\ CallerGoes(i, "copy", "compare")
    /\ Leaves(i, Payload)
    /\ UNCHANGED << treeVars, hand, sealed, meddled >>

\* Mutation: the copy is not compared with the pin again.
CopyUnchecked(i) ==
    /\ CallerGoes(i, "compare", "manifest") /\ Leaves(i, {})
    /\ UNCHANGED << treeVars, hand, sealed, meddled >>

\* calculate_release_digest of the copy, then the snapshot of build_baseline.
CompareCopy(i) ==
    /\ \/ Pass(i, "compare", tree, "build", "failed")
       \/ Pass(i, "build", tree, "manifest", "failed")
    /\ UNCHANGED << treeVars, hand, sealed, meddled >>

ManifestOpen(i) ==
    /\ CallerGoes(i, "manifest", "record")
    /\ tree' = [tree EXCEPT ![Manifest] = "torn"]
    /\ UNCHANGED << source, exists, denied, todo, hand, sealed, meddled >>

ManifestFill(i) ==
    /\ \E harden \in BOOLEAN : CallerGoes(i, "record", IF harden THEN "plan" ELSE "done")
    /\ tree' = [tree EXCEPT ![Manifest] = "pinned"]
    /\ UNCHANGED << source, exists, denied, todo, hand, sealed, meddled >>

\* harden_installation lists the tree ...
HardenPlan(i) ==
    /\ CallerGoes(i, "plan", "deny")
    /\ Leaves(i, { Root } \cup { e \in Entries : tree[e] # "absent" })
    /\ UNCHANGED << treeVars, hand, sealed, meddled >>

\* ... and denies what it has listed, the root first; icacls fails on an
\* entry that is gone.
HardenEntry(i) ==
    /\ caller[i] = "deny"
    /\ \E e \in todo[i] :
         /\ Root \in todo[i] => e = Root
         /\ IF e = Root \/ tree[e] # "absent"
            THEN /\ CallerGoes(i, "deny", "deny")
                 /\ denied' = denied \cup { e }
                 /\ Leaves(i, todo[i] \ { e })
            ELSE /\ CallerGoes(i, "deny", "failed")
                 /\ Leaves(i, {})
                 /\ UNCHANGED denied
    /\ UNCHANGED << source, exists, tree, hand, sealed, meddled >>

HardenDone(i) ==
    /\ todo[i] = {} /\ CallerGoes(i, "deny", "done")
    /\ sealed' = TRUE
    /\ UNCHANGED << treeVars, todo, hand, meddled >>

\* An exception or a kill at any step: nothing is cleaned up.
InstallFails(i) ==
    /\ \E at \in { "source", "mkdir", "copy", "fill", "compare", "build",
                   "manifest", "record", "plan", "deny" } :
         CallerGoes(i, at, "failed")
    /\ Leaves(i, {})
    /\ hand' = [hand EXCEPT ![i] = NoFile]
    /\ UNCHANGED << treeVars, sealed, meddled >>

InstallerStep(i) ==
    \/ InstallBegin(i) \/ CheckSource(i) \/ MakeDirectory(i) \/ CopyOpen(i)
    \/ CopyFill(i) \/ CopyDone(i) \/ CompareCopy(i) \/ ManifestOpen(i)
    \/ ManifestFill(i) \/ HardenPlan(i) \/ HardenEntry(i) \/ HardenDone(i)
    \/ InstallFails(i)

-----------------------------------------------------------------------------
(* load_verified_installation.                                              *)

LoadBegin(r) ==
    /\ CallerGoes(r, "idle", IF exists THEN "digest" ELSE "refused")
    /\ Leaves(r, IF exists THEN Payload ELSE {})
    /\ UNCHANGED << treeVars, hand, sealed, meddled >>

CheckDigest(r) ==
    /\ Pass(r, "digest", tree, "load", "refused")
    /\ UNCHANGED << treeVars, hand, sealed, meddled >>

\* Mutation: the manifest is not looked at.
LoadAnyManifest(r) ==
    /\ CallerGoes(r, "load", "recompute") /\ Leaves(r, Payload)
    /\ UNCHANGED << treeVars, hand, sealed, meddled >>

\* A manifest that is missing or torn does not parse; one that was edited
\* differs from what build_baseline recomputes.
LoadManifest(r) ==
    /\ CallerGoes(r, "load", IF tree[Manifest] = "pinned" THEN "recompute" ELSE "refused")
    /\ Leaves(r, IF tree[Manifest] = "pinned" THEN Payload ELSE {})
    /\ UNCHANGED << treeVars, hand, sealed, meddled >>

Recompute(r) ==
    /\ Pass(r, "recompute", tree, "accepted", "refused")
    /\ UNCHANGED << treeVars, hand, sealed, meddled >>

ReaderStep(r) == LoadBegin(r) \/ CheckDigest(r) \/ LoadManifest(r) \/ Recompute(r)

-----------------------------------------------------------------------------
(* Everybody else.                                                          *)

\* The source is edited; bounded to the time an installer still reads it.
EditSource ==
    /\ \E i \in Installers : caller[i] \in { "source", "mkdir", "copy", "fill" }
    /\ \E f \in Payload : \E content \in Variants(f) \ { source[f] } :
         source' = [source EXCEPT ![f] = content]
    /\ UNCHANGED << exists, tree, denied, caller, todo, hand, sealed, meddled >>

\* Creating needs the directory, writing the file, and deleting either of them.
Changeable(e, content) ==
    CASE tree[e] = "absent"  -> Root \notin denied
      [] content = "absent"  -> ~({ e, Root } \subseteq denied)
      [] OTHER               -> e \notin denied

Meddle ==
    /\ exists
    /\ \E e \in Entries : \E content \in Variants(e) :
         /\ tree[e] # content /\ Changeable(e, content)
         /\ tree' = [tree EXCEPT ![e] = content]
         /\ denied' = IF content = "absent" THEN denied \ { e } ELSE denied
    /\ meddled' = (meddled \/ ~sealed)
    /\ UNCHANGED << source, exists, caller, todo, hand, sealed >>

\* unharden_installation, the root first.  From its first entry on the tree
\* is not sealed; during harden_installation it interferes.
Unharden ==
    /\ \E e \in denied :
         /\ Root \in denied => e = Root
         /\ denied' = denied \ { e }
    /\ sealed' = FALSE
    /\ meddled' = (meddled \/ \E i \in Installers : caller[i] = "deny")
    /\ UNCHANGED << source, exists, tree, caller, todo, hand >>

InstallNext ==
    \/ \E i \in Installers : InstallerStep(i)
    \/ \E r \in Readers : ReaderStep(r)
    \/ EditSource \/ Meddle \/ Unharden

InstallSpec == InstallInit /\ [][InstallNext]_installVars

-----------------------------------------------------------------------------
(* "No installation is usable without a valid external pin and manifest":   *)
(* a tree that a reader accepts is the pinned release with its manifest and *)
(* stays so.  It does while installers race, fail half-way and copy from a  *)
(* source that changes, and, once it is hardened, whatever others try.      *)
AcceptedStays ==
    (~meddled /\ \E r \in Readers : caller[r] = "accepted") => Complete

(* An installer that reports success has left the complete release, though  *)
(* its source may have changed after it was digested.                       *)
InstalledIsPinned ==
    (~meddled /\ \E i \in Installers : caller[i] = "done") => Complete
=============================================================================
