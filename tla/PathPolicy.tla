----------------------------- MODULE PathPolicy -----------------------------
(***************************************************************************)
(* The path policy of src/security/rad_security/policy.py: which spellings *)
(* of a path validate_relative_path accepts, which class classify_path     *)
(* gives it, and which roles product_write_allowed lets write it.          *)
(*                                                                         *)
(* A path is the sequence of its segments; a segment is the case-folded    *)
(* name of an entry and the form in which the path spells it.  All tables  *)
(* are the code's.  The module's behaviours spell every path up to a       *)
(* length, one segment after the other, and follow Windows to the entry it *)
(* finds, so that the invariants speak about all of them.                  *)
(***************************************************************************)
EXTENDS Naturals, Sequences, FiniteSets
Ext == INSTANCE SequencesExt

CONSTANTS
    Names,       \* names the paths are made of
    DeviceNames, \* ... those whose stem is in _WINDOWS_RESERVED
    MaxSegments, \* bounds the length of a path
    MaxOdd       \* bounds how many of its segments are not spelt plainly

ASSUME PolicyAssumption ==
    /\ DeviceNames \subseteq Names /\ Names \subseteq STRING
    /\ MaxSegments \in Nat /\ MaxOdd \in Nat

VARIABLES
    path,    \* the path as it is spelt
    reached  \* the entry Windows finds there

policyVars == << path, reached >>

\* How a name may be spelt so that Windows still finds its entry: in another
\* case, with trailing dots or blanks, with a stream or drive, by its short
\* name, or in another Unicode normal form.
Forms == { "plain", "upper", "dotted", "stream", "short", "decomposed" }
Moves == { "", ".", ".." }
Segment == [name : Names \cup Moves, form : Forms]

PolicyTypeOK ==
    /\ path \in Seq(Segment) /\ Len(path) <= MaxSegments
    /\ reached \in Seq(Names \cup { ".." })

-----------------------------------------------------------------------------
(* How Windows resolves a path below the project: the reference the policy  *)
(* has to agree with.  Whatever leaves the project ends in OutsideProject.  *)
OutsideProject == << ".." >>

Step(found, segment) ==
    CASE found = OutsideProject \/ segment.name \in DeviceNames -> OutsideProject
      [] OTHER -> CASE segment.name \in { "", "." } -> found
                    [] segment.name = ".." ->
                         IF found = << >> THEN OutsideProject ELSE Ext!Front(found)
                    [] OTHER -> Append(found, segment.name)

\* A path that begins with a separator is not below the project.
Absolute(segment) == path = << >> /\ segment.name = ""

PolicyInit == path = << >> /\ reached = << >>

Odd(p) == { i \in DOMAIN p : p[i].form # "plain" }

Extend ==
    /\ Len(path) < MaxSegments
    /\ \E segment \in Segment :
         /\ segment.name \in Moves => segment.form = "plain"
         /\ segment.form # "plain" => Cardinality(Odd(path)) < MaxOdd
         /\ path' = Append(path, segment)
         /\ reached' = IF Absolute(segment) THEN OutsideProject ELSE Step(reached, segment)

PolicyNext == Extend

PolicySpec == PolicyInit /\ [][PolicyNext]_policyVars

-----------------------------------------------------------------------------
GeneratedPrefixes ==
    { << ".codex" >>, << ".opencode" >>, << ".claude" >>, << ".cursor" >>, << ".agents" >> }

ControlPrefixes ==
    { << ".rad" >>, << ".github" >>, << ".git" >>, << "security" >>, << "scripts" >>,
      << "tests", "security" >> }

ControlExact ==
    { << ".gitignore" >>, << ".gitattributes" >>, << ".gitmodules" >>, << ".mcp.json" >>,
      << ".rad-security-baseline.json" >>, << "agents.md" >>, << "decisions.md" >>,
      << "opencode.json" >>, << "opencode.jsonc" >>, << "requirements.md" >>,
      << "security.md" >>, << "tools", "generate_adapters.py" >>, << ".cursorrules" >>,
      << "docs", "trusted_baseline.md" >>, << "docs", "secure_mode.md" >>,
      << "docs", "process_ownership.md" >>, << "docs", "runtime_support.md" >> }

\* Control material wherever it occurs: as the last segment, or as any.
ControlLeaves ==
    { "agents.md", "claude.md", "opencode.json", "opencode.jsonc", ".mcp.json",
      ".cursorrules" }
ControlParts ==
    { ".codex", ".opencode", ".claude", ".cursor", ".agents", ".rad", ".git",
      ".vscode", ".devcontainer" }

EvidenceExact ==
    { << "adversarial_review.md" >>, << "benchmarks.md" >>, << "defects.md" >>,
      << "naming_audit.md" >>, << "poc_report.md" >> }

EvidencePrefixes ==
    { << "screenshots", "evidence" >>, << "screenshots", "generated" >>,
      << "e2e", "artifacts" >>, << "docs", "adr" >> }

\* Mutation: trailing dots and blanks are not looked for.
ValidUntrimmed(p) ==
    /\ p # << >>
    /\ \A i \in DOMAIN p :
         /\ p[i].form \notin { "stream", "short", "decomposed" }
         /\ p[i].name \notin Moves \cup DeviceNames

\* validate_relative_path.
Valid(p) ==
    /\ p # << >>
    /\ \A i \in DOMAIN p :
         /\ p[i].form \notin { "stream", "short", "decomposed" }
         /\ p[i].name \notin Moves
         /\ p[i].form # "dotted"
         /\ p[i].name \notin DeviceNames

\* The case-folded path, as the tables see it: they know a name only by its
\* own letters.
Identity(p) ==
    [i \in DOMAIN p |-> IF p[i].form \in { "plain", "upper" } THEN p[i].name ELSE "?"]

HasPrefix(id, prefixes) == \E prefix \in prefixes : Ext!IsPrefix(prefix, id)

\* Mutation: an instruction file counts in the root only.
ClassOfRootFiles(id) ==
    IF id = << "claude.md" >> \/ HasPrefix(id, GeneratedPrefixes)
    THEN "GENERATED_CONTROL_OUTPUT"
    ELSE IF \/ id \in ControlExact \/ HasPrefix(id, ControlPrefixes)
            \/ \E i \in DOMAIN id : id[i] \in ControlParts
    THEN "CONTROL_PLANE"
    ELSE IF id \in EvidenceExact \/ HasPrefix(id, EvidencePrefixes)
    THEN "EVIDENCE_REPORTING"
    ELSE "PRODUCT_WORKSPACE"

\* classify_path.
Class(id) ==
    IF id = << "claude.md" >> \/ HasPrefix(id, GeneratedPrefixes)
    THEN "GENERATED_CONTROL_OUTPUT"
    ELSE IF \/ id \in ControlExact \/ HasPrefix(id, ControlPrefixes)
            \/ id[Len(id)] \in ControlLeaves
            \/ \E i \in DOMAIN id : id[i] \in ControlParts
    THEN "CONTROL_PLANE"
    ELSE IF id \in EvidenceExact \/ HasPrefix(id, EvidencePrefixes)
    THEN "EVIDENCE_REPORTING"
    ELSE "PRODUCT_WORKSPACE"

Developers == { "frontend-dev", "backend-dev" }
Roles == Developers \cup { "orchestrator", "qa", "adversary" }

QaOwns == { << "defects.md" >>, << "naming_audit.md" >> }
Screenshots == { << "screenshots", "evidence" >>, << "screenshots", "generated" >> }

\* product_write_allowed of a path in a class: who may write it.
WritersOf(id, class) ==
    CASE class = "PRODUCT_WORKSPACE" ->
           IF HasPrefix(id, { << "e2e" >> }) THEN { "qa" } ELSE Developers
      [] class = "EVIDENCE_REPORTING" ->
           { "orchestrator" }
           \cup { role \in { "qa" } :
                    id \in QaOwns \/ HasPrefix(id, Screenshots \cup { << "e2e" >> }) }
           \cup { role \in { "adversary" } :
                    id = << "adversarial_review.md" >> \/ HasPrefix(id, Screenshots) }
      [] OTHER -> {}

Writable(role, p) ==
    Valid(p) /\ role \in WritersOf(Identity(p), Class(Identity(p)))

-----------------------------------------------------------------------------
(* A file has one class and one set of writers, however a path spells it: a *)
(* path that is accepted lies below the project and is classified as the    *)
(* entry Windows finds there.                                               *)
OneClassPerFile ==
    Valid(path) =>
        /\ reached \notin { << >>, OutsideProject }
        /\ Class(Identity(path)) = Class(reached)
        /\ \A role \in Roles :
             Writable(role, path) <=> role \in WritersOf(reached, Class(reached))

(* "Must not own" (role-ownership.md): no file can be written both by a     *)
(* developer and by a role that judges the developers' work; E2E tests and  *)
(* ledgers are no developer's, the defects no adversary's; and what lies    *)
(* below a control directory, or instructs a runtime anywhere, is nobody's. *)
DutiesSeparated ==
    LET writers == { role \in Roles : Writable(role, path) }
    IN  /\ writers \cap Developers # {} =>
             /\ writers = Developers
             /\ reached[1] # "e2e" /\ reached \notin EvidenceExact
        /\ reached = << "defects.md" >> => "adversary" \notin writers
        /\ (\E i \in DOMAIN reached :
                \/ reached[i] \in ControlParts
                \/ i = Len(reached) /\ reached[i] \in ControlLeaves)
              => writers = {}
=============================================================================
