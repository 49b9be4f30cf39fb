--------------------------- MODULE MCTrustedHost ---------------------------
(* TrustedHost for TLC: what its run gives the constants.                   *)
EXTENDS TrustedHost, TLC

CONSTANTS codex, claude, retired, kept

MCSelections == { { codex }, Runtimes }

\* The manifest's second version drops the role of a codex adapter.
MCAdapterSet ==
    [r \in Runtimes |-> [v \in Versions |->
        IF r = claude THEN { kept } ELSE IF v = 1 THEN { retired } ELSE {}]]

\* The file as found has two blocks; one writer writes fewer, one more.
MCLength ==
    [w \in Owners |-> IF w = Nobody THEN 2
                      ELSE IF w = CHOOSE x \in Writers : TRUE THEN 1 ELSE 3]

\* Handed down from above; Everyone's own entry; another account's own entry.
MCFoundAcls ==
    { [own |-> {}, down |-> Strangers], [own |-> { "known" }, down |-> {}],
      [own |-> { "other" }, down |-> { "known" }] }

MCDeviceNames == { "com1.log" }
MCNames ==
    MCDeviceNames \cup
    { ".rad", ".claude", "agents.md", "claude.md", "tests", "security", "tools",
      "generate_adapters.py", "docs", "adr", "e2e", "artifacts", "screenshots",
      "evidence", "defects.md", "adversarial_review.md", "src" }

\* Which of these calls is which does not matter.
Symmetric ==
    UNION { Permutations(set) : set \in { Installers, Creators, Generators } }
=============================================================================
