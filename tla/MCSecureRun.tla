---------------------------- MODULE MCSecureRun ----------------------------
(* Small instances of SecureRun for TLC. *)
EXTENDS SecureRun

CONSTANTS nested, plugin

\* A distribution that fails at most one of the checks, or the two that a
\* failed call passes.
Forgiven   == { "drives-hidden", "socket" }
OneShort   == { Qualities, Qualities \ Forgiven }
              \cup { Qualities \ {q} : q \in Qualities \ Forgiven }
GoodDistro == { Qualities }

\* An ordinary directory and a control directory.
Docs == { {nested}, {plugin} }
=============================================================================
