-------------------------- MODULE WorkspaceBroker --------------------------
(***************************************************************************)
(* The structured file operations of src/security/rad_security/workspace.py*)
(* on one product file: ProductWorkspace.read and write under              *)
(* _locked_parents (Windows).                                              *)
(*                                                                         *)
(* An operation opens every directory from the drive down to the parent    *)
(* of the file, refuses links, and keeps the handles, which share reading  *)
(* only, until it is done.  The file, if it is no link and has no second   *)
(* hard link, is overwritten in place, block by block, and truncated to    *)
(* the new length.  Other processes turn directories and the file into     *)
(* links and back; a writer may be killed.                                 *)
(***************************************************************************)
EXTENDS Naturals, Sequences

CONSTANTS
    Writers,
    FileReaders,
    Depth,      \* directories above the file; 1 is the drive
    Length,     \* how many blocks each writer writes, and Nobody had written
    Nobody,     \* who wrote the file as it is at first
    Partial

Workers == Writers \cup FileReaders

ASSUME BrokerAssumption ==
    /\ Writers \cap FileReaders = {}
    /\ Nobody \notin Workers /\ Partial \notin Workers \cup { Nobody }
    /\ Depth \in Nat \ {0}
    /\ Length \in [Writers \cup { Nobody } -> Nat]

VARIABLES
    links,     \* which directories, or the file, are links that lead out of the project
    worker,    \* where each operation is
    opened,    \* how many directory handles it holds, from the drive down
    file,      \* the blocks of the file, each named after who wrote it
    position,  \* the blocks a writer has written
    result,    \* the blocks a reader has read
    latest,    \* who completed the last write, or Partial (history)
    wanted,    \* latest, when the reader opened the file (history)
    strayed    \* operations that opened something outside (history)

historyVars == << latest, wanted, strayed >>
brokerVars == << links, worker, opened, file, position, result, historyVars >>

Levels == 1 .. Depth + 1

WorkerPhases == { "idle", "parents", "write", "truncate", "read", "ended" }

\* What writer w wants the file to hold.
Data(w) == [n \in 1 .. Length[w] |-> w]

Owners == Writers \cup { Nobody }

BrokerTypeOK ==
    /\ links \subseteq Levels
    /\ worker \in [Workers -> WorkerPhases]
    /\ opened \in [Workers -> 0 .. Depth]
    /\ file \in Seq(Owners)
    /\ position \in [Writers -> Nat]
    /\ result \in [FileReaders -> Seq(Owners)]
    /\ latest \in Owners \cup { Partial }
    /\ wanted \in [FileReaders -> Owners \cup { Partial }]
    /\ strayed \subseteq Workers

BrokerInit ==
    /\ links = {}
    /\ worker = [w \in Workers |-> "idle"]
    /\ opened = [w \in Workers |-> 0]
    /\ file = Data(Nobody)
    /\ position = [w \in Writers |-> 0]
    /\ result = [r \in FileReaders |-> << >>]
    /\ latest = Nobody
    /\ wanted = [r \in FileReaders |-> Nobody]
    /\ strayed = {}

WorkerGoes(w, from, to) ==
    /\ worker[w] = from
    /\ worker' = [worker EXCEPT ![w] = to]

\* Mutation: handles for attributes only, which establish no sharing.
AttributeHandle(d) == FALSE

\* A directory with an open handle cannot be renamed, deleted or turned into
\* a link: the handle shares reading only.
Locked(d) == \E w \in Workers : opened[w] >= d

\* Opening a path follows the links above its last component; a file with a
\* second hard link is outside by its other name.
Stray(w, level) ==
    strayed' = IF \E d \in 1 .. level - 1 : d \in links
               THEN strayed \cup { w } ELSE strayed

\* Who has the file open, and for what.
Writing == \E w \in Writers : worker[w] \in { "write", "truncate" }
Reading == \E r \in FileReaders : worker[r] = "read"

-----------------------------------------------------------------------------
Begin(w) ==
    /\ WorkerGoes(w, "idle", "parents")
    /\ UNCHANGED << links, opened, file, position, result, historyVars >>

\* _locked_parents: the next directory, opened without following a link.
OpenParent(w) ==
    /\ worker[w] = "parents" /\ opened[w] < Depth
    /\ LET next == opened[w] + 1
       IN  \/ /\ next \notin links \/ \E d \in links : d < next
              /\ opened' = [opened EXCEPT ![w] = next]
              /\ Stray(w, next)
              /\ UNCHANGED worker
           \/ /\ next \in links /\ \A d \in links : d >= next
              /\ opened' = [opened EXCEPT ![w] = 0]
              /\ WorkerGoes(w, "parents", "ended")
              /\ UNCHANGED strayed
    /\ UNCHANGED << links, file, position, result, latest, wanted >>

\* Mutation: the file is opened for sharing.
OpenSharedFile(w) ==
    /\ opened[w] = Depth
    /\ WorkerGoes(w, "parents", IF w \in Writers THEN "write" ELSE "read")
    /\ wanted' = IF w \in Writers THEN wanted ELSE [wanted EXCEPT ![w] = latest]
    /\ latest' = IF w \in Writers THEN Partial ELSE latest
    /\ UNCHANGED << links, opened, file, position, result, strayed >>

\* A writer shares nothing, a reader reading; either fails if the file is
\* open otherwise, or is a link or hard-linked.  From here on the file is
\* what a killed writer leaves.
OpenFile(w) ==
    /\ opened[w] = Depth
    /\ \/ /\ ~Writing /\ (w \in Writers => ~Reading) /\ Depth + 1 \notin links
          /\ WorkerGoes(w, "parents", IF w \in Writers THEN "write" ELSE "read")
          /\ wanted' = IF w \in Writers THEN wanted ELSE [wanted EXCEPT ![w] = latest]
          /\ latest' = IF w \in Writers THEN Partial ELSE latest
          /\ UNCHANGED opened
          /\ Stray(w, Depth + 2)
       \/ /\ Writing \/ (w \in Writers /\ Reading) \/ Depth + 1 \in links
          /\ WorkerGoes(w, "parents", "ended")
          /\ opened' = [opened EXCEPT ![w] = 0]
          /\ UNCHANGED historyVars
    /\ UNCHANGED << links, file, position, result >>

WriteBlock(w) ==
    /\ worker[w] = "write"
    /\ IF position[w] < Length[w]
       THEN /\ position' = [position EXCEPT ![w] = @ + 1]
            /\ file' = IF position[w] < Len(file)
                       THEN [file EXCEPT ![position[w] + 1] = w]
                       ELSE Append(file, w)
            /\ UNCHANGED worker
       ELSE WorkerGoes(w, "write", "truncate") /\ UNCHANGED << position, file >>
    /\ UNCHANGED << links, opened, result, historyVars >>

\* truncate at the position reached, and every handle is closed.
Truncate(w) ==
    /\ WorkerGoes(w, "truncate", "ended")
    /\ opened' = [opened EXCEPT ![w] = 0]
    /\ file' = SubSeq(file, 1, position[w])
    /\ latest' = w
    /\ UNCHANGED << links, position, result, wanted, strayed >>

ReadBlock(r) ==
    /\ worker[r] = "read"
    /\ IF Len(result[r]) < Len(file)
       THEN /\ result' = [result EXCEPT ![r] = Append(@, file[Len(@) + 1])]
            /\ UNCHANGED << worker, opened >>
       ELSE /\ WorkerGoes(r, "read", "ended")
            /\ opened' = [opened EXCEPT ![r] = 0]
            /\ UNCHANGED result
    /\ UNCHANGED << links, file, position, historyVars >>

\* Windows closes the handles of a process that is killed.
WorkerKilled(w) ==
    /\ \E at \in { "parents", "write", "truncate", "read" } : WorkerGoes(w, at, "ended")
    /\ opened' = [opened EXCEPT ![w] = 0]
    /\ result' = IF w \in FileReaders THEN [result EXCEPT ![w] = << >>] ELSE result
    /\ UNCHANGED << links, file, position, historyVars >>

\* Another process replaces a directory or the file by a link, or puts it
\* back; it may add a hard link to a file that is open, too.
Redirect ==
    /\ \E d \in Levels :
         /\ ~Locked(d)
         /\ links' = IF d \in links THEN links \ { d } ELSE links \cup { d }
    /\ UNCHANGED << worker, opened, file, position, result, historyVars >>

BrokerNext ==
    \/ \E w \in Workers : Begin(w) \/ OpenParent(w) \/ OpenFile(w) \/ WorkerKilled(w)
    \/ \E w \in Writers : WriteBlock(w) \/ Truncate(w)
    \/ \E r \in FileReaders : ReadBlock(r)
    \/ Redirect

BrokerSpec == BrokerInit /\ [][BrokerNext]_brokerVars

-----------------------------------------------------------------------------
(* "preventing reparse-point insertion or ancestor replacement while paths  *)
(* are used": no operation reaches anything outside the project, whenever   *)
(* others replace the directories of its path and the file.                 *)
StaysInside == strayed = {}

(* A read returns exactly what the last completed write wrote, unless a     *)
(* writer was killed since ("interruption may leave a partial write"):      *)
(* never a mixture of two writes and never the tail of an older one.        *)
ReadsLastWrite ==
    \A r \in FileReaders :
        (worker[r] = "ended" /\ result[r] # << >> /\ wanted[r] # Partial) =>
            result[r] = Data(wanted[r])
=============================================================================
