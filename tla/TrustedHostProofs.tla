------------------------- MODULE TrustedHostProofs -------------------------
(***************************************************************************)
(* Theorems about the parts of TrustedHost, for any number of callers,     *)
(* files, directories and blocks.                                          *)
(***************************************************************************)
EXTENDS TrustedHost, SequenceTheorems, TLAPS

-----------------------------------------------------------------------------
(* TrustKey.                                                                *)

(* Whoever is past a call of icacls has found or made what it is for, and   *)
(* nobody undoes it: a key file made later inherits from a directory that   *)
(* is secured.  Whoever writes the key is alone and nobody has one.         *)
KeyDirs ==
    /\ ~stateDir => dirAcl = Private /\ keyFile = NoKey
    /\ keyFile = NoKey => keyAcl = Private
    /\ \A c \in KeyClients :
         client[c] \in { "securekey", "check", "checkkey", "open", "write", "read", "keyed" }
            => stateDir /\ dirAcl.down = {}
    /\ \A c \in KeyClients : client[c] = "secure" => stateDir
    /\ \A c \in KeyClients :
         client[c] \in { "check", "checkkey", "open", "write", "read", "keyed" }
            => keyAcl.down \subseteq dirAcl.own
    /\ \A c \in KeyClients \ unlisted : client[c] = "checkkey" =>
         "known" \notin dirAcl.own

KeyInv ==
    /\ KeyTypeOK
    /\ KeyDirs
    /\ KeyIsPrivate
    /\ \A c \in KeyClients : client[c] = "write" =>
         /\ c \in Creators /\ keyFile = "empty"
         /\ \A d \in KeyClients : client[d] = "write" => d = c
    /\ KeyAgreement

LEMMA KeyInvInit == KeyInit => KeyInv
<1> SUFFICES ASSUME KeyInit PROVE KeyInv
    OBVIOUS
<1>1. Private \in Acls
    BY DEF Private, Acls
<1>2. /\ dirAcl \in Acls /\ keyAcl \in Acls
      /\ keyFile \in Keys \cup WrongKeys \cup { NoKey }
    BY <1>1, KeyAssumption DEF KeyInit, Keys
<1>3. KeyTypeOK
    BY <1>2 DEF KeyInit, KeyTypeOK, ClientPhases
<1>4. KeyDirs /\ KeyIsPrivate /\ KeyAgreement
    BY DEF KeyInit, KeyDirs, KeyIsPrivate, KeyAgreement
<1> QED BY <1>3, <1>4 DEF KeyInit, KeyInv

\* Hardening keeps an object's own entries and nothing else.
LEMMA HardenedAcl ==
    ASSUME NEW acl \in Acls
    PROVE  Hardened(acl) \in Acls /\ Hardened(acl).own = acl.own /\ Hardened(acl).down = {}
BY DEF Hardened, Acls

LEMMA KeyInvStep == KeyInv /\ [KeyNext]_keyVars => KeyInv'
<1> SUFFICES ASSUME KeyInv, [KeyNext]_keyVars PROVE KeyInv'
    OBVIOUS
<1>0. /\ NoKey \notin Keys \cup WrongKeys /\ Keys \cap WrongKeys = {}
      /\ OldKey \notin Creators
      /\ Creators \subseteq KeyClients
    BY KeyAssumption DEF KeyClients
<1> USE DEF KeyInv, KeyDirs, KeyIsPrivate, KeyTypeOK, KeyAgreement, Keys, WrongKeys,
            ClientPhases, ClientGoes
<1>1. CASE UNCHANGED keyVars
    BY <1>1 DEF keyVars
<1>2. ASSUME NEW c \in KeyClients, ClientStep(c) \/ ClientKilled(c)
      PROVE  KeyInv'
    <2>1. CASE Look(c)
        BY <1>0, <2>1 DEF Look
    <2>8. CASE MakeStateDir(c)
        <3>1. CASE stateDir
            BY <1>0, <2>8, <3>1 DEF MakeStateDir
        <3>2. CASE ~stateDir
            <4>1. /\ dirAcl' \in Acls /\ keyFile = NoKey /\ keyAcl = Private
                  /\ client[c] = "mkdir" /\ client' = [client EXCEPT ![c] = "secure"]
                  /\ stateDir' = TRUE /\ UNCHANGED << keyFile, keyAcl, held, unlisted >>
                BY <2>8, <3>2 DEF MakeStateDir, Acls
            <4> QED BY <1>0, <3>2, <4>1
        <3> QED BY <3>1, <3>2
    <2>2. CASE SecureDir(c)
        <3>1. /\ Hardened(dirAcl) \in Acls
              /\ Hardened(dirAcl).own = dirAcl.own /\ Hardened(dirAcl).down = {}
            BY HardenedAcl
        <3>2. /\ dirAcl' \in { dirAcl, Hardened(dirAcl) }
              /\ UNCHANGED << stateDir, keyFile, keyAcl, held, unlisted >>
            BY <2>2 DEF SecureDir
        <3>3. /\ dirAcl' \in Acls /\ dirAcl'.own = dirAcl.own
              /\ dirAcl.down = {} => dirAcl'.down = {}
            BY <3>1, <3>2
        <3>4. \/ client' = [client EXCEPT ![c] = "gone"]
              \/ client' = [client EXCEPT ![c] = "securekey"] /\ dirAcl'.down = {}
            BY <2>2, <3>1 DEF SecureDir
        <3>5. client[c] = "secure" /\ stateDir
            BY <2>2 DEF SecureDir
        <3> QED BY <1>0, <3>2, <3>3, <3>4, <3>5 DEF Granted
    <2>3. CASE SecureKey(c)
        <3>1. /\ Hardened(keyAcl) \in Acls
              /\ Hardened(keyAcl).own = keyAcl.own /\ Hardened(keyAcl).down = {}
            BY HardenedAcl
        <3>2. keyFile = NoKey => Hardened(keyAcl) = keyAcl
            BY DEF Hardened, Private
        <3> HIDE DEF Private
        <3> QED BY <1>0, <2>3, <3>1, <3>2 DEF SecureKey, Granted
    <2>4. CASE CheckDir(c) \/ CheckKey(c)
        BY <1>0, <2>4 DEF CheckDir, CheckKey, Lists, Granted, Private
    <2>5. CASE OpenKey(c)
        BY <1>0, <2>5 DEF OpenKey, Acls, Granted, Private
    <2>6. CASE WriteKey(c) \/ ReadKey(c)
        BY <1>0, <2>6 DEF WriteKey, ReadKey
    <2>7. CASE ClientKilled(c)
        BY <1>0, <2>7 DEF ClientKilled
    <2> QED BY <1>2, <2>1, <2>2, <2>3, <2>4, <2>5, <2>6, <2>7, <2>8 DEF ClientStep
<1> QED BY <1>1, <1>2 DEF KeyNext

(* Start clients, guardians and stop clients that have a key have the same, *)
(* whatever races and dies.                                                 *)
THEOREM OneTrustKey == KeySpec => []KeyAgreement
<1>1. KeyInv => KeyAgreement
    BY DEF KeyInv
<1> QED BY <1>1, KeyInvInit, KeyInvStep, PTL DEF KeySpec

(* Whoever goes on after a listing that worked uses a directory and a key   *)
(* that nobody has access to by a name the search knows or by inheritance,  *)
(* whatever directory and key were there, for any race and any failure.     *)
THEOREM KeyStaysPrivate == KeySpec => []KeyIsPrivate
<1>1. KeyInv => KeyIsPrivate
    BY DEF KeyInv
<1> QED BY <1>1, KeyInvInit, KeyInvStep, PTL DEF KeySpec

-----------------------------------------------------------------------------
(* WorkspaceBroker.                                                         *)

LEMMA BrokerFacts ==
    /\ Depth \in Nat /\ Depth > 0 /\ Length \in [Owners -> Nat]
    /\ Writers \subseteq Workers /\ FileReaders \subseteq Workers
    /\ Writers \subseteq Owners /\ Writers \cap FileReaders = {}
    /\ Workers = Writers \cup FileReaders
    /\ Nobody \in Owners /\ Partial \notin Owners
BY BrokerAssumption DEF Owners, Workers

LEMMA DataType == \A w \in Owners : Data(w) \in Seq(Owners) /\ Len(Data(w)) = Length[w]
BY BrokerFacts DEF Data

BrokerShape ==
    /\ links \subseteq Levels
    /\ worker \in [Workers -> WorkerPhases]
    /\ opened \in [Workers -> 0 .. Depth]
    /\ position \in [Writers -> Nat]
    /\ latest \in Owners \cup { Partial }
    /\ wanted \in [FileReaders -> Owners \cup { Partial }]
    /\ strayed \subseteq Workers

FileShape == file \in Seq(Owners) /\ result \in [FileReaders -> Seq(Owners)]

LEMMA BrokerTypeParts == BrokerTypeOK <=> BrokerShape /\ FileShape
BY DEF BrokerTypeOK, BrokerShape, FileShape

LEMMA ShapeStep == BrokerShape /\ [BrokerNext]_brokerVars => BrokerShape'
<1> SUFFICES ASSUME BrokerShape, [BrokerNext]_brokerVars PROVE BrokerShape'
    OBVIOUS
<1> USE BrokerFacts DEF BrokerShape, Levels, WorkerPhases, WorkerGoes, historyVars
<1>1. CASE UNCHANGED brokerVars
    BY <1>1 DEF brokerVars
<1>2. ASSUME NEW w \in Workers, Begin(w) PROVE BrokerShape'
    BY <1>2 DEF Begin
<1>3. ASSUME NEW w \in Workers, OpenParent(w) PROVE BrokerShape'
    BY <1>3 DEF OpenParent, Stray
<1>4. ASSUME NEW w \in Workers, OpenFile(w) PROVE BrokerShape'
    BY <1>4 DEF OpenFile, Stray
<1>5. ASSUME NEW w \in Workers, WorkerKilled(w) PROVE BrokerShape'
    BY <1>5 DEF WorkerKilled
<1>6. ASSUME NEW w \in Writers, WriteBlock(w) PROVE BrokerShape'
    <2>1. /\ position' \in { position, [position EXCEPT ![w] = @ + 1] }
          /\ worker' \in { worker, [worker EXCEPT ![w] = "truncate"] }
          /\ UNCHANGED << links, opened, latest, wanted, strayed >>
        BY <1>6 DEF WriteBlock
    <2>2. position[w] + 1 \in Nat
        OBVIOUS
    <2> QED BY <2>1, <2>2
<1>7. ASSUME NEW w \in Writers, Truncate(w) PROVE BrokerShape'
    BY <1>7 DEF Truncate
<1>8. ASSUME NEW r \in FileReaders, ReadBlock(r) PROVE BrokerShape'
    <2>1. /\ worker' \in { worker, [worker EXCEPT ![r] = "ended"] }
          /\ opened' \in { opened, [opened EXCEPT ![r] = 0] }
          /\ UNCHANGED << links, position, latest, wanted, strayed >>
        BY <1>8 DEF ReadBlock
    <2> QED BY <2>1
<1>9. CASE Redirect
    BY <1>9 DEF Redirect
<1> QED BY <1>1, <1>2, <1>3, <1>4, <1>5, <1>6, <1>7, <1>8, <1>9 DEF BrokerNext

(* What a write does to the file.                                           *)
LEMMA BlockWritten ==
    ASSUME NEW w \in Owners, NEW old \in Seq(Owners), NEW n \in Nat, n <= Len(old)
    PROVE  LET new == IF n < Len(old) THEN [old EXCEPT ![n + 1] = w] ELSE Append(old, w)
           IN  /\ new \in Seq(Owners) /\ n + 1 <= Len(new) /\ new[n + 1] = w
               /\ \A i \in 1 .. n : new[i] = old[i]
<1>0. Len(old) \in Nat
    BY LenProperties
<1>1. CASE n < Len(old)
    BY <1>0, <1>1, ExceptSeq
<1>2. CASE n = Len(old)
    BY <1>0, <1>2, AppendProperties
<1> QED BY <1>0, <1>1, <1>2

(* Whatever an operation has opened is locked, and no link.                 *)
Kept ==
    /\ StaysInside
    /\ \A w \in Workers : \A d \in 1 .. opened[w] : d \notin links
    /\ \A w \in Workers : worker[w] \in { "write", "truncate", "read" } => opened[w] = Depth

LEMMA KeptStep == BrokerShape /\ Kept /\ [BrokerNext]_brokerVars => Kept'
<1> SUFFICES ASSUME BrokerShape, Kept, [BrokerNext]_brokerVars PROVE Kept'
    OBVIOUS
<1>0. links \subseteq Levels /\ worker \in [Workers -> WorkerPhases]
      /\ opened \in [Workers -> 0 .. Depth] /\ strayed \subseteq Workers
    BY DEF BrokerShape
<1> USE <1>0, BrokerFacts DEF Kept, StaysInside, Levels, WorkerPhases, WorkerGoes, historyVars
<1>1. CASE UNCHANGED brokerVars
    BY <1>1 DEF brokerVars
<1>2. ASSUME NEW w \in Workers, Begin(w) PROVE Kept'
    BY <1>2 DEF Begin
<1>3. ASSUME NEW w \in Workers, OpenParent(w) PROVE Kept'
    <2>1. CASE /\ opened[w] < Depth /\ opened[w] + 1 \notin links
               /\ opened' = [opened EXCEPT ![w] = opened[w] + 1]
               /\ worker[w] = "parents"
               /\ UNCHANGED << worker, links >>
        <3>1. strayed' = {}
            BY <1>3, <2>1 DEF OpenParent, Stray
        <3> QED BY <2>1, <3>1
    <2>2. CASE /\ opened' = [opened EXCEPT ![w] = 0] /\ worker' = [worker EXCEPT ![w] = "ended"]
               /\ UNCHANGED << strayed, links >>
        BY <2>2
    <2> QED BY <1>3, <2>1, <2>2 DEF OpenParent
<1>4. ASSUME NEW w \in Workers, OpenFile(w) PROVE Kept'
    <2>1. CASE UNCHANGED strayed
        BY <1>4, <2>1 DEF OpenFile
    <2>2. CASE /\ opened[w] = Depth /\ Depth + 1 \notin links /\ Stray(w, Depth + 2)
               /\ UNCHANGED << links, opened >>
        <3>1. \A d \in 1 .. Depth + 2 - 1 : d \in 1 .. Depth \/ d = Depth + 1
            OBVIOUS
        <3>2. strayed' = {}
            BY <2>2, <3>1 DEF Stray
        <3> QED BY <1>4, <2>2, <3>2 DEF OpenFile
    <2>3. \/ UNCHANGED strayed
          \/ Depth + 1 \notin links /\ Stray(w, Depth + 2) /\ UNCHANGED opened
        <3> HIDE DEF Kept, StaysInside
        <3> QED BY <1>4 DEF OpenFile
    <2>4. opened[w] = Depth /\ UNCHANGED links
        BY <1>4 DEF OpenFile
    <2> QED BY <2>1, <2>2, <2>3, <2>4
<1>5. ASSUME NEW w \in Workers, WorkerKilled(w) PROVE Kept'
    BY <1>5 DEF WorkerKilled
<1>6. ASSUME NEW w \in Writers, WriteBlock(w) PROVE Kept'
    BY <1>6 DEF WriteBlock
<1>7. ASSUME NEW w \in Writers, Truncate(w) PROVE Kept'
    BY <1>7 DEF Truncate
<1>8. ASSUME NEW r \in FileReaders, ReadBlock(r) PROVE Kept'
    <2>1. /\ UNCHANGED << links, strayed >>
          /\ \/ UNCHANGED << worker, opened >>
             \/ /\ worker' = [worker EXCEPT ![r] = "ended"]
                /\ opened' = [opened EXCEPT ![r] = 0]
        BY <1>8 DEF ReadBlock
    <2> QED BY <2>1
<1>9. CASE Redirect
    BY <1>9 DEF Redirect, Locked
<1> QED BY <1>1, <1>2, <1>3, <1>4, <1>5, <1>6, <1>7, <1>8, <1>9 DEF BrokerNext

(* No operation of the broker leaves the project, at any depth and whatever *)
(* is done to the directories above its file and to the file.               *)
THEOREM BrokerStaysInside == BrokerSpec => []StaysInside
<1>1. BrokerInit => Kept /\ BrokerShape
    BY BrokerFacts DEF BrokerInit, Kept, StaysInside, BrokerShape, Levels, WorkerPhases
<1>2. Kept => StaysInside
    BY DEF Kept
<1> QED BY <1>1, <1>2, ShapeStep, KeptStep, PTL DEF BrokerSpec
(* One writer, or readers; the file is Partial while a writer is at it, and *)
(* readers keep the version they opened.                                    *)
InFile(w) == worker[w] \in { "write", "truncate" }

Access ==
    /\ \A v, w \in Writers : InFile(v) /\ InFile(w) => v = w
    /\ \A w \in Writers : InFile(w) =>
         /\ latest = Partial
         /\ \A r \in FileReaders : worker[r] # "read"
    /\ \A r \in FileReaders : worker[r] = "read" => wanted[r] = latest

LEMMA AccessStep == BrokerShape /\ Access /\ [BrokerNext]_brokerVars => Access'
<1> SUFFICES ASSUME BrokerShape, Access, [BrokerNext]_brokerVars PROVE Access'
    OBVIOUS
<1>0. /\ worker \in [Workers -> WorkerPhases]
      /\ wanted \in [FileReaders -> Owners \cup { Partial }]
      /\ Writers \subseteq Workers /\ FileReaders \subseteq Workers
      /\ Writers \cap FileReaders = {} /\ Workers = Writers \cup FileReaders
    BY BrokerFacts DEF BrokerShape
<1> USE <1>0 DEF Access, InFile, WorkerGoes, historyVars
<1>1. CASE UNCHANGED << worker, latest, wanted >>
    BY <1>1
<1>2. ASSUME NEW w \in Workers,
             NEW to \in { "parents", "ended" },
             worker' = [worker EXCEPT ![w] = to],
             UNCHANGED << latest, wanted >>
      PROVE  Access'
    BY <1>2
<1>3. ASSUME NEW w \in Workers, Begin(w) \/ OpenParent(w) \/ WorkerKilled(w) PROVE Access'
    <2>1. UNCHANGED << latest, wanted >>
        BY <1>3 DEF Begin, OpenParent, WorkerKilled
    <2>2. UNCHANGED worker \/ \E to \in { "parents", "ended" } :
                                worker' = [worker EXCEPT ![w] = to]
        BY <1>3 DEF Begin, OpenParent, WorkerKilled
    <2> QED BY <1>1, <1>2, <2>1, <2>2
<1>4. ASSUME NEW w \in Workers, OpenFile(w) PROVE Access'
    <2>1. CASE /\ ~Writing /\ (w \in Writers => ~Reading)
               /\ worker' = [worker EXCEPT ![w] = IF w \in Writers THEN "write" ELSE "read"]
               /\ wanted' = IF w \in Writers THEN wanted ELSE [wanted EXCEPT ![w] = latest]
               /\ latest' = IF w \in Writers THEN Partial ELSE latest
        BY <2>1 DEF Writing, Reading
    <2>2. CASE worker' = [worker EXCEPT ![w] = "ended"] /\ UNCHANGED << latest, wanted >>
        BY <1>2, <2>2
    <2> QED BY <1>4, <2>1, <2>2 DEF OpenFile
<1>5. ASSUME NEW w \in Writers, WriteBlock(w) PROVE Access'
    <2>1. /\ worker[w] = "write" /\ UNCHANGED << latest, wanted >>
          /\ worker' = worker \/ worker' = [worker EXCEPT ![w] = "truncate"]
        BY <1>5 DEF WriteBlock
    <2> QED BY <2>1
<1>6. ASSUME NEW w \in Writers, Truncate(w) PROVE Access'
    <2>1. /\ worker[w] = "truncate" /\ latest' = w /\ wanted' = wanted
          /\ worker' = [worker EXCEPT ![w] = "ended"]
        BY <1>6 DEF Truncate
    <2> QED BY <2>1
<1>7. ASSUME NEW r \in FileReaders, ReadBlock(r) PROVE Access'
    <2>1. /\ UNCHANGED << latest, wanted >>
          /\ worker' = worker \/ worker' = [worker EXCEPT ![r] = "ended"]
        BY <1>7 DEF ReadBlock
    <2> QED BY <1>1, <1>2, <2>1
<1>8. CASE Redirect \/ UNCHANGED brokerVars
    BY <1>1, <1>8 DEF Redirect, brokerVars
<1> QED BY <1>3, <1>4, <1>5, <1>6, <1>7, <1>8 DEF BrokerNext

(* What a writer has written so far, and the file once it is complete.      *)
Prefix(w) ==
    /\ position[w] <= Len(file) /\ position[w] <= Length[w]
    /\ \A n \in 1 .. position[w] : file[n] = w

Contained ==
    /\ latest # Partial => file = Data(latest)
    /\ \A w \in Writers : worker[w] \in { "idle", "parents" } => position[w] = 0
    /\ \A w \in Writers : InFile(w) => Prefix(w)
    /\ \A w \in Writers : worker[w] = "truncate" => position[w] = Length[w]

(* What a reader has read so far is the beginning of the file.              *)
ReadSoFar ==
    /\ \A r \in FileReaders : worker[r] \in { "idle", "parents" } => result[r] = << >>
    /\ \A r \in FileReaders : worker[r] = "read" =>
         /\ Len(result[r]) <= Len(file)
         /\ \A n \in 1 .. Len(result[r]) : result[r][n] = file[n]
    /\ ReadsLastWrite

BrokerInv == BrokerShape /\ FileShape /\ Access /\ Contained /\ ReadSoFar

LEMMA BrokerInvInit == BrokerInit => BrokerInv
<1> SUFFICES ASSUME BrokerInit PROVE BrokerInv
    OBVIOUS
<1>1. BrokerShape
    BY BrokerFacts DEF BrokerInit, BrokerShape, Levels, WorkerPhases
<1>2. FileShape
    <2>1. << >> \in Seq(Owners)
        BY EmptySeq
    <2>2. Data(Nobody) \in Seq(Owners)
        BY DataType, BrokerFacts
    <2> QED BY <2>1, <2>2 DEF BrokerInit, FileShape
<1>3. Access
    BY BrokerFacts DEF BrokerInit, Access, InFile
<1>4. Contained
    BY BrokerFacts DEF BrokerInit, Contained, InFile
<1>5. ReadSoFar
    BY BrokerFacts DEF BrokerInit, ReadSoFar, ReadsLastWrite
<1> QED BY <1>1, <1>2, <1>3, <1>4, <1>5 DEF BrokerInv

(* Steps that leave the file, the positions and the results alone, and take *)
(* an operation to its parents or to its end with nothing read.             *)
LEMMA OutsideStep ==
    ASSUME BrokerInv, NEW w \in Workers, NEW to \in { "parents", "ended" },
           UNCHANGED << file, position, latest, wanted >>,
           worker' = worker \/ worker' = [worker EXCEPT ![w] = to],
           to = "parents" /\ worker' # worker => worker[w] = "idle",
           result' = result \/ result' = [result EXCEPT ![w] = << >>],
           to = "ended" /\ worker' # worker /\ w \in FileReaders => result'[w] = << >>
    PROVE  Contained' /\ ReadSoFar'
<1>0. /\ worker \in [Workers -> WorkerPhases]
      /\ result \in [FileReaders -> Seq(Owners)]
      /\ Writers \subseteq Workers /\ FileReaders \subseteq Workers
    BY BrokerFacts DEF BrokerInv, BrokerShape, FileShape
<1>1. Contained'
    BY <1>0 DEF BrokerInv, Contained, Prefix, InFile
<1>2. ReadSoFar'
    <2>1. \A r \in FileReaders : result'[r] = result[r] \/ (r = w /\ result'[r] = << >>)
        BY <1>0
    <2>2. Len(<< >>) = 0 /\ Len(file) \in Nat
        BY LenProperties DEF BrokerInv, FileShape
    <2>3. \A r \in FileReaders : worker'[r] = worker[r] \/ (r = w /\ worker'[r] = to)
        BY <1>0
    <2>4. ASSUME NEW r \in FileReaders
          PROVE  /\ worker'[r] \in { "idle", "parents" } => result'[r] = << >>
                 /\ worker'[r] = "read" =>
                      /\ Len(result'[r]) <= Len(file)
                      /\ \A n \in 1 .. Len(result'[r]) : result'[r][n] = file[n]
                 /\ (worker'[r] = "ended" /\ result'[r] # << >> /\ wanted[r] # Partial)
                      => result'[r] = Data(wanted[r])
        BY <2>1, <2>2, <2>3 DEF BrokerInv, ReadSoFar, ReadsLastWrite
    <2> QED BY <2>4 DEF ReadSoFar, ReadsLastWrite, Data
<1> QED BY <1>1, <1>2

LEMMA OpenStep ==
    ASSUME BrokerInv, NEW w \in Workers, OpenFile(w)
    PROVE  FileShape' /\ Contained' /\ ReadSoFar'
<1>0. /\ worker \in [Workers -> WorkerPhases]
      /\ result \in [FileReaders -> Seq(Owners)]
      /\ wanted \in [FileReaders -> Owners \cup { Partial }]
      /\ Writers \subseteq Workers /\ FileReaders \subseteq Workers
      /\ Writers \cap FileReaders = {} /\ Workers = Writers \cup FileReaders
      /\ file \in Seq(Owners) /\ Len(file) \in Nat
    BY BrokerFacts, LenProperties DEF BrokerInv, BrokerShape, FileShape
<1>1. FileShape'
    BY <1>0 DEF FileShape, OpenFile
<1>2. CASE /\ ~Writing /\ worker[w] = "parents"
           /\ worker' = [worker EXCEPT ![w] = IF w \in Writers THEN "write" ELSE "read"]
           /\ wanted' = IF w \in Writers THEN wanted ELSE [wanted EXCEPT ![w] = latest]
           /\ latest' = IF w \in Writers THEN Partial ELSE latest
           /\ UNCHANGED << file, position, result >>
    <2>1. Contained'
        <3>1. \A v \in Writers : worker'[v] = worker[v] \/ (v = w /\ worker'[v] = "write")
            BY <1>0, <1>2
        <3>2. w \in Writers => position[w] = 0
            BY <1>2 DEF BrokerInv, Contained
        <3>3. \A v \in Writers : Length[v] \in Nat
            BY BrokerFacts
        <3>4. \A v \in Writers : InFile(v)' => Prefix(v)'
            BY <1>0, <1>2, <3>1, <3>2, <3>3 DEF BrokerInv, Contained, InFile, Prefix
        <3>5. latest' # Partial => file' = Data(latest)'
            BY <1>2 DEF BrokerInv, Contained, Data
        <3> QED BY <1>2, <3>1, <3>4, <3>5 DEF BrokerInv, Contained
    <2>2. ReadSoFar'
        <3>1. \A r \in FileReaders : worker'[r] = worker[r] \/ (r = w /\ worker'[r] = "read")
            BY <1>0, <1>2
        <3>2. w \in FileReaders => result[w] = << >>
            BY <1>2 DEF BrokerInv, ReadSoFar
        <3>3. Len(<< >>) = 0
            OBVIOUS
        <3>4. \A r \in FileReaders : r # w => wanted'[r] = wanted[r]
            BY <1>0, <1>2
        <3>5. ASSUME NEW r \in FileReaders
              PROVE  /\ worker'[r] \in { "idle", "parents" } => result[r] = << >>
                     /\ worker'[r] = "read" =>
                          /\ Len(result[r]) <= Len(file)
                          /\ \A n \in 1 .. Len(result[r]) : result[r][n] = file[n]
                     /\ (worker'[r] = "ended" /\ result[r] # << >> /\ wanted'[r] # Partial)
                          => result[r] = Data(wanted'[r])
            BY <1>0, <3>1, <3>2, <3>3, <3>4 DEF BrokerInv, ReadSoFar, ReadsLastWrite
        <3> QED BY <1>2, <3>5 DEF ReadSoFar, ReadsLastWrite, Data
    <2> QED BY <1>1, <2>1, <2>2
<1>3. CASE worker' = [worker EXCEPT ![w] = "ended"] /\ worker[w] = "parents"
           /\ UNCHANGED << file, position, result, latest, wanted >>
    <2>1. w \in FileReaders => result[w] = << >>
        BY <1>3 DEF BrokerInv, ReadSoFar
    <2> QED BY <1>1, <1>3, <2>1, OutsideStep
<1> QED BY <1>2, <1>3 DEF OpenFile, WorkerGoes, historyVars

LEMMA WriteStep ==
    ASSUME BrokerInv, NEW w \in Writers, WriteBlock(w)
    PROVE  FileShape' /\ Contained' /\ ReadSoFar'
<1>0. /\ worker \in [Workers -> WorkerPhases]
      /\ position \in [Writers -> Nat] /\ Length[w] \in Nat
      /\ w \in Workers /\ w \in Owners
      /\ Writers \subseteq Workers /\ FileReaders \subseteq Workers
      /\ Writers \cap FileReaders = {}
      /\ file \in Seq(Owners) /\ Len(file) \in Nat
    BY BrokerFacts, LenProperties DEF BrokerInv, BrokerShape, FileShape
<1>1. /\ worker[w] = "write" /\ latest = Partial /\ Prefix(w)
      /\ \A r \in FileReaders : worker[r] # "read"
      /\ \A v \in Writers : InFile(v) => v = w
    BY DEF WriteBlock, BrokerInv, Access, Contained, InFile
<1>2. UNCHANGED << latest, wanted, result >>
    BY DEF WriteBlock, historyVars
<1>3. CASE /\ position[w] < Length[w]
           /\ position' = [position EXCEPT ![w] = @ + 1]
           /\ file' = IF position[w] < Len(file)
                      THEN [file EXCEPT ![position[w] + 1] = w] ELSE Append(file, w)
           /\ worker' = worker
    <2> DEFINE n == position[w]
    <2>1. n \in Nat /\ n <= Len(file)
        BY <1>0, <1>1 DEF Prefix
    <2>2. /\ file' \in Seq(Owners) /\ n + 1 <= Len(file') /\ file'[n + 1] = w
          /\ \A i \in 1 .. n : file'[i] = file[i]
        BY <1>0, <1>3, <2>1, BlockWritten
    <2>3. position'[w] = n + 1 /\ \A v \in Writers : v # w => position'[v] = position[v]
        BY <1>0, <1>3
    <2>4. Prefix(w)'
        BY <1>0, <1>1, <1>3, <2>1, <2>2, <2>3 DEF Prefix
    <2>5. Contained'
        BY <1>1, <1>2, <1>3, <2>3, <2>4 DEF BrokerInv, Contained, InFile
    <2>6. FileShape'
        BY <1>2, <2>2 DEF BrokerInv, FileShape
    <2>7. ReadSoFar'
        BY <1>1, <1>2, <1>3 DEF BrokerInv, ReadSoFar, ReadsLastWrite, Data
    <2> QED BY <2>5, <2>6, <2>7
<1>4. CASE /\ ~(position[w] < Length[w])
           /\ worker' = [worker EXCEPT ![w] = "truncate"]
           /\ UNCHANGED << position, file >>
    <2>1. position[w] = Length[w]
        BY <1>0, <1>1, <1>4 DEF Prefix
    <2>2. \A v \in Workers : v # w => worker'[v] = worker[v]
        BY <1>0, <1>4
    <2>3. worker'[w] = "truncate"
        BY <1>0, <1>4
    <2>4. \A v \in Writers : Prefix(v)' = Prefix(v)
        BY <1>4 DEF Prefix
    <2>5. Contained'
        BY <1>0, <1>1, <1>2, <1>4, <2>1, <2>2, <2>3, <2>4 DEF BrokerInv, Contained, InFile
    <2>6. FileShape'
        BY <1>2, <1>4 DEF BrokerInv, FileShape
    <2>7. \A r \in FileReaders : worker'[r] = worker[r]
        BY <1>0, <2>2
    <2>8. ReadSoFar'
        BY <1>1, <1>2, <1>4, <2>7 DEF BrokerInv, ReadSoFar, ReadsLastWrite, Data
    <2> QED BY <2>5, <2>6, <2>8
<1> QED BY <1>3, <1>4 DEF WriteBlock, WorkerGoes

LEMMA TruncateStep ==
    ASSUME BrokerInv, NEW w \in Writers, Truncate(w)
    PROVE  FileShape' /\ Contained' /\ ReadSoFar'
<1>0. /\ worker \in [Workers -> WorkerPhases]
      /\ position \in [Writers -> Nat] /\ Length[w] \in Nat
      /\ w \in Workers /\ w \in Owners
      /\ Writers \subseteq Workers /\ FileReaders \subseteq Workers
      /\ Writers \cap FileReaders = {}
      /\ file \in Seq(Owners) /\ Len(file) \in Nat
    BY BrokerFacts, LenProperties DEF BrokerInv, BrokerShape, FileShape
<1>1. /\ worker[w] = "truncate" /\ worker' = [worker EXCEPT ![w] = "ended"]
      /\ file' = SubSeq(file, 1, position[w]) /\ latest' = w
      /\ UNCHANGED << position, result, wanted >>
    BY DEF Truncate, WorkerGoes
<1>2. /\ Prefix(w) /\ position[w] = Length[w]
      /\ \A r \in FileReaders : worker[r] # "read"
      /\ \A v \in Writers : InFile(v) => v = w
    BY <1>1 DEF BrokerInv, Access, Contained, InFile
<1>3. \A i \in 1 .. position[w] : file[i] \in Owners
    BY <1>0, <1>2 DEF Prefix
<1>4. /\ file' \in Seq(Owners) /\ Len(file') = Length[w]
      /\ \A i \in 1 .. Length[w] : file'[i] = w
    <2>1. /\ SubSeq(file, 1, position[w]) \in Seq(Owners)
          /\ Len(SubSeq(file, 1, position[w]))
               = IF 1 <= position[w] THEN position[w] - 1 + 1 ELSE 0
          /\ \A i \in 1 .. position[w] - 1 + 1 :
               SubSeq(file, 1, position[w])[i] = file[1 + i - 1]
        <3>1. position[w] \in Int
            BY <1>0
        <3> QED BY <1>3, <3>1, SubSeqProperties
    <2>2. Len(file') = Length[w]
        BY <1>0, <1>1, <1>2, <2>1
    <2>3. ASSUME NEW i \in 1 .. Length[w] PROVE file'[i] = w
        BY <1>0, <1>1, <1>2, <2>1 DEF Prefix
    <2> QED BY <1>1, <2>1, <2>2, <2>3
<1>5. file' = Data(w)
    <2>1. Data(w) \in Seq(Owners) /\ Len(Data(w)) = Length[w]
        BY <1>0, DataType
    <2>2. \A i \in 1 .. Length[w] : Data(w)[i] = w
        BY DEF Data
    <2> QED BY <1>4, <2>1, <2>2, SeqEqual
<1>6. \A v \in Workers : worker'[v] = worker[v] \/ (v = w /\ worker'[v] = "ended")
    BY <1>0, <1>1
<1>7. Contained'
    BY <1>0, <1>1, <1>2, <1>5, <1>6 DEF BrokerInv, Contained, InFile, Data
<1>8. ReadSoFar'
    <2>1. \A r \in FileReaders : worker'[r] = worker[r]
        BY <1>0, <1>6
    <2> QED BY <1>1, <1>2, <2>1 DEF BrokerInv, ReadSoFar, ReadsLastWrite, Data
<1> QED BY <1>1, <1>4, <1>7, <1>8 DEF FileShape, BrokerInv

LEMMA ReadStep ==
    ASSUME BrokerInv, NEW r \in FileReaders, ReadBlock(r)
    PROVE  FileShape' /\ Contained' /\ ReadSoFar'
<1>0. /\ worker \in [Workers -> WorkerPhases]
      /\ result \in [FileReaders -> Seq(Owners)]
      /\ r \in Workers /\ FileReaders \subseteq Workers /\ Writers \subseteq Workers
      /\ Writers \cap FileReaders = {}
      /\ file \in Seq(Owners) /\ Len(file) \in Nat
      /\ result[r] \in Seq(Owners) /\ Len(result[r]) \in Nat
    BY BrokerFacts, LenProperties DEF BrokerInv, BrokerShape, FileShape
<1>1. /\ worker[r] = "read" /\ UNCHANGED << file, position, latest, wanted >>
      /\ wanted[r] = latest
      /\ Len(result[r]) <= Len(file)
      /\ \A n \in 1 .. Len(result[r]) : result[r][n] = file[n]
    BY DEF ReadBlock, historyVars, BrokerInv, Access, ReadSoFar
<1>2. CASE /\ Len(result[r]) < Len(file)
           /\ result' = [result EXCEPT ![r] = Append(@, file[Len(@) + 1])]
           /\ worker' = worker
    <2> DEFINE block == file[Len(result[r]) + 1]
    <2>1. block \in Owners
        BY <1>0, <1>2, ElementOfSeq
    <2>2. result' = [result EXCEPT ![r] = Append(result[r], block)]
        BY <1>2
    <2>3. /\ Append(result[r], block) \in Seq(Owners)
          /\ Len(Append(result[r], block)) = Len(result[r]) + 1
          /\ \A n \in 1 .. Len(result[r]) : Append(result[r], block)[n] = result[r][n]
          /\ Append(result[r], block)[Len(result[r]) + 1] = block
        BY <1>0, <2>1, AppendProperties
    <2>4. result'[r] = Append(result[r], block) /\ \A s \in FileReaders : s # r => result'[s] = result[s]
        BY <1>0, <2>2
    <2>5. FileShape'
        BY <1>0, <1>1, <2>2, <2>3 DEF FileShape
    <2>6. Contained'
        BY <1>1, <1>2 DEF BrokerInv, Contained, InFile, Prefix, Data
    <2>7. Len(result'[r]) <= Len(file) /\ \A n \in 1 .. Len(result'[r]) : result'[r][n] = file[n]
        BY <1>0, <1>1, <1>2, <2>3, <2>4
    <2>8. ReadSoFar'
        <3> HIDE DEF block
        <3> QED BY <1>1, <1>2, <2>4, <2>7 DEF BrokerInv, ReadSoFar, ReadsLastWrite, Data
    <2> QED BY <2>5, <2>6, <2>8
<1>3. CASE /\ ~(Len(result[r]) < Len(file))
           /\ worker' = [worker EXCEPT ![r] = "ended"] /\ UNCHANGED result
    <2>1. result[r] = file
        BY <1>0, <1>1, <1>3, SeqEqual
    <2>2. latest # Partial => result[r] = Data(wanted[r])
        BY <1>1, <2>1 DEF BrokerInv, Contained
    <2>3. \A s \in Workers : worker'[s] = worker[s] \/ (s = r /\ worker'[s] = "ended")
        BY <1>0, <1>3
    <2>4. FileShape'
        BY <1>1, <1>3 DEF BrokerInv, FileShape
    <2>5. Contained'
        BY <1>0, <1>1, <2>3 DEF BrokerInv, Contained, InFile, Prefix, Data
    <2>6. ReadSoFar'
        BY <1>0, <1>1, <1>3, <2>2, <2>3 DEF BrokerInv, ReadSoFar, ReadsLastWrite, Data
    <2> QED BY <2>4, <2>5, <2>6
<1> QED BY <1>2, <1>3 DEF ReadBlock, WorkerGoes

LEMMA BrokerInvStep == BrokerInv /\ [BrokerNext]_brokerVars => BrokerInv'
<1> SUFFICES ASSUME BrokerInv, [BrokerNext]_brokerVars PROVE BrokerInv'
    OBVIOUS
<1>1. BrokerShape' /\ Access'
    BY ShapeStep, AccessStep DEF BrokerInv
<1> SUFFICES FileShape' /\ Contained' /\ ReadSoFar'
    BY <1>1 DEF BrokerInv
<1>2. ASSUME UNCHANGED << file, worker, position, result, latest, wanted >>
      PROVE  FileShape' /\ Contained' /\ ReadSoFar'
    BY <1>2 DEF BrokerInv, FileShape, Contained, ReadSoFar, ReadsLastWrite, Data, InFile, Prefix
<1>3. ASSUME NEW w \in Workers, Begin(w) PROVE FileShape' /\ Contained' /\ ReadSoFar'
    <2>1. /\ UNCHANGED << file, position, latest, wanted, result >> /\ worker[w] = "idle"
          /\ worker' = [worker EXCEPT ![w] = "parents"]
        BY <1>3 DEF Begin, WorkerGoes, historyVars
    <2>2. FileShape'
        BY <2>1 DEF BrokerInv, FileShape
    <2> QED BY <2>1, <2>2, OutsideStep
<1>4. ASSUME NEW w \in Workers, OpenParent(w) PROVE FileShape' /\ Contained' /\ ReadSoFar'
    <2>1. /\ UNCHANGED << file, position, latest, wanted, result >> /\ worker[w] = "parents"
          /\ worker' = worker \/ worker' = [worker EXCEPT ![w] = "ended"]
        BY <1>4 DEF OpenParent, WorkerGoes
    <2>2. FileShape'
        BY <2>1 DEF BrokerInv, FileShape
    <2>3. w \in FileReaders => result'[w] = << >>
        BY <2>1 DEF BrokerInv, ReadSoFar
    <2> QED BY <2>1, <2>2, <2>3, OutsideStep
<1>5. ASSUME NEW w \in Workers, WorkerKilled(w) PROVE FileShape' /\ Contained' /\ ReadSoFar'
    <2>1. /\ UNCHANGED << file, position, latest, wanted >>
          /\ worker' = [worker EXCEPT ![w] = "ended"]
          /\ result' = IF w \in FileReaders THEN [result EXCEPT ![w] = << >>] ELSE result
        BY <1>5 DEF WorkerKilled, WorkerGoes, historyVars
    <2>2. << >> \in Seq(Owners) /\ result \in [FileReaders -> Seq(Owners)]
        BY EmptySeq DEF BrokerInv, FileShape
    <2>3. FileShape'
        BY <2>1, <2>2 DEF BrokerInv, FileShape
    <2>4. w \in FileReaders => result'[w] = << >>
        BY <2>1, <2>2
    <2> QED BY <2>1, <2>3, <2>4, OutsideStep
<1>6. CASE Redirect \/ UNCHANGED brokerVars
    BY <1>2, <1>6 DEF Redirect, brokerVars, historyVars
<1> QED BY <1>3, <1>4, <1>5, <1>6, OpenStep, WriteStep, TruncateStep, ReadStep DEF BrokerNext

(* A read that is complete returns one complete write, the last one, for any*)
(* number of readers, of writers and of blocks.                             *)
THEOREM BrokerReadsLastWrite == BrokerSpec => []ReadsLastWrite
<1>1. BrokerInv => ReadsLastWrite
    BY DEF BrokerInv, ReadSoFar
<1> QED BY <1>1, BrokerInvInit, BrokerInvStep, PTL DEF BrokerSpec

-----------------------------------------------------------------------------
(* Installation.                                                            *)

LEMMA InstallFacts ==
    /\ Release \subseteq Payload /\ Payload \subseteq Entries
    /\ Manifest \in Entries /\ Manifest \notin Payload
    /\ Root \notin Entries /\ NoFile \notin Entries
    /\ \A e \in Entries : e = Manifest \/ e \in Payload
    /\ Installers \subseteq Callers /\ Readers \subseteq Callers
    /\ Installers \cap Readers = {} /\ Callers = Installers \cup Readers
    /\ Wanted(Manifest) = "pinned"
    /\ \A e \in Entries : Wanted(e) \in { "pinned", "absent" }
BY InstallAssumption DEF Entries, Callers, Wanted

LEMMA InstallTypeInit == InstallInit => InstallTypeOK
<1>1. \A e \in Payload : Wanted(e) \in Contents
    BY InstallFacts DEF Contents
<1>2. "idle" \in CallerPhases /\ "absent" \in Contents
    BY DEF CallerPhases, Contents
<1> SUFFICES ASSUME InstallInit PROVE InstallTypeOK
    OBVIOUS
<1>3. source \in [Payload -> Contents]
    BY <1>1 DEF InstallInit
<1>4. tree \in [Entries -> Contents] /\ caller \in [Callers -> CallerPhases]
    BY <1>2 DEF InstallInit
<1>5. todo \in [Callers -> SUBSET (Entries \cup { Root })]
    BY DEF InstallInit
<1>6. hand \in [Installers -> Payload \cup { NoFile }]
    BY DEF InstallInit
<1> QED BY <1>3, <1>4, <1>5, <1>6 DEF InstallInit, InstallTypeOK

LEMMA PassType ==
    ASSUME InstallTypeOK, NEW c \in Callers, NEW files,
           NEW at \in CallerPhases, NEW next \in CallerPhases, NEW otherwise \in CallerPhases,
           Pass(c, at, files, next, otherwise)
    PROVE  /\ caller' \in [Callers -> CallerPhases]
           /\ todo' \in [Callers -> SUBSET (Entries \cup { Root })]
BY InstallFacts DEF Pass, InstallTypeOK, CallerGoes, Leaves

(* An installer copies files of the payload only.                           *)
CopyList == \A i \in Installers : caller[i] \in { "copy", "fill" } => todo[i] \subseteq Payload

LEMMA CopyListStep == InstallTypeOK /\ CopyList /\ [InstallNext]_installVars => CopyList'
<1> SUFFICES ASSUME InstallTypeOK, CopyList, [InstallNext]_installVars,
                    NEW j \in Installers, caller'[j] \in { "copy", "fill" }
             PROVE  todo'[j] \subseteq Payload
    BY DEF CopyList
<1>0. /\ caller \in [Callers -> CallerPhases]
      /\ todo \in [Callers -> SUBSET (Entries \cup { Root })]
    BY DEF InstallTypeOK
<1> USE <1>0, InstallFacts DEF CopyList, CallerGoes, Leaves
<1>1. ASSUME UNCHANGED << caller, todo >> PROVE todo'[j] \subseteq Payload
    BY <1>1
<1>2. ASSUME NEW c \in Callers, NEW to \in CallerPhases \ { "copy", "fill" },
             caller' = [caller EXCEPT ![c] = to], NEW rest,
             todo' = todo \/ todo' = [todo EXCEPT ![c] = rest]
      PROVE  todo'[j] \subseteq Payload
    BY <1>2
<1>3. ASSUME NEW c \in Callers, NEW files, NEW at, NEW next, NEW otherwise,
             Pass(c, at, files, next, otherwise),
             { at, next, otherwise } \cap { "copy", "fill" } = {}
      PROVE  todo'[j] \subseteq Payload
    BY <1>3 DEF Pass
<1>4. ASSUME NEW i \in Installers, InstallerStep(i) PROVE todo'[j] \subseteq Payload
    <2>1. CASE InstallBegin(i)
        BY <2>1 DEF InstallBegin
    <2>2. CASE CheckSource(i)
        BY <1>3, <2>2 DEF CheckSource
    <2>3. CASE MakeDirectory(i)
        BY <2>3 DEF MakeDirectory
    <2>4. CASE CopyOpen(i)
        <3>1. caller[i] = "copy" /\ \E f \in todo[i] : todo' = [todo EXCEPT ![i] = todo[i] \ { f }]
            BY <2>4 DEF CopyOpen
        <3>2. \A k \in Installers : k # i => caller'[k] = caller[k]
            BY <2>4 DEF CopyOpen
        <3> QED BY <3>1, <3>2
    <2>5. CASE CopyFill(i)
        BY <2>5 DEF CopyFill
    <2>6. CASE CopyDone(i)
        BY <2>6 DEF CopyDone
    <2>7. CASE CompareCopy(i)
        BY <1>3, <2>7 DEF CompareCopy
    <2>8. CASE ManifestOpen(i) \/ ManifestFill(i)
        BY <2>8 DEF ManifestOpen, ManifestFill
    <2>9. CASE HardenPlan(i)
        BY <2>9 DEF HardenPlan
    <2>10. CASE HardenEntry(i) \/ HardenDone(i)
        BY <2>10 DEF HardenEntry, HardenDone
    <2>11. CASE InstallFails(i)
        BY <2>11 DEF InstallFails
    <2> QED BY <1>4, <2>1, <2>2, <2>3, <2>4, <2>5, <2>6, <2>7, <2>8, <2>9, <2>10, <2>11
            DEF InstallerStep
<1>5. ASSUME NEW r \in Readers, ReaderStep(r) PROVE todo'[j] \subseteq Payload
    <2>1. caller'[j] = caller[j] /\ todo'[j] = todo[j]
        BY <1>5 DEF ReaderStep, LoadBegin, CheckDigest, LoadManifest, Recompute, Pass
    <2> QED BY <2>1
<1>6. CASE EditSource \/ Meddle \/ Unharden \/ UNCHANGED installVars
    BY <1>1, <1>6 DEF EditSource, Meddle, Unharden, installVars
<1> QED BY <1>4, <1>5, <1>6 DEF InstallNext

LEMMA InstallTypeStep ==
    InstallTypeOK /\ CopyList /\ [InstallNext]_installVars => InstallTypeOK'
<1> SUFFICES ASSUME InstallTypeOK, CopyList, [InstallNext]_installVars PROVE InstallTypeOK'
    OBVIOUS
<1> USE InstallFacts DEF InstallTypeOK, treeVars
<1>1. CASE UNCHANGED installVars
    BY <1>1 DEF installVars
<1>2. ASSUME NEW i \in Installers, InstallerStep(i) PROVE InstallTypeOK'
    <2>0. i \in Callers
        OBVIOUS
    <2>1. CASE InstallBegin(i) \/ MakeDirectory(i) \/ CopyDone(i)
        BY <2>1 DEF InstallBegin, MakeDirectory, CopyDone, CallerGoes, Leaves, CallerPhases
    <2>2. CASE CheckSource(i)
        <3>1. Pass(i, "source", source, "mkdir", "failed")
            BY <2>2 DEF CheckSource
        <3>2. { "source", "mkdir", "failed" } \subseteq CallerPhases
            BY DEF CallerPhases
        <3> QED BY <2>0, <2>2, <3>1, <3>2, PassType DEF CheckSource
    <2>3. CASE CopyOpen(i)
        <3> PICK f \in Payload :
              \/ /\ tree' = [tree EXCEPT ![f] = "torn"]
                 /\ hand' = [hand EXCEPT ![i] = f]
              \/ UNCHANGED << tree, hand >>
            BY <2>3 DEF CopyOpen, CopyList
        <3>1. tree' \in [Entries -> Contents] /\ hand' \in [Installers -> Payload \cup { NoFile }]
            BY DEF Contents
        <3>2. caller' \in [Callers -> CallerPhases]
            BY <2>3 DEF CopyOpen, CallerGoes, CallerPhases
        <3> QED BY <2>3, <3>1, <3>2 DEF CopyOpen, Leaves
    <2>4. CASE CopyFill(i)
        BY <2>4 DEF CopyFill, Variants, Wanted, CallerGoes, CallerPhases, Contents
    <2>5. CASE CompareCopy(i)
        <3>1. \/ Pass(i, "compare", tree, "build", "failed")
              \/ Pass(i, "build", tree, "manifest", "failed")
            BY <2>5 DEF CompareCopy
        <3>2. { "compare", "build", "manifest", "failed" } \subseteq CallerPhases
            BY DEF CallerPhases
        <3> QED BY <2>0, <2>5, <3>1, <3>2, PassType DEF CompareCopy
    <2>6. CASE ManifestOpen(i) \/ ManifestFill(i)
        BY <2>6 DEF ManifestOpen, ManifestFill, CallerGoes, CallerPhases, Contents
    <2>7. CASE HardenPlan(i) \/ HardenDone(i)
        <3>1. { Root } \cup { e \in Entries : tree[e] # "absent" } \subseteq Entries \cup { Root }
            OBVIOUS
        <3>2. caller' \in [Callers -> CallerPhases]
            BY <2>7 DEF HardenPlan, HardenDone, CallerGoes, CallerPhases
        <3> DEFINE listed == { Root } \cup { e \in Entries : tree[e] # "absent" }
        <3>3. todo' = todo \/ todo' = [todo EXCEPT ![i] = listed]
            BY <2>7 DEF HardenPlan, HardenDone, Leaves
        <3>4. todo' \in [Callers -> SUBSET (Entries \cup { Root })]
            <4> HIDE DEF listed
            <4> QED BY <3>1, <3>3 DEF listed
        <3> QED BY <2>7, <3>2, <3>4 DEF HardenPlan, HardenDone
    <2>8. CASE HardenEntry(i)
        <3> PICK e \in todo[i] :
              /\ denied' = denied \/ denied' = denied \cup { e }
              /\ todo' = [todo EXCEPT ![i] = {}] \/ todo' = [todo EXCEPT ![i] = todo[i] \ { e }]
            BY <2>8 DEF HardenEntry, Leaves
        <3>1. denied' \subseteq Entries \cup { Root }
            OBVIOUS
        <3>2. todo' \in [Callers -> SUBSET (Entries \cup { Root })]
            OBVIOUS
        <3>3. caller' \in [Callers -> CallerPhases]
            BY <2>8 DEF HardenEntry, CallerGoes, CallerPhases
        <3> QED BY <2>8, <3>1, <3>2, <3>3 DEF HardenEntry
    <2>9. CASE InstallFails(i)
        BY <2>9 DEF InstallFails, CallerGoes, Leaves, CallerPhases
    <2> QED BY <1>2, <2>1, <2>2, <2>3, <2>4, <2>5, <2>6, <2>7, <2>8, <2>9 DEF InstallerStep
<1>3. ASSUME NEW r \in Readers, ReaderStep(r) PROVE InstallTypeOK'
    <2>0. r \in Callers
        OBVIOUS
    <2>1. CASE LoadBegin(r) \/ LoadManifest(r)
        BY <2>1 DEF LoadBegin, LoadManifest, CallerGoes, Leaves, CallerPhases
    <2>2. CASE CheckDigest(r)
        <3>1. Pass(r, "digest", tree, "load", "refused")
            BY <2>2 DEF CheckDigest
        <3>2. { "digest", "load", "refused" } \subseteq CallerPhases
            BY DEF CallerPhases
        <3> QED BY <2>0, <2>2, <3>1, <3>2, PassType DEF CheckDigest
    <2>3. CASE Recompute(r)
        <3>1. Pass(r, "recompute", tree, "accepted", "refused")
            BY <2>3 DEF Recompute
        <3>2. { "recompute", "accepted", "refused" } \subseteq CallerPhases
            BY DEF CallerPhases
        <3> QED BY <2>0, <2>3, <3>1, <3>2, PassType DEF Recompute
    <2> QED BY <1>3, <2>1, <2>2, <2>3 DEF ReaderStep
<1>4. CASE EditSource
    BY <1>4 DEF EditSource, Variants, Wanted, Contents
<1>5. CASE Meddle
    BY <1>5 DEF Meddle, Variants, Wanted, Contents
<1>6. CASE Unharden
    BY <1>6 DEF Unharden
<1> QED BY <1>1, <1>2, <1>3, <1>4, <1>5, <1>6 DEF InstallNext

(* mkdir makes one installer the owner of the tree, for good.               *)
Unrecorded == { "copy", "fill", "compare", "build", "manifest", "record" }
Recorded == { "plan", "deny", "done" }
Owning == Unrecorded \cup Recorded

OneOwner ==
    /\ \A i, j \in Installers : caller[i] \in Owning /\ caller[j] \in Owning => i = j
    /\ \A i \in Installers : caller[i] \in Owning => exists
    /\ ~exists => tree[Manifest] = "absent"

(* Every entry of the tree is denied, or still to be.                       *)
Protected(rest) ==
    /\ Root \in denied \cup rest
    /\ \A e \in Entries : tree[e] # "absent" => e \in denied \cup rest

(* While nobody else changes the tree, the manifest is written only over the*)
(* complete release, and nothing is written afterwards.                     *)
Recording ==
    /\ \A i \in Installers : caller[i] \in Unrecorded => tree[Manifest] # "pinned"
    /\ \A i \in Installers : caller[i] = "compare" =>
         \A f \in Payload \ todo[i] : tree[f] = Wanted(f)
    /\ \A i \in Installers : caller[i] \in { "build", "manifest", "record" } =>
         \A f \in Payload : tree[f] = Wanted(f)
    /\ \A i \in Installers : caller[i] \in Recorded => tree[Manifest] = "pinned"
    /\ tree[Manifest] = "pinned" => Complete
    /\ \A r \in Readers : caller[r] \in { "recompute", "accepted" } => tree[Manifest] = "pinned"

Sealing ==
    /\ \A i \in Installers : caller[i] = "deny" => Protected(todo[i])
    /\ sealed => /\ Protected({}) /\ exists
                 /\ \A i \in Installers : caller[i] \in Owning => caller[i] = "done"

InstallInv ==
    /\ InstallTypeOK /\ CopyList /\ OneOwner
    /\ ~meddled => Recording /\ Sealing

LEMMA InstallInvInit == InstallInit => InstallInv
<1> SUFFICES ASSUME InstallInit PROVE InstallInv
    OBVIOUS
<1>1. \A c \in Callers : caller[c] = "idle"
    BY DEF InstallInit
<1>2. tree[Manifest] = "absent" /\ ~exists /\ ~sealed
    BY InstallFacts DEF InstallInit
<1> QED BY <1>1, <1>2, InstallFacts, InstallTypeInit
        DEF InstallInv, CopyList, OneOwner, Recording, Sealing, Owning, Unrecorded, Recorded

LEMMA OwnerStep == InstallInv /\ [InstallNext]_installVars => OneOwner'
<1> SUFFICES ASSUME InstallInv, [InstallNext]_installVars PROVE OneOwner'
    OBVIOUS
<1>0. /\ caller \in [Callers -> CallerPhases] /\ exists \in BOOLEAN
      /\ tree \in [Entries -> Contents]
    BY DEF InstallInv, InstallTypeOK
<1> USE <1>0, InstallFacts
    DEF InstallInv, OneOwner, Owning, Unrecorded, Recorded, CallerGoes, treeVars
<1>1. ASSUME UNCHANGED << exists, tree >>,
             NEW i \in Installers, NEW to \in CallerPhases,
             caller' = [caller EXCEPT ![i] = to],
             to \in Owning => caller[i] \in Owning
      PROVE  OneOwner'
    BY <1>1
<1>2. CASE UNCHANGED installVars
    BY <1>2 DEF installVars
<1>3. ASSUME NEW i \in Installers, InstallerStep(i) PROVE OneOwner'
    <2>1. CASE InstallBegin(i)
        BY <2>1 DEF InstallBegin
    <2>2. CASE CheckSource(i)
        <3>1. /\ UNCHANGED << exists, tree >> /\ caller[i] = "source"
              /\ \E to \in { "source", "mkdir", "failed" } : caller' = [caller EXCEPT ![i] = to]
            BY <2>2 DEF CheckSource, Pass
        <3> QED BY <3>1
    <2>3. CASE MakeDirectory(i)
        BY <2>3 DEF MakeDirectory
    <2>4. CASE CopyOpen(i)
        BY <2>4 DEF CopyOpen
    <2>5. CASE CopyFill(i)
        BY <2>5 DEF CopyFill
    <2>6. CASE CopyDone(i) \/ HardenPlan(i) \/ HardenDone(i)
        BY <2>6 DEF CopyDone, HardenPlan, HardenDone
    <2>7. CASE CompareCopy(i)
        BY <2>7 DEF CompareCopy, Pass
    <2>8. CASE ManifestOpen(i) \/ ManifestFill(i)
        BY <2>8 DEF ManifestOpen, ManifestFill
    <2>9. CASE HardenEntry(i)
        BY <2>9 DEF HardenEntry
    <2>10. CASE InstallFails(i)
        BY <2>10 DEF InstallFails
    <2> QED BY <1>3, <2>1, <2>2, <2>3, <2>4, <2>5, <2>6, <2>7, <2>8, <2>9, <2>10
            DEF InstallerStep
<1>4. ASSUME NEW r \in Readers, ReaderStep(r) PROVE OneOwner'
    <2>1. UNCHANGED << exists, tree >> /\ \E to \in CallerPhases : caller' = [caller EXCEPT ![r] = to]
        BY <1>4 DEF ReaderStep, LoadBegin, CheckDigest, LoadManifest, Recompute, Pass, CallerPhases
    <2>2. \A i \in Installers : caller'[i] = caller[i]
        BY <2>1
    <2> QED BY <2>1, <2>2
<1>5. CASE EditSource \/ Unharden
    BY <1>5 DEF EditSource, Unharden
<1>6. CASE Meddle
    BY <1>6 DEF Meddle
<1> QED BY <1>2, <1>3, <1>4, <1>5, <1>6 DEF InstallNext
(* Once the tree is sealed, nobody else can change it.                      *)
LEMMA SealedResists ==
    ASSUME InstallInv, ~meddled, Meddle PROVE meddled'
<1>1. CASE sealed
    <2>1. Protected({})
        BY <1>1 DEF InstallInv, Sealing
    <2>2. PICK e \in Entries : \E content \in Variants(e) :
                 tree[e] # content /\ Changeable(e, content)
        BY DEF Meddle
    <2>3. tree[e] # "absent" => e \in denied
        BY <2>1 DEF Protected
    <2>4. Root \in denied
        BY <2>1 DEF Protected
    <2> QED BY <2>2, <2>3, <2>4 DEF Changeable
<1>2. CASE ~sealed
    BY <1>2 DEF Meddle
<1> QED BY <1>1, <1>2

LEMMA RecordingStep ==
    InstallInv /\ [InstallNext]_installVars /\ ~meddled' => Recording'
<1> SUFFICES ASSUME InstallInv, [InstallNext]_installVars, ~meddled' PROVE Recording'
    OBVIOUS
<1>0. /\ caller \in [Callers -> CallerPhases] /\ tree \in [Entries -> Contents]
      /\ todo \in [Callers -> SUBSET (Entries \cup { Root })]
      /\ hand \in [Installers -> Payload \cup { NoFile }]
      /\ CopyList /\ OneOwner
    BY DEF InstallInv, InstallTypeOK
<1>m. Recording \/ Meddle
    BY DEF InstallInv, InstallNext, InstallerStep, ReaderStep, installVars, InstallBegin,
           CheckSource, MakeDirectory, CopyOpen, CopyFill, CopyDone, CompareCopy,
           ManifestOpen, ManifestFill, HardenPlan, HardenEntry, HardenDone, InstallFails,
           LoadBegin, CheckDigest, LoadManifest, Recompute, EditSource, Unharden
<1> USE <1>0, InstallFacts
    DEF Recording, Complete, CopyList, OneOwner, Owning, Unrecorded, Recorded, CallerGoes, Leaves
(* A step of one call that leaves the tree alone.                           *)
<1>1. ASSUME Recording, UNCHANGED tree, NEW c \in Callers, NEW to \in CallerPhases,
             caller' = [caller EXCEPT ![c] = to],
             NEW rest, todo' = todo \/ todo' = [todo EXCEPT ![c] = rest],
             to \notin Owning \cup { "recompute", "accepted" }
      PROVE  Recording'
    BY <1>1
<1>2. ASSUME Recording, NEW i \in Installers, InstallerStep(i) PROVE Recording'
    <2>1. CASE InstallBegin(i) \/ InstallFails(i)
        BY <1>1, <1>2, <2>1 DEF InstallBegin, InstallFails, treeVars, CallerPhases
    <2>2. CASE CheckSource(i)
        BY <1>1, <1>2, <2>2 DEF CheckSource, Pass, treeVars, CallerPhases
    <2>3. CASE MakeDirectory(i)
        BY <1>2, <2>3 DEF MakeDirectory
    <2>4. CASE CopyOpen(i)
        <3>1. caller[i] = "copy"
            BY <2>4 DEF CopyOpen
        <3>2. /\ \A c \in Callers : c # i => caller'[c] = caller[c] /\ todo'[c] = todo[c]
              /\ caller'[i] \in { "copy", "fill" } /\ tree'[Manifest] = tree[Manifest]
            BY <1>0, <2>4 DEF CopyOpen
        <3> QED BY <1>2, <3>1, <3>2
    <2>5. CASE CopyFill(i)
        <3>1. caller[i] = "fill"
            BY <2>5 DEF CopyFill
        <3>2. /\ \A c \in Callers : c # i => caller'[c] = caller[c] /\ todo'[c] = todo[c]
              /\ caller'[i] = "copy" /\ tree'[Manifest] = tree[Manifest]
            BY <1>0, <2>5 DEF CopyFill
        <3> QED BY <1>2, <3>1, <3>2
    <2>6. CASE CopyDone(i)
        BY <1>2, <2>6 DEF CopyDone, treeVars
    <2>7. CASE CompareCopy(i)
        BY <1>2, <2>7 DEF CompareCopy, Pass, treeVars
    <2>8. CASE ManifestOpen(i)
        BY <1>2, <2>8 DEF ManifestOpen
    <2>9. CASE ManifestFill(i)
        BY <1>2, <2>9 DEF ManifestFill
    <2>10. CASE HardenPlan(i) \/ HardenDone(i)
        BY <1>2, <2>10 DEF HardenPlan, HardenDone, treeVars
    <2>11. CASE HardenEntry(i)
        BY <1>2, <2>11 DEF HardenEntry
    <2> QED BY <1>2, <2>1, <2>2, <2>3, <2>4, <2>5, <2>6, <2>7, <2>8, <2>9, <2>10, <2>11
            DEF InstallerStep
<1>3. ASSUME Recording, NEW r \in Readers, ReaderStep(r) PROVE Recording'
    <2>1. UNCHANGED tree /\ \A i \in Installers : caller'[i] = caller[i] /\ todo'[i] = todo[i]
        BY <1>3 DEF ReaderStep, LoadBegin, CheckDigest, LoadManifest, Recompute, Pass, treeVars
    <2>2. \A q \in Readers : caller'[q] \in { "recompute", "accepted" } =>
             caller[q] \in { "recompute", "accepted" } \/ tree[Manifest] = "pinned"
        BY <1>3 DEF ReaderStep, LoadBegin, CheckDigest, LoadManifest, Recompute, Pass
    <2> QED BY <1>3, <2>1, <2>2
<1>4. CASE Meddle
    <2>1. ~meddled
        BY <1>4 DEF Meddle
    <2> QED BY <1>4, <2>1, SealedResists
<1>5. CASE Recording /\ (EditSource \/ Unharden \/ UNCHANGED installVars)
    BY <1>5 DEF EditSource, Unharden, installVars, treeVars
<1> QED BY <1>m, <1>2, <1>3, <1>4, <1>5 DEF InstallNext
LEMMA SealingStep ==
    InstallInv /\ [InstallNext]_installVars /\ ~meddled' => Sealing'
<1> SUFFICES ASSUME InstallInv, [InstallNext]_installVars, ~meddled' PROVE Sealing'
    OBVIOUS
<1>0. /\ caller \in [Callers -> CallerPhases] /\ tree \in [Entries -> Contents]
      /\ todo \in [Callers -> SUBSET (Entries \cup { Root })] /\ denied \subseteq Entries \cup { Root }
      /\ OneOwner
    BY DEF InstallInv, InstallTypeOK
<1>m. Sealing \/ Meddle
    BY DEF InstallInv, InstallNext, InstallerStep, ReaderStep, installVars, InstallBegin,
           CheckSource, MakeDirectory, CopyOpen, CopyFill, CopyDone, CompareCopy,
           ManifestOpen, ManifestFill, HardenPlan, HardenEntry, HardenDone, InstallFails,
           LoadBegin, CheckDigest, LoadManifest, Recompute, EditSource, Unharden
<1> USE <1>0, InstallFacts DEF Sealing, OneOwner, Owning, Unrecorded, Recorded, CallerGoes, Leaves
(* A step of an installer that becomes the owner, or still writes the tree. *)
<1>1. ASSUME NEW i \in Installers, ~sealed', caller'[i] # "deny",
             \A j \in Installers : j # i => caller[j] \notin Owning,
             \A c \in Callers : c # i => caller'[c] = caller[c]
      PROVE  Sealing'
    BY <1>1
<1>2. ASSUME Sealing, NEW i \in Installers, InstallerStep(i) PROVE Sealing'
    <2>1. \A c \in Callers : c # i => caller'[c] = caller[c] /\ todo'[c] = todo[c]
        BY <1>2 DEF InstallerStep, InstallBegin, CheckSource, Pass, MakeDirectory, CopyOpen,
              CopyFill, CopyDone, CompareCopy, ManifestOpen, ManifestFill, HardenPlan,
              HardenEntry, HardenDone, InstallFails
    <2>e. exists => exists'
        BY <1>2 DEF InstallerStep, InstallBegin, CheckSource, MakeDirectory, CopyOpen, CopyFill,
              CopyDone, CompareCopy, ManifestOpen, ManifestFill, HardenPlan, HardenEntry,
              HardenDone, InstallFails, treeVars
    <2>2. CASE /\ UNCHANGED << tree, denied, sealed >> /\ caller[i] # "deny"
               /\ caller'[i] \notin Owning
        BY <1>2, <2>1, <2>2, <2>e DEF Protected
    <2>3. CASE InstallBegin(i)
        BY <2>2, <2>3 DEF InstallBegin, treeVars
    <2>4. CASE CheckSource(i)
        BY <2>2, <2>4 DEF CheckSource, Pass, treeVars
    <2>5. CASE MakeDirectory(i)
        <3>1. sealed /\ exists => caller'[i] = "failed" /\ UNCHANGED << tree, denied, sealed >>
            BY <2>5 DEF MakeDirectory
        <3>2. caller[i] = "mkdir" /\ caller'[i] \in { "failed", "copy" }
              /\ UNCHANGED << tree, denied, sealed >>
            BY <2>5 DEF MakeDirectory
        <3>3. CASE exists
            BY <2>2, <2>5, <3>2, <3>3 DEF MakeDirectory
        <3>4. CASE ~exists
            <4>1. ASSUME sealed PROVE FALSE
                BY <1>2, <3>4, <4>1 DEF InstallInv
            <4> QED BY <1>1, <1>2, <2>1, <3>2, <3>4, <4>1
        <3> QED BY <3>3, <3>4
    <2>6. CASE CopyOpen(i) \/ CopyFill(i) \/ CopyDone(i)
        <3>1. caller[i] \in { "copy", "fill" } /\ caller'[i] # "deny" /\ UNCHANGED << denied, sealed >>
            BY <2>6 DEF CopyOpen, CopyFill, CopyDone, treeVars
        <3> QED BY <1>1, <1>2, <2>1, <3>1
    <2>7. CASE CompareCopy(i) \/ ManifestOpen(i) \/ ManifestFill(i)
        <3>1. caller[i] \in { "compare", "build", "manifest", "record" }
              /\ caller'[i] # "deny" /\ UNCHANGED << denied, sealed >>
            BY <2>7 DEF CompareCopy, Pass, ManifestOpen, ManifestFill, treeVars
        <3> QED BY <1>1, <1>2, <2>1, <3>1
    <2>8. CASE HardenPlan(i)
        <3>1. /\ caller[i] = "plan" /\ caller'[i] = "deny"
              /\ todo'[i] = { Root } \cup { e \in Entries : tree[e] # "absent" }
              /\ UNCHANGED << tree, denied, sealed >>
            BY <2>8 DEF HardenPlan, treeVars
        <3>2. Protected(todo[i])'
            BY <3>1 DEF Protected
        <3>3. \A j \in Installers : j # i => caller'[j] # "deny"
            BY <1>2, <2>1, <3>1
        <3> QED BY <1>2, <3>1, <3>2, <3>3
    <2>9. CASE HardenEntry(i)
        <3>1. caller[i] = "deny" /\ UNCHANGED << tree, sealed >> /\ Protected(todo[i])
            BY <1>2, <2>9 DEF HardenEntry
        <3>2. \/ caller'[i] = "failed"
              \/ /\ caller'[i] = "deny"
                 /\ \E e \in todo[i] : denied' = denied \cup { e } /\ todo'[i] = todo[i] \ { e }
            BY <2>9 DEF HardenEntry
        <3>3. caller'[i] = "deny" => Protected(todo[i])'
            BY <3>1, <3>2 DEF Protected
        <3>4. \A j \in Installers : j # i => caller'[j] # "deny"
            BY <1>2, <2>1, <3>1
        <3>5. ~sealed
            BY <1>2, <3>1
        <3> QED BY <3>1, <3>3, <3>4, <3>5
    <2>10. CASE HardenDone(i)
        <3>1. /\ caller[i] = "deny" /\ caller'[i] = "done" /\ todo[i] = {}
              /\ UNCHANGED << tree, denied >> /\ Protected(todo[i])
            BY <1>2, <2>10 DEF HardenDone, treeVars
        <3>2. Protected({})'
            BY <3>1 DEF Protected
        <3>3. \A j \in Installers : j # i => caller'[j] \notin Owning
            BY <1>2, <2>1, <3>1
        <3>4. exists'
            BY <2>e, <3>1
        <3> QED BY <3>1, <3>2, <3>3, <3>4
    <2>11. CASE InstallFails(i)
        <3>1. caller'[i] = "failed" /\ UNCHANGED << tree, denied, sealed >>
            BY <2>11 DEF InstallFails, treeVars
        <3> QED BY <1>2, <2>1, <2>e, <3>1 DEF Protected
    <2> QED BY <1>2, <2>3, <2>4, <2>5, <2>6, <2>7, <2>8, <2>9, <2>10, <2>11
            DEF InstallerStep
<1>3. ASSUME Sealing, NEW r \in Readers, ReaderStep(r) PROVE Sealing'
    <2>1. /\ UNCHANGED << tree, denied, sealed, exists >>
          /\ \A i \in Installers : caller'[i] = caller[i] /\ todo'[i] = todo[i]
        BY <1>3 DEF ReaderStep, LoadBegin, CheckDigest, LoadManifest, Recompute, Pass, treeVars
    <2> QED BY <1>3, <2>1 DEF Protected
<1>4. CASE Meddle
    <2>1. ~meddled
        BY <1>4 DEF Meddle
    <2> QED BY <1>4, <2>1, SealedResists
<1>5. CASE Sealing /\ Unharden
    <2>1. ~sealed' /\ \A i \in Installers : caller'[i] # "deny"
        BY <1>5 DEF Unharden
    <2> QED BY <2>1
<1>6. CASE Sealing /\ (EditSource \/ UNCHANGED installVars)
    BY <1>6 DEF EditSource, installVars, treeVars, Protected
<1> QED BY <1>m, <1>2, <1>3, <1>4, <1>5, <1>6 DEF InstallNext

LEMMA InstallInvStep == InstallInv /\ [InstallNext]_installVars => InstallInv'
<1>1. InstallInv /\ [InstallNext]_installVars => InstallTypeOK' /\ CopyList'
    BY InstallTypeStep, CopyListStep DEF InstallInv
<1> QED BY <1>1, OwnerStep, RecordingStep, SealingStep DEF InstallInv

(* What a reader accepts is and stays the pinned release, for any release,  *)
(* any number of installers and readers, and whatever fails, as long as     *)
(* others change the tree only once it is hardened.                         *)
THEOREM InstallationStays == InstallSpec => []AcceptedStays
<1>1. InstallInv => AcceptedStays
    BY DEF InstallInv, Recording, Recorded, AcceptedStays
<1> QED BY <1>1, InstallInvInit, InstallInvStep, PTL DEF InstallSpec

(* An installer that ends well leaves the pinned release, likewise.         *)
THEOREM InstallationIsPinned == InstallSpec => []InstalledIsPinned
<1>1. InstallInv => InstalledIsPinned
    BY DEF InstallInv, Recording, Recorded, InstalledIsPinned
<1> QED BY <1>1, InstallInvInit, InstallInvStep, PTL DEF InstallSpec

-----------------------------------------------------------------------------
(* AdapterGenerator.                                                        *)

LEMMA AdapterFacts ==
    /\ Generators \subseteq Processes /\ Checkers \subseteq Processes
    /\ Generators \cap Checkers = {} /\ Processes = Generators \cup Checkers
    /\ RadManifest \in CanonFiles /\ NoPath \notin Paths
    /\ \A runtimes \in SUBSET Runtimes : \A v \in Rendered : Expected(runtimes, v) \subseteq Paths
    /\ \A runtimes \in SUBSET Runtimes : Below(runtimes) \subseteq Paths
    /\ \A runtimes \in SUBSET Runtimes : \A v \in Rendered :
         Expected(runtimes, v) \subseteq Below(runtimes)
<1>1. \A runtimes \in SUBSET Runtimes : \A v \in Rendered : Expected(runtimes, v) \subseteq Paths
    <2> SUFFICES ASSUME NEW runtimes \in SUBSET Runtimes, NEW v \in Rendered,
                        NEW r \in runtimes
                 PROVE  AdapterSet[r][v[RadManifest]] \subseteq Paths
        BY DEF Expected
    <2>1. r \in Runtimes /\ v[RadManifest] \in Versions
        BY AdapterAssumption DEF Rendered
    <2> QED BY <2>1, AdapterAssumption
<1>2. \A runtimes \in SUBSET Runtimes : Below(runtimes) \subseteq Paths
    BY <1>1 DEF Below
<1>3. \A runtimes \in SUBSET Runtimes : \A v \in Rendered :
        Expected(runtimes, v) \subseteq Below(runtimes)
    BY DEF Below
<1> QED BY <1>1, <1>2, <1>3, AdapterAssumption DEF Processes

(* What a run has left is what its phase is about, and it has the canonical *)
(* files as they are unless they were edited since it began.                *)
RunsLeft ==
    \A g \in Processes :
      /\ run[g] = "load" => left[g] \subseteq CanonFiles
      /\ run[g] \in { "write", "fill", "compare" } =>
           left[g] \subseteq Expected(selected[g], loaded[g])
      /\ run[g] = "fill" => writing[g] \in Paths
      /\ run[g] = "walk" => left[g] \subseteq Below(selected[g])

AdapterShape == AdapterTypeOK /\ RunsLeft

LEMMA AdapterShapeInit == AdapterInit => AdapterShape
<1> SUFFICES ASSUME AdapterInit PROVE AdapterShape
    OBVIOUS
<1>1. 1 \in Versions
    BY AdapterAssumption DEF Versions
<1>2. canon \in Rendered
    BY <1>1 DEF AdapterInit, Rendered
<1>3. adapter \in [Paths -> AdapterContents] /\ run \in [Processes -> RunPhases]
    BY DEF AdapterInit, AdapterContents, RunPhases
<1>4. left \in [Processes -> SUBSET (CanonFiles \cup Paths)]
    BY DEF AdapterInit
<1> QED BY <1>2, <1>3, <1>4 DEF AdapterInit, AdapterTypeOK, AdapterShape, RunsLeft

LEMMA AdapterShapeStep == AdapterShape /\ [AdapterNext]_adapterVars => AdapterShape'
<1> SUFFICES ASSUME AdapterShape, [AdapterNext]_adapterVars PROVE AdapterShape'
    OBVIOUS
<1>a. /\ \A v \in Rendered : Rendering(v) \in AdapterContents
      /\ Torn \in AdapterContents /\ HandEdited \in AdapterContents
    BY DEF AdapterContents, Generated
<1>b. ASSUME NEW g \in Processes, NEW p \in Paths, NEW content \in AdapterContents,
             Changes(g, p, content)
      PROVE  adapter' \in [Paths -> AdapterContents] /\ touched' \in [Processes -> SUBSET Paths]
    BY <1>b DEF AdapterShape, AdapterTypeOK, Changes
<1> USE AdapterFacts DEF AdapterShape, AdapterTypeOK, RunsLeft, RunGoes, adapterHistory
<1>1. CASE UNCHANGED adapterVars
    BY <1>1 DEF adapterVars
(* A run takes a step that leaves everything but its own entries alone.     *)
<1>c. ASSUME NEW g \in Processes, NEW to \in RunPhases, run' = [run EXCEPT ![g] = to],
             NEW rest \in SUBSET (CanonFiles \cup Paths),
             left' = [left EXCEPT ![g] = rest],
             to = "load" => rest \subseteq CanonFiles,
             to \in { "write", "fill", "compare" } => rest \subseteq Expected(selected[g], loaded[g]),
             to = "walk" => rest \subseteq Below(selected[g]),
             to # "fill", UNCHANGED << writing, selected, loaded >>
      PROVE  /\ run' \in [Processes -> RunPhases]
             /\ left' \in [Processes -> SUBSET (CanonFiles \cup Paths)]
             /\ RunsLeft'
    <2>1. /\ run'[g] = to /\ left'[g] = rest
          /\ \A h \in Processes : h # g => run'[h] = run[h] /\ left'[h] = left[h]
        BY <1>c
    <2> QED BY <1>c, <2>1 DEF Expected, Below
<1>2. ASSUME NEW g \in Processes, Start(g) PROVE AdapterShape'
    <2>1. /\ run' \in [Processes -> RunPhases]
          /\ left' \in [Processes -> SUBSET (CanonFiles \cup Paths)]
        BY <1>2 DEF Start, RunPhases
    <2>2. selected' \in [Processes -> SUBSET Runtimes]
        BY <1>2, AdapterAssumption DEF Start
    <2>3. touched' \in [Processes -> SUBSET Paths] /\ outdated' \in [Processes -> BOOLEAN]
        BY <1>2 DEF Start
    <2>4. RunsLeft'
        <3>1. /\ \A h \in Processes : h # g =>
                    run'[h] = run[h] /\ left'[h] = left[h] /\ selected'[h] = selected[h]
              /\ run'[g] = "load" /\ left'[g] = CanonFiles
              /\ UNCHANGED << loaded, writing >>
            BY <1>2 DEF Start
        <3> QED BY <3>1 DEF Expected, Below
    <2> QED BY <1>2, <2>1, <2>2, <2>3, <2>4 DEF Start
<1>3. ASSUME NEW g \in Processes, LoadCanon(g) PROVE AdapterShape'
    <2> PICK c \in left[g] : /\ loaded' = [loaded EXCEPT ![g][c] = canon[c]]
                             /\ left' = [left EXCEPT ![g] = @ \ { c }]
        BY <1>3 DEF LoadCanon
    <2>0. run[g] = "load" /\ run' = [run EXCEPT ![g] = "load"] /\ c \in CanonFiles
        BY <1>3 DEF LoadCanon
    <2>1. [loaded[g] EXCEPT ![c] = canon[c]] \in Rendered
        BY <2>0 DEF Rendered
    <2>2. loaded' \in [Processes -> Rendered]
        <3>1. loaded' = [loaded EXCEPT ![g] = [loaded[g] EXCEPT ![c] = canon[c]]]
            OBVIOUS
        <3> QED BY <2>1, <3>1
    <2>3. left' \in [Processes -> SUBSET (CanonFiles \cup Paths)]
        OBVIOUS
    <2>4. run' = run
        BY <2>0
    <2>5. RunsLeft'
        <3>1. \A h \in Processes : h # g => left'[h] = left[h] /\ loaded'[h] = loaded[h]
            OBVIOUS
        <3>2. left'[g] \subseteq left[g]
            OBVIOUS
        <3>3. UNCHANGED << selected, writing >>
            BY <1>3 DEF LoadCanon
        <3> SUFFICES ASSUME NEW h \in Processes
                     PROVE  /\ run[h] = "load" => left'[h] \subseteq CanonFiles
                            /\ run[h] \in { "write", "fill", "compare" } =>
                                 left'[h] \subseteq Expected(selected[h], loaded'[h])
                            /\ run[h] = "fill" => writing[h] \in Paths
                            /\ run[h] = "walk" => left'[h] \subseteq Below(selected[h])
            BY <2>4, <3>3 DEF Expected, Below
        <3>4. CASE h = g
            BY <2>0, <3>2, <3>4
        <3>5. CASE h # g
            BY <3>1, <3>5
        <3> QED BY <3>4, <3>5
    <2> QED BY <1>3, <2>2, <2>3, <2>4, <2>5 DEF LoadCanon
<1>4. ASSUME NEW g \in Processes, Render(g) PROVE AdapterShape'
    <2>1. Expected(selected[g], loaded[g]) \subseteq Paths
        OBVIOUS
    <2>2. \E to \in { "write", "compare" } : run' = [run EXCEPT ![g] = to]
        BY <1>4 DEF Render
    <2>3. { "write", "compare" } \subseteq RunPhases
        BY DEF RunPhases
    <2> QED BY <1>4, <2>1, <2>2, <2>3, <1>c DEF Render
<1>5. ASSUME NEW g \in Generators, WriteOpen(g) PROVE AdapterShape'
    <2> PICK p \in left[g] : /\ Changes(g, p, Torn)
                             /\ writing' = [writing EXCEPT ![g] = p]
                             /\ left' = [left EXCEPT ![g] = @ \ { p }]
        BY <1>5 DEF WriteOpen
    <2>1. run[g] = "write" /\ run' = [run EXCEPT ![g] = "fill"] /\ UNCHANGED << selected, loaded >>
        BY <1>5 DEF WriteOpen
    <2>2. p \in Paths
        BY <2>1
    <2>3. run' \in [Processes -> RunPhases]
        BY <2>1 DEF RunPhases
    <2>4. RunsLeft'
        <3>1. /\ \A h \in Processes : h # g =>
                    run'[h] = run[h] /\ left'[h] = left[h] /\ writing'[h] = writing[h]
              /\ run'[g] = "fill" /\ left'[g] \subseteq left[g] /\ writing'[g] = p
            BY <2>1
        <3> QED BY <2>1, <2>2, <3>1 DEF Expected, Below
    <2>5. left' \in [Processes -> SUBSET (CanonFiles \cup Paths)]
          /\ writing' \in [Processes -> Paths \cup { NoPath }]
        BY <2>2
    <2> QED BY <1>5, <2>2, <2>3, <2>4, <2>5, <1>a, <1>b DEF WriteOpen
<1>6. ASSUME NEW g \in Generators, WriteFill(g) PROVE AdapterShape'
    <2>1. /\ run[g] = "fill" /\ run' = [run EXCEPT ![g] = "write"]
          /\ writing' = [writing EXCEPT ![g] = NoPath] /\ UNCHANGED << selected, loaded, left >>
          /\ Changes(g, writing[g], Rendering(loaded[g]))
        BY <1>6 DEF WriteFill
    <2>2. writing[g] \in Paths
        BY <2>1
    <2>3. run' \in [Processes -> RunPhases] /\ writing' \in [Processes -> Paths \cup { NoPath }]
        BY <2>1 DEF RunPhases
    <2>4. RunsLeft'
        BY <2>1 DEF Expected, Below
    <2>5. adapter' \in [Paths -> AdapterContents] /\ touched' \in [Processes -> SUBSET Paths]
        BY <1>a, <1>b, <2>1, <2>2
    <2> QED BY <1>6, <2>3, <2>4, <2>5 DEF WriteFill
<1>7. ASSUME NEW g \in Generators, AllGenerated(g) PROVE AdapterShape'
    <2>1. left' = [left EXCEPT ![g] = left[g]] /\ run' = [run EXCEPT ![g] = "generated"]
        BY <1>7 DEF AllGenerated
    <2>2. "generated" \in RunPhases
        BY DEF RunPhases
    <2> QED BY <1>7, <2>1, <2>2, <1>c DEF AllGenerated
<1>8. ASSUME NEW g \in Generators, GeneratorKilled(g) PROVE AdapterShape'
    <2>1. /\ left' = [left EXCEPT ![g] = {}] /\ run' = [run EXCEPT ![g] = "killed"]
          /\ writing' = [writing EXCEPT ![g] = NoPath] /\ UNCHANGED << selected, loaded >>
        BY <1>8 DEF GeneratorKilled
    <2>2. run' \in [Processes -> RunPhases] /\ writing' \in [Processes -> Paths \cup { NoPath }]
          /\ left' \in [Processes -> SUBSET (CanonFiles \cup Paths)]
        BY <2>1 DEF RunPhases
    <2>3. RunsLeft'
        BY <2>1 DEF Expected, Below
    <2> QED BY <1>8, <2>2, <2>3 DEF GeneratorKilled
<1>9. ASSUME NEW g \in Checkers, Compare(g) \/ Walk(g) PROVE AdapterShape'
    <2>1. \E p \in left[g] : left' = [left EXCEPT ![g] = left[g] \ { p }]
        BY <1>9 DEF Compare, Walk
    <2>2. run[g] \in { "compare", "walk" } /\ run' = [run EXCEPT ![g] = run[g]]
        BY <1>9 DEF Compare, Walk
    <2>3. problem' \in [Processes -> BOOLEAN]
        BY <1>9 DEF Compare, Walk
    <2>4. UNCHANGED << writing, selected, loaded >>
        BY <1>9 DEF Compare, Walk
    <2>5. /\ run' \in [Processes -> RunPhases]
          /\ left' \in [Processes -> SUBSET (CanonFiles \cup Paths)]
          /\ RunsLeft'
        BY <2>1, <2>2, <2>4, <1>c
    <2> QED BY <1>9, <2>3, <2>5 DEF Compare, Walk
<1>10. ASSUME NEW g \in Checkers, BeginWalk(g) PROVE AdapterShape'
    <2>1. Below(selected[g]) \ Expected(selected[g], loaded[g]) \in SUBSET (CanonFiles \cup Paths)
        OBVIOUS
    <2>2. "walk" \in RunPhases
        BY DEF RunPhases
    <2>3. /\ run' = [run EXCEPT ![g] = "walk"] /\ UNCHANGED << writing, selected, loaded >>
          /\ left' = [left EXCEPT ![g] = Below(selected[g]) \ Expected(selected[g], loaded[g])]
        BY <1>10 DEF BeginWalk
    <2>4. /\ run' \in [Processes -> RunPhases]
          /\ left' \in [Processes -> SUBSET (CanonFiles \cup Paths)]
          /\ RunsLeft'
        BY <2>1, <2>2, <2>3, <1>c
    <2> QED BY <1>10, <2>4 DEF BeginWalk
<1>11. ASSUME NEW g \in Checkers, Verdict(g) PROVE AdapterShape'
    <2>1. left' = [left EXCEPT ![g] = left[g]] /\ UNCHANGED << writing, selected, loaded >>
          /\ \E to \in { "in sync", "drift" } : run' = [run EXCEPT ![g] = to]
        BY <1>11 DEF Verdict
    <2>2. { "in sync", "drift" } \subseteq RunPhases
        BY DEF RunPhases
    <2>3. /\ run' \in [Processes -> RunPhases]
          /\ left' \in [Processes -> SUBSET (CanonFiles \cup Paths)]
          /\ RunsLeft'
        BY <2>1, <2>2, <1>c
    <2> QED BY <1>11, <2>3 DEF Verdict
<1>12. CASE EditCanon
    <2>1. canon' \in Rendered
        BY <1>12, AdapterAssumption DEF EditCanon, Rendered, Versions
    <2> QED BY <1>12, <2>1 DEF EditCanon, Expected, Below
<1>13. CASE HandEdit
    BY <1>13, <1>a DEF HandEdit, Expected, Below
<1> QED BY <1>1, <1>2, <1>3, <1>4, <1>5, <1>6, <1>7, <1>8, <1>9, <1>10, <1>11, <1>12, <1>13
        DEF AdapterNext
HasRendered == { "write", "fill", "generated", "compare", "walk", "in sync", "drift" }

LoadedRight(g) ==
    ~outdated[g] =>
      /\ run[g] = "load" => \A c \in CanonFiles \ left[g] : loaded[g][c] = canon[c]
      /\ run[g] \in HasRendered => loaded[g] = canon

(* What a generator has written is current, unless others changed it since. *)
WrittenRight(g) ==
    ~outdated[g] =>
      /\ run[g] \in { "write", "generated" } =>
           \A p \in Expected(selected[g], canon) \ (left[g] \cup touched[g]) : Current(g, p)
      /\ run[g] = "fill" =>
           \A p \in Expected(selected[g], canon) \ (left[g] \cup touched[g] \cup { writing[g] }) :
              Current(g, p)
      /\ run[g] = "generated" => left[g] = {}

(* What a check has gone over without finding a problem is current, and a   *)
(* problem it has found is one.                                             *)
GoneOver(g) ==
    CASE run[g] = "compare" -> Expected(selected[g], canon) \ left[g]
      [] run[g] = "walk" -> Below(selected[g]) \ left[g]
      [] OTHER -> Below(selected[g])

LookedRight(g) ==
    /\ run[g] \in { "idle", "load" } => ~problem[g]
    /\ ~outdated[g] =>
         /\ run[g] \in { "compare", "walk", "in sync" } /\ ~problem[g] =>
              \A p \in GoneOver(g) \ touched[g] : Current(g, p)
         /\ run[g] \in { "compare", "walk", "drift" } /\ problem[g] =>
              \E p \in Below(selected[g]) : p \in touched[g] \/ ~Current(g, p)
    /\ run[g] = "walk" => left[g] \cap Expected(selected[g], loaded[g]) = {}
    /\ run[g] = "in sync" => ~problem[g]
    /\ run[g] = "drift" => problem[g]

Loaded == \A g \in Processes : LoadedRight(g)
Written == \A g \in Generators : WrittenRight(g)
Looked == \A g \in Checkers : LookedRight(g)

AdapterInv == AdapterShape /\ Loaded /\ Written /\ Looked

LEMMA AdapterInvInit == AdapterInit => AdapterInv
<1> SUFFICES ASSUME AdapterInit PROVE AdapterInv
    OBVIOUS
<1>1. \A g \in Processes : run[g] = "idle" /\ problem[g] = FALSE
    BY DEF AdapterInit
<1> QED BY <1>1, AdapterShapeInit, AdapterFacts
        DEF AdapterInv, Loaded, Written, Looked, LoadedRight, WrittenRight, LookedRight,
            HasRendered

LEMMA SameVersions ==
    ASSUME NEW u \in Rendered, NEW v \in Rendered, \A c \in CanonFiles : u[c] = v[c]
    PROVE  u = v
BY DEF Rendered

LEMMA LoadedStep == AdapterInv /\ [AdapterNext]_adapterVars => Loaded'
<1> SUFFICES ASSUME AdapterInv, [AdapterNext]_adapterVars,
                    NEW h \in Processes
             PROVE  LoadedRight(h)'
    BY DEF Loaded
<1>0. /\ canon \in Rendered /\ run \in [Processes -> RunPhases]
      /\ loaded \in [Processes -> Rendered] /\ outdated \in [Processes -> BOOLEAN]
      /\ left \in [Processes -> SUBSET (CanonFiles \cup Paths)]
    BY DEF AdapterInv, AdapterShape, AdapterTypeOK
<1>l. LoadedRight(h)
    BY DEF AdapterInv, Loaded
<1> USE <1>0, <1>l, AdapterFacts DEF LoadedRight, HasRendered, RunGoes, adapterHistory
<1>1. ASSUME UNCHANGED canon, outdated'[h] = outdated[h], run'[h] = run[h],
             left'[h] = left[h], loaded'[h] = loaded[h]
      PROVE  LoadedRight(h)'
    BY <1>1
(* A run that has rendered its adapters keeps the versions it has loaded.   *)
<1>2. ASSUME UNCHANGED << canon, loaded, outdated >>,
             run[h] \in HasRendered \/ run'[h] = "killed", run'[h] # "load"
      PROVE  LoadedRight(h)'
    BY <1>2
<1>3. ASSUME NEW g \in Processes, Start(g) PROVE LoadedRight(h)'
    <2>1. CASE h = g
        <3>1. run'[h] = "load" /\ left'[h] = CanonFiles
            BY <1>3, <2>1 DEF Start
        <3> QED BY <3>1
    <2>2. CASE h # g
        BY <1>1, <1>3, <2>2 DEF Start
    <2> QED BY <2>1, <2>2
<1>4. ASSUME NEW g \in Processes, LoadCanon(g) PROVE LoadedRight(h)'
    <2> PICK c \in left[g] : /\ loaded' = [loaded EXCEPT ![g][c] = canon[c]]
                             /\ left' = [left EXCEPT ![g] = @ \ { c }]
        BY <1>4 DEF LoadCanon
    <2>0. /\ run[g] = "load" /\ run' = [run EXCEPT ![g] = "load"]
          /\ UNCHANGED << canon, outdated >>
        BY <1>4 DEF LoadCanon
    <2>1. run' = run
        BY <2>0
    <2>2. CASE h = g
        <3>1. left'[h] = left[h] \ { c }
            BY <2>2
        <3>2. \A d \in CanonFiles : loaded'[h][d] = IF d = c THEN canon[c] ELSE loaded[h][d]
            BY <2>2 DEF Rendered
        <3> QED BY <2>0, <2>1, <2>2, <3>1, <3>2
    <2>3. CASE h # g
        BY <1>1, <2>0, <2>1, <2>3
    <2> QED BY <2>2, <2>3
<1>5. ASSUME NEW g \in Processes, Render(g) PROVE LoadedRight(h)'
    <2>1. /\ run[g] = "load" /\ left[g] = {} /\ UNCHANGED << canon, loaded, outdated >>
          /\ run'[g] # "load"
        BY <1>5 DEF Render
    <2>2. CASE h = g
        <3>1. ~outdated[h] => \A c \in CanonFiles : loaded[h][c] = canon[c]
            BY <2>1, <2>2
        <3>2. ~outdated[h] => loaded[h] = canon
            BY <3>1, SameVersions
        <3> QED BY <2>1, <2>2, <3>2
    <2>3. CASE h # g
        BY <1>1, <1>5, <2>1, <2>3 DEF Render
    <2> QED BY <2>2, <2>3
<1>6. ASSUME NEW g \in Generators,
             WriteOpen(g) \/ WriteFill(g) \/ AllGenerated(g) \/ GeneratorKilled(g)
      PROVE  LoadedRight(h)'
    <2>1. UNCHANGED << canon, loaded, outdated >>
        BY <1>6 DEF WriteOpen, WriteFill, AllGenerated, GeneratorKilled
    <2>2. CASE h = g
        BY <1>2, <1>6, <2>1, <2>2 DEF WriteOpen, WriteFill, AllGenerated, GeneratorKilled
    <2>3. CASE h # g
        <3>1. run'[h] = run[h] /\ left'[h] = left[h]
            BY <1>6, <2>3 DEF WriteOpen, WriteFill, AllGenerated, GeneratorKilled
        <3> QED BY <1>1, <2>1, <3>1
    <2> QED BY <2>2, <2>3
<1>7. ASSUME NEW g \in Checkers, Compare(g) \/ BeginWalk(g) \/ Walk(g) \/ Verdict(g)
      PROVE  LoadedRight(h)'
    <2>1. UNCHANGED << canon, loaded, outdated >>
        BY <1>7 DEF Compare, BeginWalk, Walk, Verdict
    <2>2. CASE h = g
        BY <1>2, <1>7, <2>1, <2>2 DEF Compare, BeginWalk, Walk, Verdict
    <2>3. CASE h # g
        <3>1. run'[h] = run[h] /\ left'[h] = left[h]
            BY <1>7, <2>3 DEF Compare, BeginWalk, Walk, Verdict
        <3> QED BY <1>1, <2>1, <3>1
    <2> QED BY <2>2, <2>3
<1>8. CASE EditCanon
    BY <1>8 DEF EditCanon
<1>9. CASE HandEdit \/ UNCHANGED adapterVars
    BY <1>1, <1>9 DEF HandEdit, adapterVars
<1> QED BY <1>3, <1>4, <1>5, <1>6, <1>7, <1>8, <1>9 DEF AdapterNext
(* A step of others changes only adapters that count as touched.            *)
LEMMA OthersStep ==
    ASSUME AdapterShape, NEW h \in Processes, UNCHANGED canon,
           run'[h] = run[h], selected'[h] = selected[h], loaded'[h] = loaded[h],
           left'[h] = left[h], writing'[h] = writing[h], problem'[h] = problem[h],
           outdated'[h] = outdated[h], touched[h] \subseteq touched'[h],
           \A p \in Paths \ touched'[h] : adapter'[p] = adapter[p]
    PROVE  /\ WrittenRight(h) => WrittenRight(h)'
           /\ LookedRight(h) => LookedRight(h)'
<1>1. /\ selected[h] \in SUBSET Runtimes /\ canon \in Rendered
      /\ Below(selected[h]) \subseteq Paths /\ Expected(selected[h], canon) \subseteq Paths
    BY AdapterFacts DEF AdapterShape, AdapterTypeOK
<1>2. \A p \in Paths \ touched'[h] : Current(h, p)' = Current(h, p)
    BY DEF Current, Expected
<1>3. GoneOver(h)' = GoneOver(h) /\ GoneOver(h) \subseteq Paths
    BY <1>1 DEF GoneOver, Expected, Below
<1>4. Expected(selected[h], canon)' = Expected(selected[h], canon)
      /\ Expected(selected[h], loaded[h])' = Expected(selected[h], loaded[h])
      /\ Below(selected[h])' = Below(selected[h])
    BY DEF Expected, Below
<1>5. WrittenRight(h) => WrittenRight(h)'
    BY <1>1, <1>2, <1>4 DEF WrittenRight
<1>6. LookedRight(h) => LookedRight(h)'
    BY <1>1, <1>2, <1>3, <1>4 DEF LookedRight
<1> QED BY <1>5, <1>6

LEMMA OwnWrite ==
    ASSUME AdapterInv, NEW g \in Generators,
           WriteOpen(g) \/ WriteFill(g) \/ AllGenerated(g) \/ GeneratorKilled(g)
    PROVE  WrittenRight(g)'
<1>0. /\ canon \in Rendered /\ run \in [Processes -> RunPhases]
      /\ adapter \in [Paths -> AdapterContents] /\ g \in Processes
      /\ left \in [Processes -> SUBSET (CanonFiles \cup Paths)]
      /\ writing \in [Processes -> Paths \cup { NoPath }]
      /\ touched \in [Processes -> SUBSET Paths] /\ selected \in [Processes -> SUBSET Runtimes]
      /\ Expected(selected[g], canon) \subseteq Paths
    BY AdapterFacts DEF AdapterInv, AdapterShape, AdapterTypeOK
<1>1. /\ WrittenRight(g) /\ (run[g] = "fill" => writing[g] \in Paths)
      /\ ~outdated[g] /\ run[g] \in HasRendered => loaded[g] = canon
    BY <1>0 DEF AdapterInv, Written, Loaded, LoadedRight, AdapterShape, RunsLeft
<1>2. UNCHANGED << canon, selected, loaded, outdated >>
    BY DEF WriteOpen, WriteFill, AllGenerated, GeneratorKilled, adapterHistory
<1>3. Expected(selected[g], canon)' = Expected(selected[g], canon)
    BY <1>2 DEF Expected
<1>4. ASSUME NEW p \in Expected(selected[g], canon)
      PROVE  /\ Current(g, p) <=> adapter[p] = Rendering(canon)
             /\ Current(g, p)' <=> adapter'[p] = Rendering(canon)
    BY <1>2, <1>3, <1>4 DEF Current, Rendering
<1>5. CASE WriteOpen(g)
    <2> PICK q \in left[g] : /\ Changes(g, q, Torn)
                             /\ writing' = [writing EXCEPT ![g] = q]
                             /\ left' = [left EXCEPT ![g] = @ \ { q }]
        BY <1>5 DEF WriteOpen
    <2>1. /\ run[g] = "write" /\ run'[g] = "fill" /\ left'[g] = left[g] \ { q }
          /\ writing'[g] = q /\ touched'[g] = touched[g]
          /\ \A p \in Paths : p # q => adapter'[p] = adapter[p]
        BY <1>0, <1>5 DEF WriteOpen, RunGoes, Changes
    <2>2. ASSUME ~outdated[g],
                 NEW p \in Expected(selected[g], canon) \ (left'[g] \cup touched'[g] \cup { q })
          PROVE  Current(g, p)'
        BY <1>0, <1>1, <1>4, <2>1, <2>2 DEF WrittenRight
    <2> QED BY <1>2, <1>3, <2>1, <2>2 DEF WrittenRight
<1>6. CASE WriteFill(g)
    <2>1. /\ run[g] = "fill" /\ run'[g] = "write" /\ left' = left
          /\ touched'[g] = touched[g] /\ writing[g] \in Paths
          /\ adapter' = [adapter EXCEPT ![writing[g]] = Rendering(loaded[g])]
        BY <1>0, <1>1, <1>6 DEF WriteFill, RunGoes, Changes
    <2>2. ASSUME ~outdated[g], NEW p \in Expected(selected[g], canon) \ (left[g] \cup touched[g])
          PROVE  Current(g, p)'
        <3>1. CASE p = writing[g]
            BY <1>0, <1>1, <1>4, <2>1, <2>2, <3>1 DEF HasRendered
        <3>2. CASE p # writing[g]
            BY <1>0, <1>1, <1>4, <2>1, <2>2, <3>2 DEF WrittenRight
        <3> QED BY <3>1, <3>2
    <2> QED BY <1>2, <1>3, <2>1, <2>2 DEF WrittenRight
<1>7. CASE AllGenerated(g)
    <2>1. /\ run[g] = "write" /\ run'[g] = "generated" /\ left' = left /\ left[g] = {}
          /\ touched' = touched /\ adapter' = adapter
        BY <1>0, <1>7 DEF AllGenerated, RunGoes, adapterHistory
    <2>2. ASSUME ~outdated[g], NEW p \in Expected(selected[g], canon) \ (left[g] \cup touched[g])
          PROVE  Current(g, p)'
        BY <1>1, <1>4, <2>1, <2>2 DEF WrittenRight
    <2> QED BY <1>2, <1>3, <2>1, <2>2 DEF WrittenRight
<1>8. CASE GeneratorKilled(g)
    <2>1. run'[g] = "killed"
        BY <1>0, <1>8 DEF GeneratorKilled, RunGoes
    <2> QED BY <2>1 DEF WrittenRight
<1> QED BY <1>5, <1>6, <1>7, <1>8

LEMMA OwnLook ==
    ASSUME AdapterInv, NEW g \in Checkers,
           Compare(g) \/ BeginWalk(g) \/ Walk(g) \/ Verdict(g)
    PROVE  LookedRight(g)'
<1>0. /\ canon \in Rendered /\ run \in [Processes -> RunPhases] /\ g \in Processes
      /\ left \in [Processes -> SUBSET (CanonFiles \cup Paths)]
      /\ problem \in [Processes -> BOOLEAN] /\ selected \in [Processes -> SUBSET Runtimes]
      /\ Expected(selected[g], canon) \subseteq Below(selected[g])
    BY AdapterFacts DEF AdapterInv, AdapterShape, AdapterTypeOK
<1>1. /\ LookedRight(g)
      /\ ~outdated[g] /\ run[g] \in HasRendered => loaded[g] = canon
      /\ run[g] = "compare" => left[g] \subseteq Expected(selected[g], loaded[g])
      /\ run[g] = "walk" => left[g] \subseteq Below(selected[g])
    BY <1>0 DEF AdapterInv, Looked, Loaded, LoadedRight, AdapterShape, RunsLeft
<1>2. UNCHANGED << canon, adapter, selected, loaded, outdated, touched >>
    BY DEF Compare, BeginWalk, Walk, Verdict, adapterHistory
<1>3. /\ \A p : Current(g, p)' = Current(g, p)
      /\ Expected(selected[g], canon)' = Expected(selected[g], canon)
      /\ Expected(selected[g], loaded[g])' = Expected(selected[g], loaded[g])
      /\ Below(selected[g])' = Below(selected[g])
    BY <1>2 DEF Current, Expected, Below, Rendering, Marked
<1>4. CASE Compare(g)
    <2> PICK q \in left[g] :
          /\ problem' = [problem EXCEPT ![g] = @ \/ adapter[q] # Rendering(loaded[g])]
          /\ left' = [left EXCEPT ![g] = @ \ { q }]
        BY <1>4 DEF Compare
    <2>1. /\ run[g] = "compare" /\ run'[g] = "compare" /\ left'[g] = left[g] \ { q }
          /\ problem'[g] = (problem[g] \/ adapter[q] # Rendering(loaded[g]))
          /\ q \in Expected(selected[g], loaded[g])
        BY <1>0, <1>1, <1>4 DEF Compare, RunGoes
    <2>2. ~outdated[g] => (Current(g, q) <=> adapter[q] = Rendering(loaded[g]))
        BY <1>1, <2>1 DEF Current, HasRendered
    <2>3. GoneOver(g)' \subseteq GoneOver(g) \cup { q }
        BY <1>3, <2>1 DEF GoneOver
    <2>4. ~outdated[g] => q \in Below(selected[g])
        BY <1>0, <1>1, <2>1 DEF HasRendered
    <2>5. ASSUME ~outdated[g], ~problem'[g]
          PROVE  \A p \in GoneOver(g)' \ touched[g] : Current(g, p)
        BY <1>1, <2>1, <2>2, <2>3, <2>5 DEF LookedRight
    <2>6. ASSUME ~outdated[g], problem'[g]
          PROVE  \E p \in Below(selected[g]) : p \in touched[g] \/ ~Current(g, p)
        BY <1>1, <2>1, <2>2, <2>4, <2>6 DEF LookedRight
    <2> QED BY <1>2, <1>3, <2>1, <2>5, <2>6 DEF LookedRight
<1>5. CASE BeginWalk(g)
    <2>1. /\ run[g] = "compare" /\ run'[g] = "walk" /\ left[g] = {} /\ problem' = problem
          /\ left'[g] = Below(selected[g]) \ Expected(selected[g], loaded[g])
        BY <1>0, <1>5 DEF BeginWalk, RunGoes
    <2>2. ~outdated[g] => GoneOver(g)' \subseteq GoneOver(g)
        BY <1>0, <1>1, <1>3, <2>1 DEF GoneOver, HasRendered
    <2>3. ASSUME ~outdated[g], ~problem[g]
          PROVE  \A p \in GoneOver(g)' \ touched[g] : Current(g, p)
        BY <1>1, <2>1, <2>2, <2>3 DEF LookedRight
    <2>4. ASSUME ~outdated[g], problem[g]
          PROVE  \E p \in Below(selected[g]) : p \in touched[g] \/ ~Current(g, p)
        BY <1>1, <2>1, <2>4 DEF LookedRight
    <2> QED BY <1>2, <1>3, <2>1, <2>3, <2>4 DEF LookedRight
<1>6. CASE Walk(g)
    <2> PICK q \in left[g] : /\ problem' = [problem EXCEPT ![g] = @ \/ Marked(adapter[q])]
                             /\ left' = [left EXCEPT ![g] = @ \ { q }]
        BY <1>6 DEF Walk
    <2>1. /\ run[g] = "walk" /\ run'[g] = "walk" /\ left'[g] = left[g] \ { q }
          /\ problem'[g] = (problem[g] \/ Marked(adapter[q]))
          /\ q \in Below(selected[g]) /\ q \notin Expected(selected[g], loaded[g])
        BY <1>0, <1>1, <1>6 DEF Walk, RunGoes, LookedRight
    <2>2. ~outdated[g] => (Current(g, q) <=> ~Marked(adapter[q]))
        BY <1>1, <2>1 DEF Current, HasRendered
    <2>3. GoneOver(g)' \subseteq GoneOver(g) \cup { q }
        BY <1>3, <2>1 DEF GoneOver
    <2>4. ASSUME ~outdated[g], ~problem'[g]
          PROVE  \A p \in GoneOver(g)' \ touched[g] : Current(g, p)
        BY <1>1, <2>1, <2>2, <2>3, <2>4 DEF LookedRight
    <2>5. ASSUME ~outdated[g], problem'[g]
          PROVE  \E p \in Below(selected[g]) : p \in touched[g] \/ ~Current(g, p)
        BY <1>1, <2>1, <2>2, <2>5 DEF LookedRight
    <2>6. left'[g] \cap Expected(selected[g], loaded[g]) = {}
        BY <1>1, <2>1 DEF LookedRight
    <2> QED BY <1>2, <1>3, <2>1, <2>4, <2>5, <2>6 DEF LookedRight
<1>7. CASE Verdict(g)
    <2>1. /\ run[g] = "walk" /\ run'[g] = IF problem[g] THEN "drift" ELSE "in sync"
          /\ left[g] = {} /\ problem' = problem
        BY <1>0, <1>7 DEF Verdict, RunGoes
    <2>2. GoneOver(g)' = GoneOver(g)
        BY <1>3, <2>1 DEF GoneOver
    <2> QED BY <1>1, <1>2, <1>3, <2>1, <2>2 DEF LookedRight
<1> QED BY <1>4, <1>5, <1>6, <1>7
LEMMA AdapterInvStep == AdapterInv /\ [AdapterNext]_adapterVars => AdapterInv'
<1> SUFFICES ASSUME AdapterInv, [AdapterNext]_adapterVars PROVE AdapterInv'
    OBVIOUS
<1>1. AdapterShape' /\ Loaded'
    BY AdapterShapeStep, LoadedStep DEF AdapterInv
<1>0. /\ AdapterShape
      /\ \A h \in Generators : h \in Processes /\ WrittenRight(h)
      /\ \A h \in Checkers : h \in Processes /\ LookedRight(h)
    BY AdapterFacts DEF AdapterInv, Written, Looked
<1> USE AdapterFacts
(* A step of run g that renders nothing and looks at nothing.               *)
<1>2. ASSUME NEW g \in Processes, NEW h \in Processes, h # g,
             Start(g) \/ LoadCanon(g) \/ Render(g)
      PROVE  (WrittenRight(h) => WrittenRight(h)') /\ (LookedRight(h) => LookedRight(h)')
    <2>1. /\ UNCHANGED << canon, adapter, writing, problem >>
          /\ run'[h] = run[h] /\ selected'[h] = selected[h] /\ loaded'[h] = loaded[h]
          /\ left'[h] = left[h] /\ outdated'[h] = outdated[h] /\ touched'[h] = touched[h]
        BY <1>0, <1>2 DEF Start, LoadCanon, Render, RunGoes, adapterHistory, AdapterShape,
              AdapterTypeOK
    <2> QED BY <1>0, <2>1, OthersStep
<1>3. ASSUME NEW g \in Generators, NEW h \in Processes, h # g,
             WriteOpen(g) \/ WriteFill(g) \/ AllGenerated(g) \/ GeneratorKilled(g)
      PROVE  (WrittenRight(h) => WrittenRight(h)') /\ (LookedRight(h) => LookedRight(h)')
    <2>1. /\ UNCHANGED << canon, selected, loaded, problem, outdated >>
          /\ run'[h] = run[h] /\ left'[h] = left[h] /\ writing'[h] = writing[h]
        BY <1>0, <1>3 DEF WriteOpen, WriteFill, AllGenerated, GeneratorKilled, RunGoes,
              adapterHistory, AdapterShape, AdapterTypeOK
    <2>2. \/ UNCHANGED << adapter, touched >>
          \/ \E p \in CanonFiles \cup Paths \cup { NoPath } : \E content : Changes(g, p, content)
        <3>1. left[g] \subseteq CanonFiles \cup Paths /\ writing[g] \in Paths \cup { NoPath }
            BY <1>0 DEF AdapterShape, AdapterTypeOK
        <3> QED BY <1>3, <3>1 DEF WriteOpen, WriteFill, AllGenerated, GeneratorKilled,
                adapterHistory
    <2>3. touched[h] \subseteq touched'[h]
        BY <1>3, <2>2 DEF Changes
    <2>4. \A p \in Paths \ touched'[h] : adapter'[p] = adapter[p]
        BY <1>0, <1>3, <2>2 DEF Changes, AdapterShape, AdapterTypeOK
    <2> QED BY <1>0, <2>1, <2>3, <2>4, OthersStep
<1>4. ASSUME NEW g \in Checkers, NEW h \in Processes, h # g,
             Compare(g) \/ BeginWalk(g) \/ Walk(g) \/ Verdict(g)
      PROVE  (WrittenRight(h) => WrittenRight(h)') /\ (LookedRight(h) => LookedRight(h)')
    <2>1. /\ UNCHANGED << canon, adapter, selected, loaded, writing, outdated, touched >>
          /\ run'[h] = run[h] /\ left'[h] = left[h] /\ problem'[h] = problem[h]
        BY <1>0, <1>4 DEF Compare, BeginWalk, Walk, Verdict, RunGoes, adapterHistory,
              AdapterShape, AdapterTypeOK
    <2> QED BY <1>0, <2>1, OthersStep
(* Each kind of step.                                                       *)
<1>5. ASSUME NEW g \in Processes, Start(g) \/ LoadCanon(g) \/ Render(g)
      PROVE  (g \in Generators => WrittenRight(g)') /\ (g \in Checkers => LookedRight(g)')
    <2>0. /\ run \in [Processes -> RunPhases]
          /\ left \in [Processes -> SUBSET (CanonFiles \cup Paths)] /\ LoadedRight(g)'
        BY <1>0, <1>1 DEF AdapterShape, AdapterTypeOK, Loaded
    <2>1. run[g] \in { "idle", "load" } /\ problem' = problem
        BY <1>5 DEF Start, LoadCanon, Render, RunGoes
    <2>2. g \in Checkers => ~problem'[g]
        BY <1>0, <2>1 DEF LookedRight
    <2>3. CASE run'[g] = "load"
        BY <2>2, <2>3 DEF WrittenRight, LookedRight
    <2>4. CASE Render(g)
        <3>1. /\ run'[g] = IF g \in Generators THEN "write" ELSE "compare"
              /\ left'[g] = Expected(selected[g], loaded[g])
              /\ UNCHANGED << canon, selected, loaded, outdated >>
            BY <2>0, <2>4 DEF Render, RunGoes, adapterHistory
        <3>2. ~outdated'[g] => Expected(selected[g], canon)' = left'[g]
            BY <2>0, <3>1 DEF LoadedRight, HasRendered, Expected
        <3>3. g \in Generators => WrittenRight(g)'
            BY <3>1, <3>2 DEF WrittenRight
        <3>4. g \in Checkers => LookedRight(g)'
            BY <2>2, <3>1, <3>2 DEF LookedRight, GoneOver
        <3> QED BY <3>3, <3>4
    <2> QED BY <1>5, <2>0, <2>3, <2>4 DEF Start, LoadCanon, RunGoes
<1>6. ASSUME NEW g \in Processes, Start(g) \/ LoadCanon(g) \/ Render(g)
      PROVE  Written' /\ Looked'
    <2>1. ASSUME NEW h \in Generators PROVE WrittenRight(h)'
        BY <1>0, <1>2, <1>5, <1>6
    <2>2. ASSUME NEW h \in Checkers PROVE LookedRight(h)'
        BY <1>0, <1>2, <1>5, <1>6
    <2> QED BY <2>1, <2>2 DEF Written, Looked
<1>7. ASSUME NEW g \in Generators,
             WriteOpen(g) \/ WriteFill(g) \/ AllGenerated(g) \/ GeneratorKilled(g)
      PROVE  Written' /\ Looked'
    <2>1. ASSUME NEW h \in Generators PROVE WrittenRight(h)'
        BY <1>0, <1>3, <1>7, OwnWrite
    <2>2. ASSUME NEW h \in Checkers PROVE LookedRight(h)'
        BY <1>0, <1>3, <1>7
    <2> QED BY <2>1, <2>2 DEF Written, Looked
<1>8. ASSUME NEW g \in Checkers, Compare(g) \/ BeginWalk(g) \/ Walk(g) \/ Verdict(g)
      PROVE  Written' /\ Looked'
    <2>1. ASSUME NEW h \in Generators PROVE WrittenRight(h)'
        BY <1>0, <1>4, <1>8
    <2>2. ASSUME NEW h \in Checkers PROVE LookedRight(h)'
        BY <1>0, <1>4, <1>8, OwnLook
    <2> QED BY <2>1, <2>2 DEF Written, Looked
<1>9. CASE EditCanon
    <2>1. /\ UNCHANGED << run, problem, left, selected, loaded >>
          /\ \A h \in Processes : outdated'[h]
        BY <1>9 DEF EditCanon
    <2>2. ASSUME NEW h \in Generators PROVE WrittenRight(h)'
        BY <2>1 DEF WrittenRight
    <2>3. ASSUME NEW h \in Checkers PROVE LookedRight(h)'
        <3>1. Expected(selected[h], loaded[h])' = Expected(selected[h], loaded[h])
            BY <2>1 DEF Expected
        <3>2. LookedRight(h) /\ outdated'[h]
            BY <1>0, <2>1
        <3> QED BY <2>1, <3>1, <3>2 DEF LookedRight
    <2> QED BY <1>1, <2>2, <2>3 DEF AdapterInv, Written, Looked
<1>10. ASSUME HandEdit \/ UNCHANGED adapterVars, NEW h \in Processes
       PROVE  (WrittenRight(h) => WrittenRight(h)') /\ (LookedRight(h) => LookedRight(h)')
    <2>1. /\ UNCHANGED << canon, run, selected, loaded, left, writing, problem, outdated >>
          /\ touched[h] \subseteq touched'[h]
          /\ \A p \in Paths \ touched'[h] : adapter'[p] = adapter[p]
        BY <1>0, <1>10 DEF HandEdit, adapterVars, adapterHistory, AdapterShape, AdapterTypeOK
    <2> QED BY <1>0, <2>1, OthersStep
<1>11. CASE HandEdit \/ UNCHANGED adapterVars
    BY <1>0, <1>1, <1>10, <1>11 DEF AdapterInv, Written, Looked
<1> QED BY <1>1, <1>6, <1>7, <1>8, <1>9, <1>11 DEF AdapterInv, AdapterNext

(* The verdict of a check can be relied on, for any runtimes, adapters and  *)
(* canonical files, however runs overlap, die half-way or are overtaken by  *)
(* edits.                                                                   *)
THEOREM AdaptersAreRight == AdapterSpec => []VerdictIsRight
<1>1. AdapterInv => VerdictIsRight
    BY AdapterFacts DEF AdapterInv, Looked, LookedRight, GoneOver, VerdictIsRight
<1> QED BY <1>1, AdapterInvInit, AdapterInvStep, PTL DEF AdapterSpec

(* So can the end of a generator that nobody disturbed, whatever the tree   *)
(* held and whatever runs before it left half done.                         *)
THEOREM GeneratorRepairs == AdapterSpec => []GeneratedIsCurrent
<1>1. AdapterInv => GeneratedIsCurrent
    BY AdapterFacts DEF AdapterInv, Written, WrittenRight, GeneratedIsCurrent
<1> QED BY <1>1, AdapterInvInit, AdapterInvStep, PTL DEF AdapterSpec

-----------------------------------------------------------------------------
(* PathPolicy.                                                              *)

(* The entry Windows has reached is the sequence of the names, as long as   *)
(* the path is one that validate_relative_path accepts.                     *)
PolicyInv ==
    /\ PolicyTypeOK
    /\ path = << >> => reached = << >>
    /\ Valid(path) => reached = Identity(path)

LEMMA StepType ==
    ASSUME NEW found \in Seq(Names \cup { ".." }), NEW segment \in Segment
    PROVE  Step(found, segment) \in Seq(Names \cup { ".." })
<1>1. OutsideProject \in Seq(Names \cup { ".." })
    BY DEF OutsideProject
<1>2. found # << >> => Ext!Front(found) \in Seq(Names \cup { ".." })
    BY DEF Ext!Front
<1>3. segment.name \in Names \cup Moves
    BY DEF Segment
<1>4. CASE segment.name \in Moves
    BY <1>1, <1>2, <1>4 DEF Step, Moves
<1>5. CASE segment.name \notin Moves
    <2>1. Append(found, segment.name) \in Seq(Names \cup { ".." })
        BY <1>3, <1>5, AppendProperties
    <2> QED BY <1>1, <1>5, <2>1 DEF Step, Moves
<1> QED BY <1>4, <1>5

\* Whatever stands in a case-folded path.
Letters == Names \cup Moves \cup { "?" }

\* The case-folded path is a sequence of names as long as the path.
LEMMA IdentityType ==
    ASSUME NEW p \in Seq(Segment)
    PROVE  /\ Identity(p) \in Seq(Letters) /\ Len(Identity(p)) = Len(p)
           /\ DOMAIN Identity(p) = 1 .. Len(p) /\ Len(p) \in Nat
<1>1. Len(p) \in Nat /\ DOMAIN p = 1 .. Len(p)
    BY LenProperties
<1>2. ASSUME NEW i \in 1 .. Len(p) PROVE Identity(p)[i] \in Letters
    <2>1. p[i] \in Segment
        BY <1>2, ElementOfSeq
    <2> QED BY <1>1, <2>1 DEF Segment, Identity, Letters
<1>3. Identity(p) \in [1 .. Len(p) -> Letters]
    BY <1>1, <1>2 DEF Identity
<1>4. Identity(p) \in Seq(Letters)
    BY <1>1, <1>3, SeqDef
<1>5. DOMAIN Identity(p) = 1 .. Len(Identity(p)) /\ Len(Identity(p)) \in Nat
    BY <1>4, LenProperties
<1> QED BY <1>1, <1>3, <1>4, <1>5

\* The segments of an accepted path are plain names, but for their case.
LEMMA ValidSegment ==
    ASSUME NEW p \in Seq(Segment), Valid(p), NEW i \in DOMAIN p
    PROVE  /\ p[i].form \in { "plain", "upper" } /\ p[i].name \in Names \ Moves
           /\ p[i].name \notin DeviceNames /\ Identity(p)[i] = p[i].name
<1>1. p[i] \in Segment
    BY LenProperties, ElementOfSeq
<1>2. p[i].form \in { "plain", "upper" }
    BY <1>1 DEF Valid, Segment, Forms
<1> QED BY <1>1, <1>2 DEF Valid, Segment, Identity

LEMMA PolicyInvInit == PolicyInit => PolicyInv
BY EmptySeq, PolicyAssumption DEF PolicyInit, PolicyInv, PolicyTypeOK, Valid

LEMMA PolicyInvStep == PolicyInv /\ [PolicyNext]_policyVars => PolicyInv'
<1> SUFFICES ASSUME PolicyInv, [PolicyNext]_policyVars PROVE PolicyInv'
    OBVIOUS
<1>1. CASE UNCHANGED policyVars
    BY <1>1 DEF PolicyInv, PolicyTypeOK, policyVars, Valid, Identity
<1>2. CASE Extend
    <2>1. PICK segment \in Segment :
            /\ path' = Append(path, segment) /\ Len(path) < MaxSegments
            /\ reached' = IF Absolute(segment) THEN OutsideProject ELSE Step(reached, segment)
        BY <1>2 DEF Extend
    <2>2. /\ path' \in Seq(Segment) /\ Len(path') = Len(path) + 1 /\ Len(path) \in Nat
          /\ path'[Len(path) + 1] = segment
          /\ \A i \in 1 .. Len(path) : path'[i] = path[i]
          /\ DOMAIN path = 1 .. Len(path) /\ DOMAIN path' = 1 .. Len(path) + 1
        BY <2>1, AppendProperties, LenProperties DEF PolicyInv, PolicyTypeOK
    <2>3. reached' \in Seq(Names \cup { ".." })
        <3>1. OutsideProject \in Seq(Names \cup { ".." })
            BY DEF OutsideProject
        <3>2. Step(reached, segment) \in Seq(Names \cup { ".." })
            BY StepType DEF PolicyInv, PolicyTypeOK
        <3> QED BY <2>1, <3>1, <3>2
    <2>4. ASSUME Valid(path') PROVE reached' = Identity(path')
        <3>1. /\ segment.name \in Names \ Moves /\ segment.name \notin DeviceNames
              /\ Identity(path')[Len(path) + 1] = segment.name
            BY <2>2, <2>4, ValidSegment
        <3>2. path # << >> => Valid(path)
            BY <2>2, <2>4 DEF Valid
        <3>3. /\ path \in Seq(Segment) /\ Identity(path) \in Seq(Letters)
              /\ Len(Identity(path)) = Len(path)
              /\ Identity(path') \in Seq(Letters) /\ Len(Identity(path')) = Len(path) + 1
            BY <2>2, IdentityType DEF PolicyInv, PolicyTypeOK
        <3>4. reached = Identity(path)
            BY <3>2, <3>3, EmptySeq DEF PolicyInv
        <3>5. reached # OutsideProject
            <4>1. ASSUME reached = OutsideProject PROVE FALSE
                <5>1. Len(path) = 1 /\ Identity(path)[1] = ".."
                    BY <3>3, <3>4, <4>1 DEF OutsideProject
                <5>2. path # << >> /\ 1 \in DOMAIN path
                    <6>1. Len(<< >>) = 0
                        OBVIOUS
                    <6>2. 1 \in DOMAIN path
                        BY <2>2, <5>1
                    <6> QED BY <5>1, <6>1, <6>2
                <5> QED BY <3>2, <3>3, <5>1, <5>2, ValidSegment DEF Moves
            <4> QED BY <4>1
        <3>6. reached' = Append(reached, segment.name)
            BY <2>1, <3>1, <3>5 DEF Absolute, Step, Moves
        <3>7. /\ reached' \in Seq(Letters) /\ Len(reached') = Len(path) + 1
              /\ \A i \in 1 .. Len(path) : reached'[i] = reached[i]
              /\ reached'[Len(path) + 1] = segment.name
            <4>1. segment.name \in Letters
                BY <3>1 DEF Letters
            <4> QED BY <3>3, <3>4, <3>6, <4>1, AppendProperties
        <3>8. ASSUME NEW i \in 1 .. Len(path) PROVE Identity(path')[i] = reached[i]
            BY <2>2, <3>4 DEF Identity
        <3>9. \A i \in 1 .. Len(reached') : reached'[i] = Identity(path')[i]
            BY <2>2, <3>1, <3>7, <3>8
        <3> QED BY <3>3, <3>7, <3>9, SeqEqual
    <2> QED BY <2>1, <2>2, <2>3, <2>4, PolicyAssumption DEF PolicyInv, PolicyTypeOK
<1> QED BY <1>1, <1>2 DEF PolicyNext

\* What is accepted is reached, and lies below the project.
LEMMA AcceptedPath ==
    ASSUME PolicyInv, Valid(path)
    PROVE  /\ reached = Identity(path) /\ reached \in Seq(Letters)
           /\ Len(reached) \in Nat \ {0}
           /\ reached # OutsideProject
<1>1. reached = Identity(path) /\ path # << >> /\ path \in Seq(Segment)
    BY DEF PolicyInv, PolicyTypeOK, Valid
<1>2. /\ reached \in Seq(Letters) /\ Len(reached) = Len(path)
      /\ Len(path) \in Nat \ {0} /\ DOMAIN path = 1 .. Len(path)
    BY <1>1, EmptySeq, IdentityType, LenProperties
<1>3. 1 \in DOMAIN path
    BY <1>2
<1>4. reached[1] # ".."
    BY <1>1, <1>3, ValidSegment DEF Moves
<1> QED BY <1>1, <1>2, <1>4 DEF OutsideProject

(* Whatever spelling of a path is accepted, it is classified, and may be    *)
(* written by, what the entry Windows finds there is: for paths of any      *)
(* length and any names.                                                    *)
THEOREM OneClass == PolicySpec => []OneClassPerFile
<1>1. PolicyInv => OneClassPerFile
    <2> SUFFICES ASSUME PolicyInv, Valid(path)
                 PROVE  /\ reached \notin { << >>, OutsideProject } /\ reached = Identity(path)
        BY DEF OneClassPerFile, Writable
    <2>1. reached # << >>
        BY AcceptedPath, EmptySeq
    <2> QED BY <2>1, AcceptedPath
<1> QED BY <1>1, PolicyInvInit, PolicyInvStep, PTL DEF PolicySpec

\* A path that begins with the only segment of a prefix has that prefix.
LEMMA PrefixFirst ==
    ASSUME NEW S, NEW T, NEW id \in Seq(S), NEW prefix \in Seq(T),
           Len(prefix) = 1, Len(id) \in Nat \ {0}, id[1] = prefix[1]
    PROVE  Ext!IsPrefix(prefix, id)
BY DEF Ext!IsPrefix

(* No file is a developer's and a judge's, tests and ledgers are no         *)
(* developer's, defects no adversary's, control material nobody's: for      *)
(* paths of any length and any names.                                       *)
THEOREM Duties == PolicySpec => []DutiesSeparated
<1> DEFINE writers == { role \in Roles : Writable(role, path) }
           class == Class(reached)
<1>1. PolicyInv => DutiesSeparated
    <2> SUFFICES ASSUME PolicyInv PROVE DutiesSeparated
        OBVIOUS
    <2>1. CASE ~Valid(path)
        <3>1. writers = {}
            BY <2>1 DEF Writable
        <3> QED BY <3>1 DEF DutiesSeparated
    <2>2. CASE Valid(path)
        <3>1. /\ reached = Identity(path) /\ reached \in Seq(Letters)
              /\ Len(reached) \in Nat \ {0}
            BY <2>2, AcceptedPath
        <3>2. writers = { role \in Roles : role \in WritersOf(reached, class) }
            BY <2>2, <3>1 DEF Writable
        <3>3. CASE class \in { "GENERATED_CONTROL_OUTPUT", "CONTROL_PLANE" }
            <4>1. writers = {}
                BY <3>2, <3>3 DEF WritersOf
            <4> QED BY <4>1 DEF DutiesSeparated
        <3>4. CASE class \notin { "GENERATED_CONTROL_OUTPUT", "CONTROL_PLANE" }
            <4>1. /\ reached[Len(reached)] \notin ControlLeaves
                  /\ \A i \in DOMAIN reached : reached[i] \notin ControlParts
                BY <3>4 DEF Class
            <4>2. class \in { "EVIDENCE_REPORTING", "PRODUCT_WORKSPACE" }
                BY <3>4 DEF Class
            <4>3. CASE class = "EVIDENCE_REPORTING"
                <5>1. writers \cap Developers = {}
                    BY <3>2, <4>3 DEF WritersOf, Developers
                <5>2. ASSUME reached = << "defects.md" >> PROVE "adversary" \notin writers
                    <6>1. ~HasPrefix(reached, Screenshots)
                        <7>1. ASSUME NEW prefix \in Screenshots, Ext!IsPrefix(prefix, reached)
                              PROVE  FALSE
                            <8>1. /\ prefix \in Seq({ "screenshots", "evidence", "generated" })
                                  /\ Len(prefix) = 2
                                <9> DEFINE Seg == { "screenshots", "evidence", "generated" }
                                <9>1. \A a, b \in Seg : << a, b >> \in Seq(Seg) /\ Len(<< a, b >>) = 2
                                    OBVIOUS
                                <9>2. PICK a \in Seg, b \in Seg : prefix = << a, b >>
                                    BY DEF Screenshots
                                <9> QED BY <9>1, <9>2
                            <8>2. Len(prefix) <= Len(reached)
                                BY <7>1, <8>1 DEF Ext!IsPrefix
                            <8> QED BY <5>2, <8>1, <8>2
                        <7> QED BY <7>1 DEF HasPrefix
                    <6>2. reached # << "adversarial_review.md" >>
                        BY <5>2
                    <6> QED BY <3>2, <4>3, <6>1, <6>2 DEF WritersOf
                <5> QED BY <3>1, <4>1, <5>1, <5>2 DEF DutiesSeparated
            <4>4. CASE class = "PRODUCT_WORKSPACE"
                <5>1. reached \notin EvidenceExact
                    BY <4>4 DEF Class
                <5>2. "adversary" \notin writers /\ (writers \cap Developers # {} => writers = Developers)
                    BY <3>2, <4>4 DEF WritersOf, Developers, Roles
                <5>3. ASSUME writers \cap Developers # {} PROVE reached[1] # "e2e"
                    <6>1. ~HasPrefix(reached, { << "e2e" >> })
                        BY <3>2, <4>4, <5>3 DEF WritersOf, Developers
                    <6> DEFINE tests == << "e2e" >>
                    <6>2. /\ tests \in Seq({ "e2e" }) /\ Len(tests) = 1 /\ tests[1] = "e2e"
                          /\ ~Ext!IsPrefix(tests, reached)
                        BY <6>1 DEF HasPrefix
                    <6> HIDE DEF class, writers, tests
                    <6> QED BY <3>1, <6>2, PrefixFirst
                <5> QED BY <3>1, <4>1, <5>1, <5>2, <5>3 DEF DutiesSeparated
            <4> QED BY <4>2, <4>3, <4>4
        <3> QED BY <3>3, <3>4
    <2> QED BY <2>1, <2>2
<1> QED BY <1>1, PolicyInvInit, PolicyInvStep, PTL DEF PolicySpec

-----------------------------------------------------------------------------
(* The host.                                                                *)

(* A step of the host is one of each part, or leaves it alone.              *)
LEMMA HostSteps ==
    [HostNext]_hostVars =>
      /\ [InstallNext]_installVars /\ [KeyNext]_keyVars /\ [BrokerNext]_brokerVars
      /\ [AdapterNext]_adapterVars /\ [PolicyNext]_policyVars
BY DEF HostNext, Installing, Keying, Brokering, Generating, Classifying, hostVars

(* Every variable of the host has its type.                                 *)
THEOREM HostTypes == HostSpec => []HostTypeOK
<1> DEFINE Typed == /\ part \in Parts /\ InstallInv /\ KeyInv /\ BrokerInv /\ AdapterInv
                    /\ PolicyInv
<1>1. HostInit => Typed
    BY InstallInvInit, KeyInvInit, BrokerInvInit, AdapterInvInit, PolicyInvInit DEF HostInit
<1>2. Typed /\ [HostNext]_hostVars => Typed'
    <2>1. part \in Parts /\ [HostNext]_hostVars => part' \in Parts
        BY DEF HostNext, Installing, Keying, Brokering, Generating, Classifying, hostVars, AtWork
    <2> QED BY <2>1, HostSteps, InstallInvStep, KeyInvStep, BrokerInvStep, AdapterInvStep,
               PolicyInvStep
<1>3. Typed => HostTypeOK
    BY BrokerTypeParts DEF HostTypeOK, InstallInv, KeyInv, BrokerInv, AdapterInv, AdapterShape,
                           PolicyInv
<1> QED BY <1>1, <1>2, <1>3, PTL DEF HostSpec

(* The parts keep what they promise when they make up one host, whichever   *)
(* of them is at work.                                                      *)
THEOREM HostKeepsPromises ==
    HostSpec =>
      /\ []AcceptedStays /\ []InstalledIsPinned /\ []KeyAgreement /\ []KeyIsPrivate
      /\ []StaysInside /\ []ReadsLastWrite /\ []VerdictIsRight /\ []GeneratedIsCurrent
      /\ []OneClassPerFile /\ []DutiesSeparated
<1>1. HostInit => InstallInit /\ KeyInit /\ BrokerInit /\ AdapterInit /\ PolicyInit
    BY DEF HostInit
<1>2. HostSpec => InstallSpec /\ KeySpec /\ BrokerSpec /\ AdapterSpec /\ PolicySpec
    BY <1>1, HostSteps, PTL
       DEF HostSpec, InstallSpec, KeySpec, BrokerSpec, AdapterSpec, PolicySpec
<1> QED BY <1>2, InstallationStays, InstallationIsPinned, OneTrustKey, KeyStaysPrivate,
           BrokerStaysInside, BrokerReadsLastWrite, AdaptersAreRight, GeneratorRepairs,
           OneClass, Duties, PTL
=============================================================================
