------------------------------ MODULE TrustKey ------------------------------
(***************************************************************************)
(* The process trust key of src/security/rad_security/processes.py:        *)
(* validate_trusted_state_paths, load_or_create_key and load_key.          *)
(*                                                                         *)
(* Start clients, guardians, stop clients and cleanups come by in any      *)
(* order, to a directory and a key that are there already or to none.      *)
(* Each secures both first; the first start client to create the key file  *)
(* then draws the key.  Between its creation and its 32 bytes the file is  *)
(* empty, and stays so if the client is killed.                            *)
(*                                                                         *)
(* Of a descriptor there is who else has access by it, besides the owner,  *)
(* SYSTEM and the administrators, and where the entry comes from.          *)
(***************************************************************************)

CONSTANTS
    Creators,   \* start clients: load_or_create_key
    Users,      \* guardians, stop clients and cleanups: load_key
    KeyFaults,  \* a subset of KeyFaultKinds
    FoundAcls,  \* descriptors that a directory or a key found there may have
    OldKey,     \* the key in a key file found there
    NoKey

KeyClients == Creators \cup Users

KeyFaultKinds ==
    { "kill",     \* a client is killed
      "icacls",   \* icacls fails or times out
      "short" }   \* os.write writes less than it was given

\* Principals _BROAD_ACE knows the names of, and others.
Strangers == { "known", "other" }

\* An entry is the object's own or comes down from the directory above.
Acls == [own : SUBSET Strangers, down : SUBSET Strangers]

Granted(acl) == acl.own \cup acl.down

Private == [own |-> {}, down |-> {}]

WrongKeys == { "empty", "short" }  \* a file without 32 bytes

Keys == Creators \cup { OldKey }

ASSUME KeyAssumption ==
    /\ Creators \cap Users = {}
    /\ KeyFaults \subseteq KeyFaultKinds
    /\ FoundAcls \subseteq Acls
    /\ NoKey \notin Keys \cup WrongKeys
    /\ Keys \cap WrongKeys = {}
    /\ OldKey \notin Creators

VARIABLES
    stateDir,  \* whether the state directory is there
    dirAcl,    \* its descriptor
    keyFile,   \* what the key file holds; a key is named after who drew it
    keyAcl,    \* its descriptor
    client,    \* where each client is
    held,      \* the key each client has got
    unlisted   \* history: the clients whose icacls listing failed

keyVars == << stateDir, dirAcl, keyFile, keyAcl, client, held, unlisted >>

ClientPhases ==
    { "idle", "mkdir", "secure", "securekey", "check", "checkkey", "open", "write",
      "read", "keyed", "gone" }

KeyTypeOK ==
    /\ stateDir \in BOOLEAN
    /\ keyFile \in Keys \cup WrongKeys \cup { NoKey }
    /\ dirAcl \in Acls /\ keyAcl \in Acls
    /\ client \in [KeyClients -> ClientPhases]
    /\ held \in [KeyClients -> Keys \cup { NoKey }]
    /\ unlisted \subseteq KeyClients

KeyInit ==
    /\ stateDir \in BOOLEAN
    /\ dirAcl \in IF stateDir THEN FoundAcls ELSE { Private }
    /\ keyFile \in IF stateDir THEN WrongKeys \cup { OldKey, NoKey } ELSE { NoKey }
    /\ keyAcl \in IF keyFile = NoKey THEN { Private } ELSE FoundAcls
    /\ client = [c \in KeyClients |-> "idle"]
    /\ held = [c \in KeyClients |-> NoKey]
    /\ unlisted = {}

ClientGoes(c, from, to) ==
    /\ client[c] = from
    /\ client' = [client EXCEPT ![c] = to]

-----------------------------------------------------------------------------
(* validate_trusted_state_paths.                                            *)

\* Mutation: a directory that is there already is taken as secured.
LookTrusting(c) ==
    /\ ClientGoes(c, "idle", IF stateDir THEN "open" ELSE "mkdir")
    /\ UNCHANGED << stateDir, dirAcl, keyFile, keyAcl, held, unlisted >>

Look(c) ==
    /\ ClientGoes(c, "idle", IF stateDir THEN "secure" ELSE "mkdir")
    /\ UNCHANGED << stateDir, dirAcl, keyFile, keyAcl, held, unlisted >>

\* mkdir raises if another client was faster.  A new directory inherits, or
\* from Python 3.12.4 on gets a descriptor of its own for the mode 0o700.
MakeStateDir(c) ==
    /\ ClientGoes(c, "mkdir", IF stateDir THEN "gone" ELSE "secure")
    /\ stateDir' = TRUE
    /\ IF stateDir THEN UNCHANGED dirAcl
       ELSE \E above \in SUBSET Strangers : dirAcl' = [own |-> {}, down |-> above]
    /\ UNCHANGED << keyFile, keyAcl, held, unlisted >>

\* icacls /inheritance:r /grant:r takes away what comes down from above; the
\* object's own entries for other principals stay.
Hardened(acl) == [acl EXCEPT !.down = {}]

\* harden_state_directory: the directory ...  An icacls that times out may
\* have done its work.
SecureDir(c) ==
    /\ \/ ClientGoes(c, "secure", "securekey") /\ dirAcl' = Hardened(dirAcl)
       \/ /\ "icacls" \in KeyFaults
          /\ ClientGoes(c, "secure", "gone")
          /\ dirAcl' \in { dirAcl, Hardened(dirAcl) }
    /\ UNCHANGED << stateDir, keyFile, keyAcl, held, unlisted >>

\* ... and the key file if there is one by now.
SecureKey(c) ==
    /\ \/ ClientGoes(c, "securekey", "check") /\ keyAcl' = Hardened(keyAcl)
       \/ /\ "icacls" \in KeyFaults /\ keyFile # NoKey
          /\ ClientGoes(c, "securekey", "gone")
          /\ keyAcl' \in { keyAcl, Hardened(keyAcl) }
    /\ UNCHANGED << stateDir, dirAcl, keyFile, held, unlisted >>

\* _acl_has_no_broad_grants: a listing is searched for the names that are
\* known.  The exit status is not read: a listing that fails names nobody.
Lists(c, acl, from, to) ==
    /\ \/ /\ ClientGoes(c, from, IF "known" \in Granted(acl) THEN "gone" ELSE to)
          /\ UNCHANGED unlisted
       \/ /\ "icacls" \in KeyFaults
          /\ \/ ClientGoes(c, from, "gone") /\ UNCHANGED unlisted
             \/ ClientGoes(c, from, to) /\ unlisted' = unlisted \cup { c }
    /\ UNCHANGED << stateDir, dirAcl, keyFile, keyAcl, held >>

\* state_directory_is_secure: the directory, then the key if there is one.
CheckDir(c) == Lists(c, dirAcl, "check", "checkkey")

CheckKey(c) ==
    \/ keyFile # NoKey /\ Lists(c, keyAcl, "checkkey", "open")
    \/ /\ keyFile = NoKey /\ ClientGoes(c, "checkkey", "open")
       /\ UNCHANGED << stateDir, dirAcl, keyFile, keyAcl, held, unlisted >>

-----------------------------------------------------------------------------
(* load_or_create_key and load_key.                                         *)

\* Mutation: the file is opened without O_EXCL, which truncates it.
OpenTruncating(c) ==
    /\ ClientGoes(c, "open", IF c \in Creators THEN "write" ELSE "read")
    /\ keyFile' = IF c \in Creators THEN "empty" ELSE keyFile
    /\ UNCHANGED << stateDir, dirAcl, keyAcl, held, unlisted >>

\* O_CREAT | O_EXCL: whoever creates the file writes it.  A new file inherits
\* the access of its directory.  load_key only reads.
OpenKey(c) ==
    /\ IF c \in Creators /\ keyFile = NoKey
       THEN /\ ClientGoes(c, "open", "write")
            /\ keyFile' = "empty"
            /\ keyAcl' = [own |-> {}, down |-> Granted(dirAcl)]
       ELSE /\ ClientGoes(c, "open", "read")
            /\ UNCHANGED << keyFile, keyAcl >>
    /\ UNCHANGED << stateDir, dirAcl, held, unlisted >>

WriteKey(c) ==
    /\ \/ ClientGoes(c, "write", "read") /\ keyFile' = c
       \/ "short" \in KeyFaults /\ ClientGoes(c, "write", "gone") /\ keyFile' = "short"
    /\ UNCHANGED << stateDir, dirAcl, keyAcl, held, unlisted >>

\* Mutation: the length of the key is not looked at.
ReadAnyKey(c) ==
    /\ ClientGoes(c, "read", IF keyFile = NoKey THEN "gone" ELSE "keyed")
    /\ held' = [held EXCEPT ![c] = keyFile]
    /\ UNCHANGED << stateDir, dirAcl, keyFile, keyAcl, unlisted >>

\* A key that does not have 32 bytes is refused.
ReadKey(c) ==
    /\ \/ /\ keyFile \in Keys
          /\ ClientGoes(c, "read", "keyed")
          /\ held' = [held EXCEPT ![c] = keyFile]
       \/ /\ keyFile \notin Keys
          /\ ClientGoes(c, "read", "gone")
          /\ UNCHANGED held
    /\ UNCHANGED << stateDir, dirAcl, keyFile, keyAcl, unlisted >>

ClientKilled(c) ==
    /\ "kill" \in KeyFaults
    /\ \E at \in ClientPhases \ { "idle", "keyed", "gone" } : ClientGoes(c, at, "gone")
    /\ UNCHANGED << stateDir, dirAcl, keyFile, keyAcl, held, unlisted >>

ClientStep(c) ==
    \/ Look(c) \/ MakeStateDir(c) \/ SecureDir(c) \/ SecureKey(c)
    \/ CheckDir(c) \/ CheckKey(c) \/ OpenKey(c) \/ WriteKey(c) \/ ReadKey(c)

KeyNext == \E c \in KeyClients : ClientStep(c) \/ ClientKilled(c)

KeySpec == KeyInit /\ [][KeyNext]_keyVars

-----------------------------------------------------------------------------
(* Everybody who has got a key has got the same whole key, the one in the   *)
(* file: otherwise a stop client could not authenticate the record of a run *)
(* that is there.  Start clients race for the creation and may be killed    *)
(* before they have written it.                                             *)
KeyAgreement ==
    \A c \in KeyClients : client[c] = "keyed" => held[c] \in Keys /\ held[c] = keyFile

(* "never silently proceed with a broad ACL" (P1-6), as far as the code     *)
(* sees to it: once a client whose listings worked goes on, nobody has      *)
(* access to the directory or to the key by a name the search knows, and    *)
(* nobody by an entry from above, but only by an entry of the directory's   *)
(* or the key's own that was there before, whoever makes the key and        *)
(* whenever.  Such an entry for another principal is let through.           *)
KeyIsPrivate ==
    \A c \in KeyClients \ unlisted :
        client[c] \in { "open", "write", "read", "keyed" } =>
            /\ dirAcl.down = {} /\ "known" \notin Granted(dirAcl)
            /\ keyAcl.down \subseteq dirAcl.own /\ "known" \notin Granted(keyAcl)
=============================================================================
