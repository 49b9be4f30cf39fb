---------------------------- MODULE TrustedHost ----------------------------
(***************************************************************************)
(* The parts of RAD on the Windows host that keep their state in files of  *)
(* their own: the trusted installation, the trust key, the workspace       *)
(* broker, the adapter generator and the path policy.  They read and write *)
(* disjoint files, so a step of one leaves the variables of the others     *)
(* alone and no property relates two of them: a behaviour of the host is   *)
(* one part at work while the others rest where they began.  What the      *)
(* trust key may find is of no interest while another part is at work.     *)
(***************************************************************************)
EXTENDS Installation, TrustKey, WorkspaceBroker, AdapterGenerator, PathPolicy

VARIABLE part  \* the part that is at work

Parts == { "installation", "trust key", "broker", "adapters", "policy" }

hostVars == << part, installVars, keyVars, brokerVars, adapterVars, policyVars >>

HostTypeOK ==
    /\ part \in Parts
    /\ InstallTypeOK /\ KeyTypeOK /\ BrokerTypeOK /\ AdapterTypeOK /\ PolicyTypeOK

HostInit ==
    /\ part \in Parts
    /\ InstallInit /\ KeyInit /\ BrokerInit /\ AdapterInit /\ PolicyInit
    /\ part # "trust key" => ~stateDir

AtWork(name) == part = name /\ part' = part

Installing ==
    /\ AtWork("installation") /\ InstallNext
    /\ UNCHANGED << keyVars, brokerVars, adapterVars, policyVars >>

Keying ==
    /\ AtWork("trust key") /\ KeyNext
    /\ UNCHANGED << installVars, brokerVars, adapterVars, policyVars >>

Brokering ==
    /\ AtWork("broker") /\ BrokerNext
    /\ UNCHANGED << installVars, keyVars, adapterVars, policyVars >>

Generating ==
    /\ AtWork("adapters") /\ AdapterNext
    /\ UNCHANGED << installVars, keyVars, brokerVars, policyVars >>

Classifying ==
    /\ AtWork("policy") /\ PolicyNext
    /\ UNCHANGED << installVars, keyVars, brokerVars, adapterVars >>

HostNext == Installing \/ Keying \/ Brokering \/ Generating \/ Classifying

HostSpec == HostInit /\ [][HostNext]_hostVars
=============================================================================
