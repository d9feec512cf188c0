------------------------------ MODULE EndToEnd ------------------------------
(***************************************************************************)
(* The Android client of MainViewModel with the backend at the other end:  *)
(* the device registry of DeviceRepo, seen through the two endpoints the   *)
(* client calls.  What EnrollHandler and MtlsAuth do in several steps is   *)
(* one step here: an enrolment registers its key or refuses, a ping is let *)
(* through exactly for the current certificate of an active device.  This  *)
(* is an abstraction of Backend, not a theorem about it: a revocation that *)
(* falls between the checks of an enrolment and its writes, and a registry *)
(* whose writes fail, are behaviours of Backend that are not in here.      *)
(*                                                                         *)
(* Everything that goes wrong (a call that fails, a refusal, a crash of    *)
(* either side, a revocation, an expiry) is a fault, and a behaviour has   *)
(* at most MaxFaults of them, so that one can ask what happens once they   *)
(* have stopped.  The certificate of key k has serial k: the one-time      *)
(* challenge lets a key be certified once.                                 *)
(***************************************************************************)
EXTENDS MainViewModel, Naturals

CONSTANT MaxFaults

ASSUME EndToEndAssumption == MaxFaults \in Nat

VARIABLES
    devices, revokedSerials,  \* the registry, in memory
    challenged,  \* calls that hold a challenge the backend still knows
    enrolment,   \* what became of each key's POST /enroll: not sent, on its
                 \* way, granted (registered, 201 on its way back), refused
    lapsed,      \* keys whose certificate the TLS handshake refuses: it has
                 \* expired, or the CA has been replaced
    forgotten,   \* history: keys that a backend restart dropped from devices
    client,      \* the mTLS client that a call at "call" took from the cache
    faults       \* faults so far

Registry == INSTANCE DeviceRepo WITH Keys <- DeviceKeys, Serials <- DeviceKeys

registryVars == <<devices, revokedSerials>>
backendVars == <<registryVars, challenged, enrolment, lapsed, forgotten>>
systemVars == <<vars, backendVars, client, faults>>

Id(k) == Registry!PublicKeyFingerprint(k)

SystemInit ==
    /\ Init
    /\ Registry!RepoInit
    /\ challenged = {}
    /\ enrolment = [k \in DeviceKeys |-> "none"]
    /\ lapsed = {}
    /\ forgotten = {}
    /\ client = [c \in Calls |-> Nil]
    /\ faults = 0

SystemTypeOK ==
    /\ TypeOK
    /\ Registry!RepoTypeOK
    /\ challenged \subseteq Calls
    /\ enrolment \in [DeviceKeys -> {"none", "sent", "granted", "refused"}]
    /\ \A k \in DeviceKeys : enrolment[k] # "none" => k \in minted
    /\ lapsed \subseteq DeviceKeys /\ forgotten \subseteq DeviceKeys
    /\ DOMAIN client = Calls
    /\ \A c \in Calls :
         client[c] \in IF pc[c] = "call"
                       THEN [alias : Aliases, chain : DeviceKeys \cup {Nil}]
                       ELSE {Nil}
    /\ faults \in 0..MaxFaults

Fault == faults < MaxFaults /\ faults' = faults + 1

-----------------------------------------------------------------------------

\* The middleware lets a request with k's certificate through.
Authorized(k) ==
    /\ Registry!IsDeviceActive(Id(k))
    /\ devices[Id(k)].CertSerial = k
    /\ ~Registry!IsSerialRevoked(k)

\* The mTLS server answers c's ping with 200: the handshake proves that the
\* slot holds the certified key, and the registry agrees.
Accepted(c) ==
    LET k == client[c].chain
    IN  /\ k # Nil /\ k = slots[client[c].alias]
        /\ k \notin lapsed
        /\ Authorized(k)

\* The call fails although nothing stood in its way.
Unlucky(c) ==
    /\ pc'[c] \in {"discard", "failed"}
    /\ \/ pc[c] \in {"challenge", "generate", "delete", "build"}
       \/ pc[c] = "post" /\ enrolment[key[c]] # "refused"
       \/ pc[c] = "call" /\ Accepted(c)

\* A step of a call, when the backend's answers are what they must be.  The
\* request is sent as the call reaches "post"; a challenge the backend has
\* forgotten has it refused.
AppStep(c) ==
    /\ CallStep(c)
    /\ pc[c] = "post" /\ pc'[c] = "save" => enrolment[key[c]] = "granted"
    /\ pc[c] = "call" /\ pc'[c] = "pinged" => Accepted(c)
    /\ challenged' = IF pc[c] = "challenge" /\ pc'[c] = "slot"
                     THEN challenged \cup {c} ELSE challenged
    /\ enrolment' = IF pc[c] = "request" /\ pc'[c] = "post"
                    THEN [enrolment EXCEPT ![key[c]] =
                            IF c \in challenged THEN "sent" ELSE "refused"]
                    ELSE enrolment
    /\ client' = [client EXCEPT ![c] = IF pc'[c] = "call" THEN protectedApi' ELSE Nil]
    /\ IF Unlucky(c) THEN Fault ELSE UNCHANGED faults
    /\ UNCHANGED <<registryVars, lapsed, forgotten>>

TapConnect(c) == Connect(c) /\ UNCHANGED <<backendVars, client, faults>>

OtherEntryPoint(c) ==
    (Enroll(c) \/ PingProtected(c)) /\ UNCHANGED <<backendVars, client, faults>>

AppIsKilled ==
    /\ KillAndRestart
    /\ Fault
    /\ challenged' = {}
    /\ client' = [c \in Calls |-> Nil]
    /\ UNCHANGED <<registryVars, enrolment, lapsed, forgotten>>

OtherAppStep ==
    /\ \/ OnLocalNetworkPermissionDenied
       \/ /\ WriteBehind
          /\ UNCHANGED <<repositoryVars, scenario, uiState, kind, historyVars>>
    /\ UNCHANGED <<backendVars, client, faults>>

-----------------------------------------------------------------------------

BackendEnrollsAgain(k) ==  \* mutant: a request that is delivered twice
    /\ enrolment[k] \in {"sent", "granted"}
    /\ Registry!RegisterDevice(Id(k), k)
    /\ enrolment' = [enrolment EXCEPT ![k] = "granted"]
    /\ UNCHANGED <<vars, challenged, lapsed, forgotten, client, faults>>

\* The request arrives, perhaps after the client has given it up.
BackendEnrolls(k) ==
    /\ enrolment[k] = "sent"
    /\ Registry!RegisterDevice(Id(k), k)
    /\ enrolment' = [enrolment EXCEPT ![k] = "granted"]
    /\ UNCHANGED <<vars, challenged, lapsed, forgotten, client, faults>>

\* The challenge has expired, the revocation list is down, ...
BackendRefuses(k) ==
    /\ enrolment[k] = "sent"
    /\ Fault
    /\ enrolment' = [enrolment EXCEPT ![k] = "refused"]
    /\ UNCHANGED <<vars, registryVars, challenged, lapsed, forgotten, client>>

\* The registry and the challenges are gone, and so are requests in progress.
BackendRestarts ==
    /\ Fault
    /\ Registry!RepoRestart
    /\ challenged' = {}
    /\ enrolment' = [k \in DeviceKeys |->
                       IF enrolment[k] = "sent" THEN "refused" ELSE enrolment[k]]
    /\ forgotten' = forgotten \cup {k \in DeviceKeys : Registry!HasDevice(Id(k))}
    /\ UNCHANGED <<vars, lapsed, client>>

OperatorRevokes(k) ==
    /\ Fault
    /\ Registry!RevokeDevice(Id(k))
    /\ UNCHANGED <<vars, challenged, enrolment, lapsed, forgotten, client>>

\* k's certificate has expired, or certgen -force has made another CA, and no
\* connection from before is left.
Lapse(k) ==
    /\ enrolment[k] = "granted" /\ k \notin lapsed
    /\ Fault
    /\ lapsed' = lapsed \cup {k}
    /\ UNCHANGED <<vars, registryVars, challenged, enrolment, forgotten, client>>

SystemNext ==
    \/ \E c \in Calls : AppStep(c) \/ TapConnect(c) \/ OtherEntryPoint(c)
    \/ AppIsKilled
    \/ OtherAppStep
    \/ \E k \in DeviceKeys :
         \/ BackendEnrolls(k)
         \/ BackendRefuses(k)
         \/ OperatorRevokes(k)
         \/ Lapse(k)
    \/ BackendRestarts

\* As in MainViewModel; the backend handles every request it receives, and
\* the user keeps tapping the button.
SystemFairness ==
    /\ \A c \in Calls : WF_systemVars(AppStep(c)) /\ WF_systemVars(TapConnect(c))
    /\ \A k \in DeviceKeys : WF_systemVars(BackendEnrolls(k))

SystemSpec == SystemInit /\ [][SystemNext]_systemVars /\ SystemFairness

-----------------------------------------------------------------------------

\* The backend has had a reason, other than this client's calls, to turn the
\* key away.
TurnedAway(k) ==
    k \in lapsed \cup forgotten \cup revokedSerials

\* enroll_handler.go:185, 214, SecurityRepository.kt:99-127.  Answers that are
\* lost, requests handled after the client has given them up and crashes
\* never leave client and registry disagreeing: whenever nothing is in
\* progress and the device holds itself for enrolled, the registry has the
\* key in its slot, active, with the certificate it presents, unless it was
\* revoked or forgotten since.
EnrolledIsRegistered ==
    AtRest /\ isEnrolled =>
        /\ UsableIdentity # Nil
        /\ Authorized(UsableIdentity) \/ TurnedAway(UsableIdentity)

\* Every certificate the client has anywhere: in its preferences, as they are
\* and as a kill would leave them, in the cache, in an mTLS client.
Held ==
    {prefs.client_cert_pem, onDisk.client_cert_pem, cachedClientChain}
        \cup {api.chain : api \in ({protectedApi} \cup {client[c] : c \in Calls}) \ {Nil}}

\* enroll_handler.go:185, 214, device_repo.go:55-59.  ... and at every other
\* moment, whatever overlaps, is killed or is taken over half-way: the app
\* has no certificate that the registry was not made to stand for, by its own
\* key's identity, and no other enrolment takes that away.
HeldIsRegistered ==
    \A k \in Held \ {Nil} : Authorized(k) \/ TurnedAway(k)

GrantedKeys == {k \in DeviceKeys : enrolment[k] = "granted"}

Certificates == INSTANCE CertificateLedger
    WITH Serials <- DeviceKeys, Identities <- Registry!Identities,
         current <- [id \in Registry!Identities |-> Registry!CurrentSerial(id)],
         used <- GrantedKeys

\* enroll_handler.go:195-223, mtls_auth.go:28-33.  The backend of this module
\* keeps the promise that Backend keeps, that a certificate is current once,
\* and never again.  (The promise is no more than that: that both keep it does
\* not make what else the client relies on here true there.)
ImplementsCertificateLedger == Certificates!Spec

\* README.md:354-355, MainViewModel.kt:80.  When the faults have stopped, a
\* user who keeps tapping the only button of the app is authenticated again
\* and again, except in the one case connect cannot get out of: the device
\* holds itself for enrolled with a certificate that has expired, or that the
\* backend has revoked or forgotten.
AuthenticatesOrTurnedAway ==
    scenario.kinds = {"connect"} =>
    \/ []<>(uiState = "Authenticated")
    \/ <>[](isEnrolled /\ TurnedAway(slots[getKeyAlias]))
=============================================================================
