--------------------------- MODULE EndToEndProofs ---------------------------
(***************************************************************************)
(* Theorems about EndToEnd: the client and the backend together, for any   *)
(* set of keys, any number of calls and any number of faults.              *)
(***************************************************************************)
EXTENDS EndToEnd, ClientProofs

\* Every step of the system is a step of the client, or none of the client's.
LEMMA SystemStepIsClientStep ==
  ASSUME [SystemNext]_systemVars
  PROVE  [Next]_vars
BY DEF SystemNext, AppStep, TapConnect, OtherEntryPoint, AppIsKilled, OtherAppStep,
       BackendEnrolls, BackendRefuses, BackendRestarts, OperatorRevokes, Lapse,
       systemVars, Next

-----------------------------------------------------------------------------
(* The keys of calls in progress                                           *)

HasKey == {"request", "post", "save", "delete", "swap"}

\* A call past generation has a key, which no other call has.
OwnKeys ==
    /\ \A c \in Calls : pc[c] \in HasKey => key[c] # Nil
    /\ \A c \in Calls : key[c] # Nil => key[c] \in minted
    /\ \A c, d \in Calls : key[c] = key[d] /\ key[c] # Nil => c = d

KInv == TInv /\ OwnKeys

\* Initially there are no keys.
LEMMA KInvInit == Init => KInv
BY TInvInit DEF KInv, OwnKeys, Init, RepositoryInit, HasKey

\* A step of the repository keeps the keys it finds and mints a new one.
LEMMA RepositoryKeys ==
  ASSUME KInv, NEW c \in Calls, RepositoryStep(c) \/ DeletePreviousFails(c)
  PROVE  OwnKeys'
<1>0. /\ pc \in [Calls -> {"idle"} \cup EnrollSteps \cup PingSteps \cup Returned]
      /\ key \in [Calls -> DeviceKeys \cup {Nil}] /\ OwnKeys /\ KeystoreTypeOK
  BY DEF KInv, TInv, TypeOK, RepositoryTypeOK
<1>1. CASE GenerateKey(c)
  <2>1. FreshKey \notin minted /\ FreshKey \in DeviceKeys
    BY <1>0, <1>1, FreshKeyIsNew DEF GenerateKey
  <2>2. /\ minted' = minted \cup {FreshKey} /\ key' = [key EXCEPT ![c] = FreshKey]
        /\ pc' = [pc EXCEPT ![c] = "request"]
    BY <1>1 DEF GenerateKey, GenerateInSlot, Goto
  <2>3. \A d \in Calls : key'[d] # Nil => key'[d] \in minted'
    BY <1>0, <2>2 DEF OwnKeys
  <2>4. \A d \in Calls : pc'[d] \in HasKey => key'[d] # Nil
    BY <1>0, <2>1, <2>2, KeystoreAssumption DEF OwnKeys
  <2>5. \A d, e \in Calls : key'[d] = key'[e] /\ key'[d] # Nil => d = e
    BY <1>0, <2>1, <2>2 DEF OwnKeys
  <2> QED BY <2>3, <2>4, <2>5 DEF OwnKeys
<1>2. CASE ~GenerateKey(c)
  <2>1. /\ minted' = minted /\ key' = key
        /\ \E step \in {"idle"} \cup EnrollSteps \cup PingSteps \cup Returned :
             /\ pc' = [pc EXCEPT ![c] = step]
             /\ step \in HasKey => pc[c] \in HasKey
    BY <1>2
       DEF RepositoryStep, Invalidate, GetChallenge, ChooseSlot, GenerateKeyFails,
           BuildRequest, EnrollSucceeds, EnrollFails, SaveCertificate, DeletePrevious,
           DeletePreviousFails, SwapSlots, DiscardPendingKey, UseCachedClient,
           StartBuildingClient, BuildClient, BuildClientFails, Ping, Goto, At,
           keystoreVars, HasKey,
           EnrollSteps, PingSteps, Returned
  <2> QED BY <1>0, <2>1 DEF OwnKeys
<1> QED BY <1>1, <1>2

\* Every step of the client keeps keys apart.
LEMMA KInvStep == ASSUME KInv, [Next]_vars PROVE KInv'
<1>0. TInv'
  BY TInvStep DEF KInv
<1>1. /\ pc \in [Calls -> {"idle"} \cup EnrollSteps \cup PingSteps \cup Returned]
      /\ key \in [Calls -> DeviceKeys \cup {Nil}] /\ OwnKeys
  BY DEF KInv, TInv, TypeOK, RepositoryTypeOK
<1>2. ASSUME NEW c \in Calls, Enroll(c) \/ PingProtected(c) \/ Connect(c) PROVE OwnKeys'
  <2>1. /\ UNCHANGED <<minted, key>>
        /\ \E step \in {"invalidate", "client"} : pc' = [pc EXCEPT ![c] = step]
    BY <1>2 DEF Enroll, PingProtected, Connect, Launch, Goto, keystoreVars
  <2> QED BY <1>1, <2>1 DEF OwnKeys, HasKey
<1>3. ASSUME NEW c \in Calls, CallStep(c) PROVE OwnKeys'
  <2>1. CASE RepositoryStep(c) \/ DeletePreviousFails(c)
    BY <2>1, RepositoryKeys
  <2>2. CASE OnEnrolled(c) \/ OnPinged(c) \/ OnFailed(c)
    <3>1. /\ minted' = minted /\ key' = [key EXCEPT ![c] = Nil]
          /\ \E step \in {"client", "idle"} : pc' = [pc EXCEPT ![c] = step]
      BY <2>2 DEF OnEnrolled, OnPinged, OnFailed, Resume, keystoreVars
    <3> QED BY <1>1, <3>1 DEF OwnKeys, HasKey
  <2> QED BY <1>3, <2>1, <2>2 DEF CallStep
<1>4. CASE KillAndRestart
  <2>1. \A c \in Calls : pc'[c] = "idle" /\ key'[c] = Nil
    BY <1>4 DEF KillAndRestart, RepositoryRestart
  <2> QED BY <1>0, <2>1 DEF KInv, OwnKeys, HasKey
<1>5. CASE \/ OnLocalNetworkPermissionDenied
           \/ /\ WriteBehind
              /\ UNCHANGED <<repositoryVars, scenario, uiState, kind, historyVars>>
           \/ UNCHANGED vars
  <2>1. UNCHANGED <<minted, pc, key>>
    BY <1>5 DEF OnLocalNetworkPermissionDenied, WriteBehind, vars, keystoreVars,
                repositoryVars
  <2> QED BY <1>0, <1>1, <2>1 DEF KInv, OwnKeys
<1> QED BY <1>0, <1>2, <1>3, <1>4, <1>5 DEF KInv, Next
-----------------------------------------------------------------------------
(* The certificates the client holds                                       *)

\* A device in the registry is there with its own key's certificate, and it
\* is flagged only if that certificate is listed, which only its own is.
RegistryOK ==
    /\ \A k \in DeviceKeys : Registry!HasDevice(Id(k)) =>
         /\ devices[Id(k)].CertSerial = k
         /\ devices[Id(k)].IsRevoked => Registry!IsSerialRevoked(k)
    /\ \A k \in revokedSerials : Registry!HasDevice(Id(k))

\* Only a restart makes the registry lose a key that was granted.
GrantsKept ==
    \A k \in DeviceKeys :
        enrolment[k] = "granted" => Registry!HasDevice(Id(k)) \/ k \in forgotten

\* A key is sent once, and its certificate is saved after it was granted.
AnswersOK ==
    \A c \in Calls :
        /\ pc[c] = "request" => enrolment[key[c]] = "none"
        /\ pc[c] \in {"save", "delete", "swap"} => enrolment[key[c]] = "granted"

HeldGranted == \A k \in Held \ {Nil} : enrolment[k] = "granted"

EInv ==
    /\ KInv
    /\ SystemTypeOK
    /\ RegistryOK
    /\ GrantsKept
    /\ AnswersOK
    /\ HeldGranted

\* Identities are those of the keys, and one key's only.
LEMMA Identity ==
  ASSUME NEW j \in DeviceKeys, NEW k \in DeviceKeys, Id(j) = Id(k)
  PROVE  j = k
BY DEF Id, Registry!PublicKeyFingerprint

\* A registration adds the one device.
LEMMA RegisterKeeps ==
  ASSUME NEW k \in DeviceKeys, Registry!RepoTypeOK, RegistryOK,
         Registry!RegisterDevice(Id(k), k)
  PROVE  /\ Registry!RepoTypeOK' /\ RegistryOK'
         /\ \A j \in DeviceKeys :
              Registry!HasDevice(Id(j))' <=> (Registry!HasDevice(Id(j)) \/ j = k)
<1>1. devices' = Registry!Put(devices, Id(k), [CertSerial |-> k, IsRevoked |-> FALSE])
  BY DEF Registry!RegisterDevice
<1>2. revokedSerials' = revokedSerials
  BY DEF Registry!RegisterDevice
<1> DEFINE record == [CertSerial |-> k, IsRevoked |-> FALSE]
<1>3. /\ DOMAIN devices' = DOMAIN devices \cup {Id(k)}
      /\ devices' = [i \in DOMAIN devices' |-> IF i = Id(k) THEN record ELSE devices[i]]
      /\ \A i \in DOMAIN devices' : devices'[i] = IF i = Id(k) THEN record ELSE devices[i]
  BY <1>1 DEF Registry!Put
<1>4. record \in Registry!DeviceRecord
  BY DEF Registry!DeviceRecord
<1>5. Id(k) \in Registry!Identities
  BY DEF Id, Registry!Identities
<1>6. /\ DOMAIN devices \subseteq Registry!Identities
      /\ \A i \in DOMAIN devices : devices[i] \in Registry!DeviceRecord
      /\ revokedSerials \subseteq DeviceKeys
  BY DEF Registry!RepoTypeOK, Registry!IsMapOf
<1> HIDE DEF record
<1>7. Registry!RepoTypeOK'
  BY <1>2, <1>3, <1>4, <1>5, <1>6 DEF Registry!RepoTypeOK, Registry!IsMapOf
<1>8. \A j \in DeviceKeys :
        Registry!HasDevice(Id(j))' <=> (Registry!HasDevice(Id(j)) \/ j = k)
  BY <1>3, Identity DEF Registry!HasDevice
<1>9. RegistryOK'
  <2>1. ASSUME NEW j \in DeviceKeys, Registry!HasDevice(Id(j))'
        PROVE  /\ devices'[Id(j)].CertSerial = j
               /\ devices'[Id(j)].IsRevoked => Registry!IsSerialRevoked(j)'
    <3>1. CASE j = k
      BY <1>3, <2>1, <3>1 DEF Registry!HasDevice, record
    <3>2. CASE j # k
      <4>1. Id(j) # Id(k)
        BY <3>2, Identity
      <4>2. Registry!HasDevice(Id(j)) /\ devices'[Id(j)] = devices[Id(j)]
        BY <1>3, <2>1, <4>1 DEF Registry!HasDevice
      <4> QED BY <1>2, <4>2 DEF RegistryOK, Registry!IsSerialRevoked
    <3> QED BY <3>1, <3>2
  <2>2. \A j \in revokedSerials' : Registry!HasDevice(Id(j))'
    BY <1>2, <1>6, <1>8 DEF RegistryOK
  <2> QED BY <2>1, <2>2 DEF RegistryOK
<1> QED BY <1>7, <1>8, <1>9

\* A revocation flags the one device and lists its certificate.
LEMMA RevokeKeeps ==
  ASSUME NEW k \in DeviceKeys, Registry!RepoTypeOK, RegistryOK,
         Registry!RevokeDevice(Id(k))
  PROVE  /\ Registry!RepoTypeOK' /\ RegistryOK'
         /\ \A j \in DeviceKeys : Registry!HasDevice(Id(j))' <=> Registry!HasDevice(Id(j))
<1>1. /\ Id(k) \in DOMAIN devices
      /\ devices' = [devices EXCEPT ![Id(k)].IsRevoked = TRUE]
      /\ revokedSerials' = revokedSerials \cup {devices[Id(k)].CertSerial}
  BY DEF Registry!RevokeDevice, Registry!HasDevice
<1>2. /\ DOMAIN devices \subseteq Registry!Identities
      /\ devices \in [DOMAIN devices -> Registry!DeviceRecord]
      /\ revokedSerials \subseteq DeviceKeys
  BY DEF Registry!RepoTypeOK, Registry!IsMapOf
<1>3. devices[Id(k)].CertSerial = k
  BY <1>1 DEF RegistryOK, Registry!HasDevice
<1>4. /\ DOMAIN devices' = DOMAIN devices
      /\ devices' \in [DOMAIN devices -> Registry!DeviceRecord]
      /\ devices'[Id(k)].CertSerial = k
      /\ \A i \in DOMAIN devices : i # Id(k) => devices'[i] = devices[i]
  BY <1>1, <1>2, <1>3 DEF Registry!DeviceRecord
<1>5. revokedSerials' = revokedSerials \cup {k}
  BY <1>1, <1>3
<1>6. Registry!RepoTypeOK'
  BY <1>2, <1>4, <1>5 DEF Registry!RepoTypeOK, Registry!IsMapOf
<1>7. \A j \in DeviceKeys : Registry!HasDevice(Id(j))' <=> Registry!HasDevice(Id(j))
  BY <1>4 DEF Registry!HasDevice
<1>8. RegistryOK'
  <2>1. ASSUME NEW j \in DeviceKeys, Registry!HasDevice(Id(j))
        PROVE  /\ devices'[Id(j)].CertSerial = j
               /\ devices'[Id(j)].IsRevoked => Registry!IsSerialRevoked(j)'
    <3>1. CASE j = k
      BY <1>4, <1>5, <3>1 DEF Registry!IsSerialRevoked
    <3>2. CASE j # k
      <4>1. Id(j) # Id(k)
        BY <3>2, Identity
      <4>2. devices'[Id(j)] = devices[Id(j)]
        BY <1>4, <2>1, <4>1 DEF Registry!HasDevice
      <4> QED BY <1>5, <2>1, <4>2 DEF RegistryOK, Registry!IsSerialRevoked
    <3> QED BY <3>1, <3>2
  <2>2. \A j \in revokedSerials' : Registry!HasDevice(Id(j))'
    BY <1>1, <1>2, <1>5, <1>7 DEF RegistryOK, Registry!HasDevice
  <2> QED BY <1>7, <2>1, <2>2 DEF RegistryOK
<1> QED BY <1>6, <1>7, <1>8

\* Where a call's certificates come from: its own key when the answer is
\* there, else the app's other copies.
LEMMA CallCertificates ==
  ASSUME KInv, NEW c \in Calls, CallStep(c)
  PROVE  /\ onDisk' = onDisk /\ minted \subseteq minted'
         /\ \/ prefs'.client_cert_pem = prefs.client_cert_pem
            \/ pc[c] = "save" /\ prefs'.client_cert_pem = key[c]
         /\ \/ cachedClientChain' \in {Nil, cachedClientChain, prefs.client_cert_pem}
            \/ pc[c] = "post" /\ pc'[c] = "save" /\ cachedClientChain' = key[c]
         /\ \/ protectedApi' \in {Nil, protectedApi}
            \/ protectedApi'.chain \in {cachedClientChain, prefs.client_cert_pem}
         /\ \A d \in Calls \ {c} : pc'[d] = pc[d] /\ key'[d] = key[d]
         /\ pc'[c] = "request" => key'[c] \in DeviceKeys \ minted
         /\ pc'[c] \in {"save", "delete", "swap"} =>
              /\ key'[c] = key[c]
              /\ pc[c] \in {"save", "delete"} \/ (pc[c] = "post" /\ pc'[c] = "save")
         /\ pc'[c] = "call" => protectedApi' \in [alias : Aliases, chain : DeviceKeys \cup {Nil}]
<1>0. /\ pc \in [Calls -> {"idle"} \cup EnrollSteps \cup PingSteps \cup Returned]
      /\ key \in [Calls -> DeviceKeys \cup {Nil}]
      /\ KeystoreTypeOK /\ TInv'
      /\ protectedApi = Nil \/ protectedApi \in [alias : Aliases, chain : DeviceKeys \cup {Nil}]
      /\ cachedClientChain \in DeviceKeys \cup {Nil}
      /\ prefs \in Preferences
      /\ \A d \in Calls : pc[d] = "build" => alias[d] \in Aliases
  BY TInvStep DEF KInv, TInv, TypeOK, RepositoryTypeOK, KeystoreTypeOK, Next
<1> USE <1>0 DEF Goto, At, keystoreVars, Preferences
<1>1. CASE GenerateKey(c)
  <2>1. FreshKey \in DeviceKeys \ minted
    BY <1>1, FreshKeyIsNew DEF GenerateKey
  <2> QED BY <1>1, <2>1 DEF GenerateKey, GenerateInSlot
<1>2. CASE Invalidate(c) \/ GetChallenge(c) \/ ChooseSlot(c) \/ GenerateKeyFails(c)
  BY <1>2 DEF Invalidate, GetChallenge, ChooseSlot, GenerateKeyFails
<1>3. CASE BuildRequest(c) \/ EnrollFails(c) \/ DiscardPendingKey(c) \/ DeletePreviousFails(c)
  BY <1>3 DEF BuildRequest, EnrollFails, DiscardPendingKey, DeletePreviousFails
<1>4. CASE EnrollSucceeds(c) \/ DeletePrevious(c)
  BY <1>4 DEF EnrollSucceeds, DeletePrevious
<1>5. CASE SaveCertificate(c) \/ SwapSlots(c)
  BY <1>5 DEF SaveCertificate, SwapSlots, saveClientCertificatePem, saveActiveAlias
<1>6. CASE UseCachedClient(c) \/ StartBuildingClient(c) \/ Ping(c)
  BY <1>6 DEF UseCachedClient, StartBuildingClient, Ping
<1>7. CASE BuildClient(c) \/ BuildClientFails(c)
  BY <1>7 DEF BuildClient, BuildClientFails, ResolvedChain
<1>8. CASE OnEnrolled(c) \/ OnPinged(c) \/ OnFailed(c)
  BY <1>8 DEF OnEnrolled, OnPinged, OnFailed, Resume
<1> QED BY <1>1, <1>2, <1>3, <1>4, <1>5, <1>6, <1>7, <1>8 DEF CallStep, RepositoryStep

\* What a step may do to the enrolments: it sends a new key, or answers.
Answers ==
    \A k \in DeviceKeys :
        enrolment'[k] = enrolment[k] \/ (enrolment[k] = "sent" /\ enrolment'[k] # "none")

\* Steps of the backend leave the client's certificates where they are.
LEMMA BackendStepKeeps ==
  ASSUME EInv, UNCHANGED <<vars, client>>, Answers
  PROVE  AnswersOK' /\ HeldGranted'
<1>1. UNCHANGED <<prefs, onDisk, pc, key, protectedApi, cachedClientChain, client>>
  BY DEF vars, keystoreVars, repositoryVars
<1>2. key \in [Calls -> DeviceKeys \cup {Nil}] /\ OwnKeys
  BY DEF EInv, KInv, TInv, TypeOK, RepositoryTypeOK
<1>3. AnswersOK'
  <2> SUFFICES ASSUME NEW c \in Calls
               PROVE  /\ pc[c] = "request" => enrolment'[key[c]] = "none"
                      /\ pc[c] \in {"save", "delete", "swap"} => enrolment'[key[c]] = "granted"
    BY <1>1 DEF AnswersOK
  <2>1. pc[c] \in HasKey => key[c] \in DeviceKeys
    BY <1>2 DEF OwnKeys
  <2> QED BY <2>1 DEF EInv, AnswersOK, Answers, HasKey
<1>4. Held' = Held
  BY <1>1 DEF Held
<1>5. Held \subseteq DeviceKeys \cup {Nil}
  BY DEF Held, EInv, SystemTypeOK, TypeOK, RepositoryTypeOK, KeystoreTypeOK, Preferences
<1>6. HeldGranted'
  BY <1>4, <1>5 DEF EInv, HeldGranted, Answers
<1> QED BY <1>3, <1>6

\* A client that starts a call, waits or writes its preferences sends nothing.
LEMMA QuietStepKeeps ==
  ASSUME EInv, KInv', UNCHANGED <<backendVars, client, faults>>,
         UNCHANGED <<prefs, minted, key, protectedApi, cachedClientChain>>,
         onDisk' \in {onDisk, prefs},
         \A c \in Calls : pc'[c] = pc[c] \/ (pc[c] = "idle" /\ pc'[c] \in {"invalidate", "client"})
  PROVE  EInv'
<1>1. UNCHANGED <<devices, revokedSerials, challenged, enrolment, lapsed, forgotten,
                  client, faults>>
  BY DEF backendVars, registryVars
<1>2. RegistryOK' /\ GrantsKept'
  BY <1>1 DEF EInv, RegistryOK, GrantsKept, Registry!HasDevice, Registry!IsSerialRevoked
<1>3. AnswersOK'
  BY <1>1 DEF EInv, AnswersOK
<1>4. Held' \subseteq Held
  BY <1>1 DEF Held
<1>5. HeldGranted'
  BY <1>1, <1>4 DEF EInv, HeldGranted
<1>6. SystemTypeOK'
  <2>1. TypeOK'
    BY DEF KInv, TInv
  <2>2. \A c \in Calls : pc'[c] = "call" <=> pc[c] = "call"
    OBVIOUS
  <2> QED BY <1>1, <2>1, <2>2 DEF EInv, SystemTypeOK, Registry!RepoTypeOK
<1> QED BY <1>2, <1>3, <1>5, <1>6 DEF EInv

\* A killed app has nothing but what is on its disk.
LEMMA KillKeeps == ASSUME EInv, KInv', AppIsKilled PROVE EInv'
<1>1. /\ UNCHANGED <<devices, revokedSerials, enrolment, lapsed, forgotten>>
      /\ prefs' = onDisk /\ UNCHANGED <<onDisk, minted>>
      /\ protectedApi' = Nil /\ cachedClientChain' = Nil
      /\ challenged' = {} /\ client' = [c \in Calls |-> Nil]
      /\ \A c \in Calls : pc'[c] = "idle"
      /\ faults < MaxFaults /\ faults' = faults + 1
  BY DEF AppIsKilled, KillAndRestart, KeystoreRestart, RepositoryRestart, registryVars, Fault
<1>2. RegistryOK' /\ GrantsKept'
  BY <1>1 DEF EInv, RegistryOK, GrantsKept, Registry!HasDevice, Registry!IsSerialRevoked
<1>3. AnswersOK'
  BY <1>1 DEF AnswersOK
<1>4. Held' \subseteq Held \cup {Nil}
  BY <1>1 DEF Held
<1>5. HeldGranted'
  BY <1>1, <1>4 DEF EInv, HeldGranted
<1>6. SystemTypeOK'
  <2>1. TypeOK'
    BY DEF KInv, TInv
  <2>2. faults' \in 0..MaxFaults
    BY <1>1, EndToEndAssumption DEF EInv, SystemTypeOK
  <2> QED BY <1>1, <2>1, <2>2 DEF EInv, SystemTypeOK, Registry!RepoTypeOK
<1> QED BY <1>2, <1>3, <1>5, <1>6 DEF EInv

\* A step of a call.  It may send the request of its key, once, and take a
\* certificate that has been granted.
LEMMA AppStepKeeps ==
  ASSUME EInv, KInv', NEW c \in Calls, AppStep(c)
  PROVE  EInv'
<1> DEFINE k == key[c]
           sends == pc[c] = "request" /\ pc'[c] = "post"
<1>0. /\ key \in [Calls -> DeviceKeys \cup {Nil}] /\ OwnKeys /\ KInv
      /\ enrolment \in [DeviceKeys -> {"none", "sent", "granted", "refused"}]
  BY DEF EInv, KInv, TInv, TypeOK, RepositoryTypeOK, SystemTypeOK
<1>1. /\ onDisk' = onDisk /\ minted \subseteq minted'
      /\ \/ prefs'.client_cert_pem = prefs.client_cert_pem
         \/ pc[c] = "save" /\ prefs'.client_cert_pem = k
      /\ \/ cachedClientChain' \in {Nil, cachedClientChain, prefs.client_cert_pem}
         \/ pc[c] = "post" /\ pc'[c] = "save" /\ cachedClientChain' = k
      /\ \/ protectedApi' \in {Nil, protectedApi}
         \/ protectedApi'.chain \in {cachedClientChain, prefs.client_cert_pem}
      /\ \A d \in Calls \ {c} : pc'[d] = pc[d] /\ key'[d] = key[d]
      /\ pc'[c] = "request" => key'[c] \in DeviceKeys \ minted
      /\ pc'[c] \in {"save", "delete", "swap"} =>
           /\ key'[c] = k
           /\ pc[c] \in {"save", "delete"} \/ (pc[c] = "post" /\ pc'[c] = "save")
      /\ pc'[c] = "call" =>
           protectedApi' \in [alias : Aliases, chain : DeviceKeys \cup {Nil}]
  BY <1>0, CallCertificates DEF AppStep
<1>2. /\ pc[c] = "post" /\ pc'[c] = "save" => enrolment[k] = "granted"
      /\ sends => \/ enrolment' = [enrolment EXCEPT ![k] = "sent"]
                  \/ enrolment' = [enrolment EXCEPT ![k] = "refused"]
      /\ ~sends => enrolment' = enrolment
      /\ client' = [client EXCEPT ![c] = IF pc'[c] = "call" THEN protectedApi' ELSE Nil]
      /\ faults' = faults \/ (faults < MaxFaults /\ faults' = faults + 1)
      /\ challenged' \subseteq challenged \cup {c}
      /\ UNCHANGED <<devices, revokedSerials, lapsed, forgotten>>
  BY DEF AppStep, registryVars, Fault
<1>3. pc[c] \in HasKey => k \in DeviceKeys /\ k \in minted
  BY <1>0 DEF OwnKeys
<1>4. pc[c] = "request" => enrolment[k] = "none"
  BY DEF EInv, AnswersOK
<1>5. /\ enrolment' \in [DeviceKeys -> {"none", "sent", "granted", "refused"}]
      /\ \A j \in DeviceKeys : j # k \/ ~sends => enrolment'[j] = enrolment[j]
      /\ \A j \in DeviceKeys : enrolment[j] = "granted" <=> enrolment'[j] = "granted"
  BY <1>0, <1>2, <1>3, <1>4 DEF HasKey
<1>6. RegistryOK' /\ GrantsKept'
  BY <1>2, <1>5 DEF EInv, RegistryOK, GrantsKept, Registry!HasDevice, Registry!IsSerialRevoked
<1>7. AnswersOK'
  <2>1. ASSUME NEW d \in Calls, d # c
        PROVE  /\ pc'[d] = "request" => enrolment'[key'[d]] = "none"
               /\ pc'[d] \in {"save", "delete", "swap"} => enrolment'[key'[d]] = "granted"
    <3>1. pc'[d] = pc[d] /\ key'[d] = key[d]
      BY <1>1, <2>1
    <3>2. pc[d] \in HasKey => key[d] \in DeviceKeys /\ (sends => key[d] # k)
      BY <1>0, <2>1 DEF OwnKeys, HasKey
    <3>3. pc[d] \in HasKey => enrolment'[key[d]] = enrolment[key[d]]
      BY <1>5, <3>2
    <3> QED BY <3>1, <3>3 DEF EInv, AnswersOK, HasKey
  <2>2. pc'[c] = "request" => enrolment'[key'[c]] = "none"
    <3> SUFFICES ASSUME pc'[c] = "request" PROVE enrolment'[key'[c]] = "none"
      OBVIOUS
    <3>1. key'[c] \in DeviceKeys /\ key'[c] \notin minted /\ ~sends
      BY <1>1
    <3>2. enrolment[key'[c]] = "none"
      BY <3>1, <1>0 DEF EInv, SystemTypeOK
    <3> QED BY <1>5, <3>1, <3>2
  <2>3. pc'[c] \in {"save", "delete", "swap"} => enrolment'[key'[c]] = "granted"
    <3> SUFFICES ASSUME pc'[c] \in {"save", "delete", "swap"}
                 PROVE  enrolment'[key'[c]] = "granted"
      OBVIOUS
    <3>1. enrolment[k] = "granted" /\ key'[c] = k /\ pc[c] \in HasKey
      BY <1>1, <1>2 DEF EInv, AnswersOK, HasKey
    <3> QED BY <1>3, <1>5, <3>1
  <2> QED BY <2>1, <2>2, <2>3 DEF AnswersOK
<1>8. HeldGranted'
  <2>1. Held' \subseteq Held \cup {Nil} \cup
          (IF pc[c] = "save" \/ (pc[c] = "post" /\ pc'[c] = "save") THEN {k} ELSE {})
    <3>1. ASSUME NEW d \in Calls, client'[d] # Nil
          PROVE  client'[d] \in {client[d], protectedApi'}
      BY <1>2, <3>1 DEF EInv, SystemTypeOK
    <3>2. protectedApi' # Nil => protectedApi'.chain \in Held
      BY <1>1 DEF Held
    <3>3. \A d \in Calls : client'[d] # Nil => client'[d].chain \in Held
      BY <3>1, <3>2 DEF Held
    <3> QED BY <1>1, <3>2, <3>3 DEF Held
  <2>2. pc[c] = "save" => enrolment[k] = "granted"
    BY DEF EInv, AnswersOK
  <2>3. Held \subseteq DeviceKeys \cup {Nil}
    BY DEF Held, EInv, SystemTypeOK, TypeOK, RepositoryTypeOK, KeystoreTypeOK, Preferences
  <2> QED BY <1>2, <1>3, <1>5, <2>1, <2>2, <2>3 DEF EInv, HeldGranted, HasKey
<1>9. SystemTypeOK'
  <2>1. TypeOK'
    BY DEF KInv, TInv
  <2>2. faults' \in 0..MaxFaults
    BY <1>2, EndToEndAssumption DEF EInv, SystemTypeOK
  <2>3. \A j \in DeviceKeys : enrolment'[j] # "none" => j \in minted'
    BY <1>1, <1>3, <1>5 DEF EInv, SystemTypeOK, HasKey
  <2>4. /\ DOMAIN client' = Calls
        /\ \A d \in Calls :
             client'[d] \in IF pc'[d] = "call"
                            THEN [alias : Aliases, chain : DeviceKeys \cup {Nil}]
                            ELSE {Nil}
    <3> DEFINE Api == [alias : Aliases, chain : DeviceKeys \cup {Nil}]
    <3>1. /\ DOMAIN client = Calls
          /\ \A d \in Calls : client[d] \in IF pc[d] = "call" THEN Api ELSE {Nil}
      BY DEF EInv, SystemTypeOK
    <3>2. pc'[c] = "call" => protectedApi' \in Api
      BY <1>1
    <3>3. \A d \in Calls \ {c} : pc'[d] = pc[d]
      BY <1>1
    <3> HIDE DEF Api
    <3>4. /\ DOMAIN client' = Calls
          /\ client'[c] = IF pc'[c] = "call" THEN protectedApi' ELSE Nil
          /\ \A d \in Calls \ {c} : client'[d] = client[d]
      BY <1>2, <3>1
    <3>5. \A d \in Calls : client'[d] \in IF pc'[d] = "call" THEN Api ELSE {Nil}
      BY <3>1, <3>2, <3>3, <3>4
    <3> QED BY <3>4, <3>5 DEF Api
  <2>5. challenged' \subseteq Calls
    BY <1>2 DEF EInv, SystemTypeOK
  <2> QED BY <1>2, <1>5, <2>1, <2>2, <2>3, <2>4, <2>5 DEF EInv, SystemTypeOK, Registry!RepoTypeOK
<1> QED BY <1>6, <1>7, <1>8, <1>9 DEF EInv

\* Steps of the backend, but for the types.
LEMMA BackendSteps ==
  ASSUME EInv, NEW k \in DeviceKeys,
         BackendEnrolls(k) \/ BackendRefuses(k) \/ OperatorRevokes(k) \/ Lapse(k)
  PROVE  RegistryOK' /\ GrantsKept' /\ Answers /\ SystemTypeOK'
<1>0. /\ Registry!RepoTypeOK /\ RegistryOK /\ GrantsKept
      /\ enrolment \in [DeviceKeys -> {"none", "sent", "granted", "refused"}]
      /\ lapsed \subseteq DeviceKeys /\ challenged \subseteq Calls
      /\ forgotten \subseteq DeviceKeys /\ faults \in 0..MaxFaults
      /\ \A j \in DeviceKeys : enrolment[j] # "none" => j \in minted
  BY DEF EInv, SystemTypeOK
<1>1. UNCHANGED <<vars, client, challenged, forgotten>>
  BY DEF BackendEnrolls, BackendRefuses, OperatorRevokes, Lapse
<1>2. TypeOK' /\ UNCHANGED <<minted, pc>>
  BY <1>1 DEF EInv, SystemTypeOK, vars, keystoreVars, repositoryVars, TypeOK,
              KeystoreTypeOK, RepositoryTypeOK, historyVars
<1>3. /\ DOMAIN client' = Calls
      /\ \A c \in Calls :
           client'[c] \in IF pc'[c] = "call"
                          THEN [alias : Aliases, chain : DeviceKeys \cup {Nil}]
                          ELSE {Nil}
  BY <1>1, <1>2 DEF EInv, SystemTypeOK
<1>4. /\ faults' \in 0..MaxFaults /\ lapsed' \subseteq DeviceKeys
      /\ challenged' = challenged /\ forgotten' = forgotten
  BY <1>0, <1>1, EndToEndAssumption
     DEF BackendEnrolls, BackendRefuses, OperatorRevokes, Lapse, Fault
<1>5. /\ Answers /\ \A j \in DeviceKeys : enrolment'[j] # "none" => j \in minted'
      /\ enrolment' \in [DeviceKeys -> {"none", "sent", "granted", "refused"}]
  BY <1>0, <1>2
     DEF BackendEnrolls, BackendRefuses, OperatorRevokes, Lapse, Answers
<1>6. Registry!RepoTypeOK' /\ RegistryOK' /\ GrantsKept'
  <2>1. CASE BackendEnrolls(k)
    <3>1. /\ Registry!RepoTypeOK' /\ RegistryOK'
          /\ \A j \in DeviceKeys :
               Registry!HasDevice(Id(j))' <=> (Registry!HasDevice(Id(j)) \/ j = k)
      BY <1>0, <2>1, RegisterKeeps DEF BackendEnrolls
    <3>2. enrolment' = [enrolment EXCEPT ![k] = "granted"]
      BY <2>1 DEF BackendEnrolls
    <3>3. GrantsKept'
      BY <1>0, <1>4, <3>1, <3>2 DEF GrantsKept
    <3> QED BY <3>1, <3>3
  <2>2. CASE OperatorRevokes(k)
    <3>1. /\ Registry!RepoTypeOK' /\ RegistryOK'
          /\ \A j \in DeviceKeys : Registry!HasDevice(Id(j))' <=> Registry!HasDevice(Id(j))
      BY <1>0, <2>2, RevokeKeeps DEF OperatorRevokes
    <3>2. enrolment' = enrolment
      BY <2>2 DEF OperatorRevokes
    <3>3. GrantsKept'
      BY <1>0, <1>4, <3>1, <3>2 DEF GrantsKept
    <3> QED BY <3>1, <3>3
  <2>3. CASE BackendRefuses(k) \/ Lapse(k)
    <3>1. /\ devices' = devices /\ revokedSerials' = revokedSerials
          /\ \A j \in DeviceKeys : enrolment'[j] = "granted" => enrolment[j] = "granted"
      BY <1>0, <2>3 DEF BackendRefuses, Lapse, registryVars
    <3> QED BY <1>0, <1>4, <3>1
            DEF Registry!RepoTypeOK, RegistryOK, GrantsKept, Registry!HasDevice,
                Registry!IsSerialRevoked
  <2> QED BY <2>1, <2>2, <2>3
<1> QED BY <1>2, <1>3, <1>4, <1>5, <1>6, <1>0 DEF SystemTypeOK

\* A restart forgets every device, those of granted keys included, and drops
\* the requests on their way.
LEMMA RestartForgets ==
  ASSUME EInv, BackendRestarts
  PROVE  RegistryOK' /\ GrantsKept' /\ Answers /\ SystemTypeOK'
<1>0. /\ GrantsKept /\ EInv
      /\ enrolment \in [DeviceKeys -> {"none", "sent", "granted", "refused"}]
      /\ forgotten \subseteq DeviceKeys /\ faults \in 0..MaxFaults
      /\ \A j \in DeviceKeys : enrolment[j] # "none" => j \in minted
  BY DEF EInv, SystemTypeOK
<1>1. /\ UNCHANGED <<vars, client, lapsed>> /\ challenged' = {}
      /\ faults < MaxFaults /\ faults' = faults + 1
      /\ devices' = Registry!EmptyMap /\ revokedSerials' = {}
      /\ enrolment' = [k \in DeviceKeys |->
                         IF enrolment[k] = "sent" THEN "refused" ELSE enrolment[k]]
      /\ forgotten' = forgotten \cup {k \in DeviceKeys : Registry!HasDevice(Id(k))}
  BY DEF BackendRestarts, Registry!RepoRestart, Fault
<1>2. TypeOK' /\ UNCHANGED <<minted, pc>>
  BY <1>0, <1>1 DEF EInv, SystemTypeOK, vars, keystoreVars, repositoryVars, TypeOK,
              KeystoreTypeOK, RepositoryTypeOK, historyVars
<1>3. DOMAIN devices' = {} /\ Registry!RepoTypeOK'
  BY <1>1 DEF Registry!EmptyMap, Registry!RepoTypeOK, Registry!IsMapOf
<1>4. RegistryOK'
  BY <1>1, <1>3 DEF RegistryOK, Registry!HasDevice
<1>5. GrantsKept' /\ Answers
  BY <1>0, <1>1 DEF GrantsKept, Answers
<1>6. /\ DOMAIN client' = Calls
      /\ \A c \in Calls :
           client'[c] \in IF pc'[c] = "call"
                          THEN [alias : Aliases, chain : DeviceKeys \cup {Nil}]
                          ELSE {Nil}
  BY <1>1, <1>2 DEF EInv, SystemTypeOK
<1>7. faults' \in 0..MaxFaults /\ forgotten' \subseteq DeviceKeys /\ lapsed' \subseteq DeviceKeys
  BY <1>0, <1>1, EndToEndAssumption DEF SystemTypeOK, EInv
<1>8. /\ \A j \in DeviceKeys : enrolment'[j] # "none" => j \in minted'
      /\ enrolment' \in [DeviceKeys -> {"none", "sent", "granted", "refused"}]
  BY <1>0, <1>1, <1>2
<1> QED BY <1>1, <1>2, <1>3, <1>4, <1>5, <1>6, <1>7, <1>8 DEF SystemTypeOK

\* A fresh device and a fresh backend know nothing of each other.
LEMMA EInvInit == SystemInit => EInv
<1> SUFFICES ASSUME SystemInit PROVE EInv
  OBVIOUS
<1>1. KInv
  BY KInvInit DEF SystemInit
<1>2. /\ devices = Registry!EmptyMap /\ revokedSerials = {} /\ challenged = {}
      /\ enrolment = [k \in DeviceKeys |-> "none"]
      /\ lapsed = {} /\ forgotten = {} /\ client = [c \in Calls |-> Nil] /\ faults = 0
      /\ \A c \in Calls : pc[c] = "idle"
      /\ protectedApi = Nil /\ cachedClientChain = Nil
      /\ prefs.client_cert_pem = Nil /\ onDisk.client_cert_pem = Nil
  BY DEF SystemInit, Registry!RepoInit, Init, KeystoreInit, RepositoryInit
<1>3. DOMAIN devices = {} /\ Registry!RepoTypeOK
  BY <1>2 DEF Registry!EmptyMap, Registry!RepoTypeOK, Registry!IsMapOf
<1>4. SystemTypeOK
  BY <1>1, <1>2, <1>3, EndToEndAssumption DEF KInv, TInv, SystemTypeOK
<1>5. Held = {Nil}
  BY <1>2 DEF Held
<1> QED BY <1>1, <1>2, <1>3, <1>4, <1>5
        DEF EInv, RegistryOK, GrantsKept, AnswersOK, HeldGranted, Registry!HasDevice

\* Every step of the system keeps the invariant.
LEMMA EInvStep == ASSUME EInv, [SystemNext]_systemVars PROVE EInv'
<1>0. KInv'
  BY SystemStepIsClientStep, KInvStep DEF EInv
<1>1. ASSUME NEW c \in Calls, TapConnect(c) \/ OtherEntryPoint(c) PROVE EInv'
  <2>1. /\ UNCHANGED <<backendVars, client, faults>>
        /\ UNCHANGED <<prefs, onDisk, minted, key, protectedApi, cachedClientChain>>
        /\ pc[c] = "idle"
        /\ \E step \in {"invalidate", "client"} : pc' = [pc EXCEPT ![c] = step]
    BY <1>1 DEF TapConnect, OtherEntryPoint, Enroll, PingProtected, Connect, Launch, Goto,
                At, keystoreVars
  <2>2. pc \in [Calls -> {"idle"} \cup EnrollSteps \cup PingSteps \cup Returned]
    BY DEF EInv, KInv, TInv, TypeOK, RepositoryTypeOK
  <2> QED BY <1>0, <2>1, <2>2, QuietStepKeeps
<1>2. CASE OtherAppStep
  <2>1. /\ UNCHANGED <<backendVars, client, faults>>
        /\ UNCHANGED <<prefs, minted, pc, key, protectedApi, cachedClientChain>>
        /\ onDisk' \in {onDisk, prefs}
    BY <1>2 DEF OtherAppStep, OnLocalNetworkPermissionDenied, WriteBehind, keystoreVars,
                repositoryVars
  <2> QED BY <1>0, <2>1, QuietStepKeeps
<1>3. CASE UNCHANGED systemVars
  <2>1. /\ UNCHANGED <<backendVars, client, faults>>
        /\ UNCHANGED <<prefs, minted, pc, key, protectedApi, cachedClientChain, onDisk>>
    BY <1>3 DEF systemVars, vars, keystoreVars, repositoryVars
  <2> QED BY <1>0, <2>1, QuietStepKeeps
<1>4. ASSUME NEW k \in DeviceKeys,
             BackendEnrolls(k) \/ BackendRefuses(k) \/ OperatorRevokes(k) \/ Lapse(k)
      PROVE  EInv'
  <2>1. UNCHANGED <<vars, client>>
    BY <1>4 DEF BackendEnrolls, BackendRefuses, OperatorRevokes, Lapse
  <2> QED BY <1>0, <1>4, <2>1, BackendSteps, BackendStepKeeps DEF EInv
<1>5. CASE BackendRestarts
  <2>1. UNCHANGED <<vars, client>>
    BY <1>5 DEF BackendRestarts
  <2> QED BY <1>0, <1>5, <2>1, RestartForgets, BackendStepKeeps DEF EInv
<1> QED BY <1>0, <1>1, <1>2, <1>3, <1>4, <1>5, AppStepKeeps, KillKeeps DEF SystemNext

\* Hence it always holds, whatever the scenarios.
LEMMA EInvAlways == SystemSpec => []EInv
<1>1. EInv /\ [SystemNext]_systemVars => EInv'
  BY EInvStep
<1> QED BY <1>1, EInvInit, PTL DEF SystemSpec

\* The system's variables keep their types, and the faults their bound.
THEOREM SystemTypeCorrect == SystemSpec => []SystemTypeOK
<1>1. EInv => SystemTypeOK
  BY DEF EInv
<1> QED BY <1>1, EInvAlways, PTL

\* A granted key is current in the registry, or was turned away.
LEMMA GrantedIsRegistered ==
  ASSUME EInv, NEW k \in DeviceKeys, enrolment[k] = "granted"
  PROVE  Authorized(k) \/ TurnedAway(k)
BY DEF EInv, RegistryOK, GrantsKept, Authorized, TurnedAway, Registry!IsDeviceActive,
       Registry!IsSerialRevoked

\* enroll_handler.go:185, 214, device_repo.go:55-59.  However calls, kills,
\* late requests, restarts and revocations interleave, the client has no
\* certificate anywhere that the registry was not made to stand for.
THEOREM HeldRegistered == SystemSpec => []HeldIsRegistered
<1>1. EInv => HeldIsRegistered
  <2> SUFFICES ASSUME EInv, NEW k \in Held \ {Nil}
               PROVE  Authorized(k) \/ TurnedAway(k)
    BY DEF HeldIsRegistered
  <2>1. k \in DeviceKeys
    BY DEF Held, EInv, SystemTypeOK, TypeOK, RepositoryTypeOK, KeystoreTypeOK, Preferences
  <2>2. enrolment[k] = "granted"
    BY DEF EInv, HeldGranted
  <2> QED BY <2>1, <2>2, GrantedIsRegistered
<1> QED BY <1>1, EInvAlways, PTL

-----------------------------------------------------------------------------
(* Nothing in progress                                                     *)

\* The client's invariant holds with the backend at the other end.
LEMMA ClientInvAlways == Dependable => (SystemSpec => []CInv)
<1> SUFFICES ASSUME Dependable PROVE SystemSpec => []CInv
  OBVIOUS
<1>1. SystemInit => CInv
  BY CInvInit DEF SystemInit
<1>2. CInv /\ [SystemNext]_systemVars => CInv'
  BY CInvStep, SystemStepIsClientStep
<1> QED BY <1>1, <1>2, PTL DEF SystemSpec

\* The registry has the key in the active slot unless calls have overlapped
\* and none has repaired what they left.
LEMMA RestRegistered ==
  ASSUME EInv, CInv, ~raced
  PROVE  EnrolledIsRegistered
<1> SUFFICES ASSUME AtRest, isEnrolled
             PROVE  /\ UsableIdentity # Nil
                    /\ Authorized(UsableIdentity) \/ TurnedAway(UsableIdentity)
  BY DEF EnrolledIsRegistered
<1>1. Settled
  BY DEF CInv, Clean, AtRest
<1>2. /\ UsableIdentity = prefs.client_cert_pem
      /\ UsableIdentity # Nil
  BY <1>1 DEF Settled, UsableIdentity, isEnrolled, hasKey
<1>3. UsableIdentity \in DeviceKeys
  BY <1>2 DEF EInv, SystemTypeOK, TypeOK, KeystoreTypeOK, Preferences
<1>4. enrolment[UsableIdentity] = "granted"
  BY <1>2 DEF EInv, HeldGranted, Held
<1> QED BY <1>2, <1>3, <1>4, GrantedIsRegistered

\* SecurityRepository.kt:99-127.  When the client keeps its promises it and
\* the registry agree at rest, unless calls have overlapped since an
\* enrolment last succeeded alone.
THEOREM EnrolledRegisteredUnlessRaced ==
  Dependable => (SystemSpec => [](~raced => EnrolledIsRegistered))
<1> SUFFICES ASSUME Dependable
             PROVE  SystemSpec => [](~raced => EnrolledIsRegistered)
  OBVIOUS
<1>1. EInv /\ CInv => (~raced => EnrolledIsRegistered)
  BY RestRegistered
<1> QED BY <1>1, EInvAlways, ClientInvAlways, PTL

\* Calls cannot overlap: nothing but the button, or one call at a time.
OneAtATime ==
    \A s \in Scenarios :
        s.kinds = {"connect"} \/ \A c, d \in s.calls : c = d

\* Only the scenario's calls are ever made, and none overlaps another.
NotRaced ==
    scenario.kinds # {"connect"} =>
        ~raced /\ \A c \in Calls : pc[c] # "idle" => c \in scenario.calls

\* Where calls cannot overlap, none ever does.
LEMMA NotRacedStep ==
  ASSUME OneAtATime, TInv, NotRaced, [Next]_vars
  PROVE  NotRaced'
<1>0. /\ scenario \in Scenarios /\ raced \in BOOLEAN
      /\ pc \in [Calls -> {"idle"} \cup EnrollSteps \cup PingSteps \cup Returned]
  BY DEF TInv, TypeOK, RepositoryTypeOK
<1>1. scenario' = scenario
  BY DEF Next, Enroll, PingProtected, Connect, Launch, CallStep, OnEnrolled, OnPinged,
         OnFailed, Resume, OnLocalNetworkPermissionDenied, KillAndRestart, vars
<1> SUFFICES ASSUME scenario.kinds # {"connect"}
             PROVE  ~raced' /\ \A c \in Calls : pc'[c] # "idle" => c \in scenario.calls
  BY <1>1 DEF NotRaced
<1>2. /\ \A c, d \in scenario.calls : c = d
      /\ ~raced /\ \A c \in Calls : pc[c] # "idle" => c \in scenario.calls
  BY <1>0 DEF OneAtATime, NotRaced
<1>3. ASSUME NEW c \in Calls, Enroll(c) \/ PingProtected(c) \/ Connect(c)
      PROVE  ~raced' /\ \A d \in Calls : pc'[d] # "idle" => d \in scenario.calls
  <2>1. /\ c \in scenario.calls /\ pc[c] = "idle"
        /\ \E step \in {"invalidate", "client"} : pc' = [pc EXCEPT ![c] = step]
        /\ raced' = (raced \/ ~AtRest)
    BY <1>3 DEF Enroll, PingProtected, Connect, Launch, Goto, At
  <2>2. AtRest
    BY <1>2, <2>1 DEF AtRest
  <2> QED BY <1>0, <1>2, <2>1, <2>2
<1>4. ASSUME NEW c \in Calls, CallStep(c)
      PROVE  ~raced' /\ \A d \in Calls : pc'[d] # "idle" => d \in scenario.calls
  <2>1. pc[c] # "idle" /\ \A d \in Calls \ {c} : pc'[d] = pc[d]
    BY <1>4, CallMoves
  <2>2. ~raced'
    BY <1>2, <1>4 DEF CallStep, historyVars, OnEnrolled, OnPinged, OnFailed
  <2> QED BY <1>2, <2>1, <2>2
<1>5. CASE KillAndRestart
  BY <1>2, <1>5 DEF KillAndRestart, RepositoryRestart
<1>6. CASE \/ OnLocalNetworkPermissionDenied
           \/ /\ WriteBehind
              /\ UNCHANGED <<repositoryVars, scenario, uiState, kind, historyVars>>
           \/ UNCHANGED vars
  <2>1. pc' = pc /\ raced' = raced
    BY <1>6 DEF OnLocalNetworkPermissionDenied, vars, repositoryVars, historyVars
  <2> QED BY <1>2, <2>1
<1> QED BY <1>3, <1>4, <1>5, <1>6 DEF Next

\* Answers that are lost, requests handled late and crashes never leave
\* client and registry disagreeing at rest, where calls cannot overlap.
THEOREM EnrolledRegistered ==
  Dependable /\ OneAtATime => (SystemSpec => []EnrolledIsRegistered)
<1> SUFFICES ASSUME Dependable, OneAtATime PROVE SystemSpec => []EnrolledIsRegistered
  OBVIOUS
<1>1. SystemInit => NotRaced
  BY DEF SystemInit, Init, RepositoryInit, NotRaced
<1>2. EInv /\ NotRaced /\ [SystemNext]_systemVars => NotRaced'
  BY NotRacedStep, SystemStepIsClientStep DEF EInv, KInv
<1>3. EInv /\ CInv /\ NotRaced => EnrolledIsRegistered
  <2>1. CInv /\ NotRaced => ~raced
    BY DEF CInv, ButtonOK, NotRaced
  <2> QED BY <2>1, RestRegistered
<1> QED BY <1>1, <1>2, <1>3, EInvAlways, ClientInvAlways, PTL DEF SystemSpec

-----------------------------------------------------------------------------
(* The certificate ledger                                                  *)

\* Whoever is in the registry was granted its certificate.
DevicesGranted == \A k \in DeviceKeys : Registry!HasDevice(Id(k)) => k \in GrantedKeys

\* Steps that neither touch the registry nor grant anything.
LEMMA LedgerQuiet ==
  ASSUME DevicesGranted, UNCHANGED registryVars, GrantedKeys' = GrantedKeys
  PROVE  DevicesGranted' /\ [Certificates!Next]_Certificates!vars
<1>1. devices' = devices /\ revokedSerials' = revokedSerials
  BY DEF registryVars
<1>2. DevicesGranted'
  BY <1>1 DEF DevicesGranted, Registry!HasDevice
<1>3. \A id \in Registry!Identities :
        Registry!CurrentSerial(id)' = Registry!CurrentSerial(id)
  BY <1>1 DEF Registry!CurrentSerial, Registry!IsDeviceActive, Registry!HasDevice,
              Registry!IsSerialRevoked
<1>4. UNCHANGED Certificates!vars
  BY <1>3 DEF Certificates!vars
<1> QED BY <1>2, <1>4

\* An enrolment is one grant: its key was never granted, hence never listed.
LEMMA LedgerGrants ==
  ASSUME EInv, DevicesGranted, NEW k \in DeviceKeys, BackendEnrolls(k)
  PROVE  DevicesGranted' /\ Certificates!Next
<1>1. /\ enrolment[k] = "sent" /\ enrolment' = [enrolment EXCEPT ![k] = "granted"]
      /\ DOMAIN enrolment = DeviceKeys
      /\ devices' = Registry!Put(devices, Id(k), [CertSerial |-> k, IsRevoked |-> FALSE])
      /\ revokedSerials' = revokedSerials
  BY DEF BackendEnrolls, Registry!RegisterDevice, EInv, SystemTypeOK
<1>2. /\ DOMAIN devices' = DOMAIN devices \cup {Id(k)}
      /\ devices'[Id(k)] = [CertSerial |-> k, IsRevoked |-> FALSE]
      /\ \A i \in DOMAIN devices \ {Id(k)} : devices'[i] = devices[i]
  BY <1>1 DEF Registry!Put
<1>3. k \notin GrantedKeys /\ GrantedKeys' = GrantedKeys \cup {k}
  BY <1>1 DEF GrantedKeys
<1>4. k \notin revokedSerials
  BY <1>3 DEF DevicesGranted, EInv, RegistryOK
<1>5. DevicesGranted'
  BY <1>2, <1>3, Identity DEF DevicesGranted, Registry!HasDevice
<1>6. Registry!CurrentSerial(Id(k))' = k
  BY <1>1, <1>2, <1>4 DEF Registry!CurrentSerial, Registry!IsDeviceActive,
                          Registry!HasDevice, Registry!IsSerialRevoked
<1>7. \A i \in Registry!Identities \ {Id(k)} :
        Registry!CurrentSerial(i)' = Registry!CurrentSerial(i)
  BY <1>1, <1>2 DEF Registry!CurrentSerial, Registry!IsDeviceActive,
                    Registry!HasDevice, Registry!IsSerialRevoked
<1>8. Id(k) \in Registry!Identities
  BY DEF Id, Registry!Identities
<1>9. Certificates!Grant(Id(k), k)
  BY <1>3, <1>6, <1>7, <1>8 DEF Certificates!Grant
<1> QED BY <1>5, <1>8, <1>9 DEF Certificates!Next

\* A revocation withdraws the certificate of the one device.
LEMMA LedgerWithdraws ==
  ASSUME EInv, DevicesGranted, NEW k \in DeviceKeys, OperatorRevokes(k)
  PROVE  DevicesGranted' /\ Certificates!Next
<1>0. Registry!IsMapOf(devices, Registry!Identities, Registry!DeviceRecord)
  BY DEF EInv, SystemTypeOK, Registry!RepoTypeOK
<1>1. /\ Id(k) \in DOMAIN devices /\ DOMAIN devices' = DOMAIN devices
      /\ devices'[Id(k)].IsRevoked
      /\ \A i \in DOMAIN devices \ {Id(k)} : devices'[i] = devices[i]
      /\ revokedSerials' = revokedSerials \cup {devices[Id(k)].CertSerial}
      /\ enrolment' = enrolment
  BY <1>0 DEF OperatorRevokes, Registry!RevokeDevice, Registry!HasDevice,
              Registry!IsMapOf, Registry!DeviceRecord
<1>2. revokedSerials' = revokedSerials \cup {k}
  BY <1>1 DEF EInv, RegistryOK, Registry!HasDevice
<1>3. GrantedKeys' = GrantedKeys /\ DevicesGranted'
  BY <1>1 DEF GrantedKeys, DevicesGranted, Registry!HasDevice
<1>4. Registry!CurrentSerial(Id(k))' = Nil
  BY <1>1 DEF Registry!CurrentSerial, Registry!IsDeviceActive
<1>5. ASSUME NEW i \in Registry!Identities \ {Id(k)}
      PROVE  Registry!CurrentSerial(i)' = Registry!CurrentSerial(i)
  <2>1. PICK j \in DeviceKeys : i = Id(j)
    BY DEF Registry!Identities, Id
  <2>2. i \in DOMAIN devices => devices[i].CertSerial # k
    BY <1>5, <2>1 DEF EInv, RegistryOK, Registry!HasDevice
  <2> QED BY <1>1, <1>2, <2>2
          DEF Registry!CurrentSerial, Registry!IsDeviceActive, Registry!HasDevice,
              Registry!IsSerialRevoked
<1>6. Id(k) \in Registry!Identities
  BY DEF Id, Registry!Identities
<1>7. Certificates!Withdraw(Id(k))
  BY <1>3, <1>4, <1>5 DEF Certificates!Withdraw
<1> QED BY <1>3, <1>6, <1>7 DEF Certificates!Next

\* A restart withdraws them all.
LEMMA LedgerForgets ==
  ASSUME BackendRestarts, EInv
  PROVE  DevicesGranted' /\ Certificates!Next
<1>1. /\ DOMAIN devices' = {} /\ DOMAIN enrolment = DeviceKeys
      /\ enrolment' = [k \in DeviceKeys |->
                         IF enrolment[k] = "sent" THEN "refused" ELSE enrolment[k]]
  BY DEF BackendRestarts, Registry!RepoRestart, Registry!EmptyMap, EInv, SystemTypeOK
<1>2. GrantedKeys' = GrantedKeys \cup {}
  BY <1>1 DEF GrantedKeys
<1>3. \A i \in Registry!Identities : Registry!CurrentSerial(i)' = Nil
  BY <1>1 DEF Registry!CurrentSerial, Registry!IsDeviceActive, Registry!HasDevice
<1>4. DevicesGranted'
  BY <1>1 DEF DevicesGranted, Registry!HasDevice
<1>5. {} \in SUBSET DeviceKeys
  OBVIOUS
<1>6. Certificates!Forget
  BY <1>2, <1>3, <1>5 DEF Certificates!Forget
<1> QED BY <1>4, <1>6 DEF Certificates!Next

\* Every step of the system is a step of the ledger, or none.
LEMMA LedgerSystemStep ==
  ASSUME EInv, DevicesGranted, [SystemNext]_systemVars
  PROVE  DevicesGranted' /\ [Certificates!Next]_Certificates!vars
<1>0. enrolment \in [DeviceKeys -> {"none", "sent", "granted", "refused"}]
  BY DEF EInv, SystemTypeOK
<1>1. ASSUME NEW c \in Calls, AppStep(c)
      PROVE  DevicesGranted' /\ [Certificates!Next]_Certificates!vars
  <2>1. UNCHANGED registryVars
    BY <1>1 DEF AppStep
  <2>2. GrantedKeys' = GrantedKeys
    <3>1. CASE pc[c] = "request" /\ pc'[c] = "post"
      <4>1. /\ enrolment[key[c]] = "none"
            /\ \E a \in {"sent", "refused"} : enrolment' = [enrolment EXCEPT ![key[c]] = a]
        BY <1>1, <3>1 DEF AppStep, EInv, AnswersOK
      <4> QED BY <1>0, <4>1 DEF GrantedKeys
    <3>2. CASE ~(pc[c] = "request" /\ pc'[c] = "post")
      BY <1>1, <3>2 DEF AppStep, GrantedKeys
    <3> QED BY <3>1, <3>2
  <2> QED BY <2>1, <2>2, LedgerQuiet
<1>2. CASE \/ \E c \in Calls : TapConnect(c) \/ OtherEntryPoint(c)
           \/ AppIsKilled \/ OtherAppStep \/ UNCHANGED systemVars
  <2>1. UNCHANGED registryVars /\ enrolment' = enrolment
    BY <1>2 DEF TapConnect, OtherEntryPoint, AppIsKilled, OtherAppStep, systemVars,
                backendVars, registryVars
  <2> QED BY <2>1, LedgerQuiet DEF GrantedKeys
<1>3. ASSUME NEW k \in DeviceKeys, BackendRefuses(k) \/ Lapse(k)
      PROVE  DevicesGranted' /\ [Certificates!Next]_Certificates!vars
  <2>1. /\ UNCHANGED registryVars
        /\ \/ enrolment' = enrolment
           \/ enrolment[k] = "sent" /\ enrolment' = [enrolment EXCEPT ![k] = "refused"]
    BY <1>3 DEF BackendRefuses, Lapse
  <2>2. GrantedKeys' = GrantedKeys
    BY <1>0, <2>1 DEF GrantedKeys
  <2> QED BY <2>1, <2>2, LedgerQuiet
<1>4. ASSUME NEW k \in DeviceKeys, BackendEnrolls(k) \/ OperatorRevokes(k)
      PROVE  DevicesGranted' /\ [Certificates!Next]_Certificates!vars
  BY <1>4, LedgerGrants, LedgerWithdraws
<1>5. CASE BackendRestarts
  BY <1>5, LedgerForgets
<1> QED BY <1>1, <1>2, <1>3, <1>4, <1>5 DEF SystemNext

\* enroll_handler.go:195-223, mtls_auth.go:28-33.  The backend as the client
\* meets it here implements the ledger that Backend implements.
THEOREM SystemImplementsLedger == SystemSpec => ImplementsCertificateLedger
<1>1. SystemInit => DevicesGranted /\ Certificates!Init
  <2> SUFFICES ASSUME SystemInit PROVE DevicesGranted /\ Certificates!Init
    OBVIOUS
  <2>1. DOMAIN devices = {} /\ \A k \in DeviceKeys : enrolment[k] = "none"
    BY DEF SystemInit, Registry!RepoInit, Registry!EmptyMap
  <2>2. \A i \in Registry!Identities : Registry!CurrentSerial(i) = Nil
    BY <2>1 DEF Registry!CurrentSerial, Registry!IsDeviceActive, Registry!HasDevice
  <2>3. GrantedKeys = {}
    BY <2>1 DEF GrantedKeys
  <2> QED BY <2>1, <2>2, <2>3 DEF DevicesGranted, Certificates!Init, Registry!HasDevice
<1>2. EInv /\ DevicesGranted /\ [SystemNext]_systemVars =>
        DevicesGranted' /\ [Certificates!Next]_Certificates!vars
  BY LedgerSystemStep
<1> QED BY <1>1, <1>2, EInvAlways, PTL
    DEF SystemSpec, ImplementsCertificateLedger, Certificates!Spec
=============================================================================
