--------------------------- MODULE BackendProofs ---------------------------
(***************************************************************************)
(* Theorems about Backend, for any sets of keys, nonces, serials, request  *)
(* bodies and concurrent requests, and any policy.                         *)
(***************************************************************************)
EXTENDS Backend, StoreTheorems

-----------------------------------------------------------------------------
(* Type correctness                                                        *)

\* Every method of the device repository keeps its types.
LEMMA RepoTypes ==
  ASSUME RepoTypeOK
  PROVE  /\ \A id \in Identities, s \in Serials : RegisterDevice(id, s) => RepoTypeOK'
         /\ \A id : RevokeDevice(id) => RepoTypeOK'
         /\ \A s \in Serials : RevokeSerial(s) => RepoTypeOK'
         /\ RepoRestart => RepoTypeOK'
         /\ UNCHANGED repoVars => RepoTypeOK'
<1> USE DEF RepoTypeOK
<1>1. ASSUME NEW id \in Identities, NEW s \in Serials, RegisterDevice(id, s)
      PROVE  RepoTypeOK'
  BY <1>1, PutType DEF RegisterDevice, DeviceRecord
<1>2. ASSUME NEW id, RevokeDevice(id)
      PROVE  RepoTypeOK'
  BY <1>2 DEF RevokeDevice, HasDevice, DeviceRecord, IsMapOf
<1>3. \A s \in Serials : RevokeSerial(s) => RepoTypeOK'
  BY DEF RevokeSerial
<1>4. RepoRestart => RepoTypeOK'
  BY EmptyMapType DEF RepoRestart
<1>5. UNCHANGED repoVars => RepoTypeOK'
  BY DEF repoVars
<1> QED BY <1>1, <1>2, <1>3, <1>4, <1>5

\* Identities are the fingerprints of the keys of well-formed requests.
LEMMA IdentityType ==
  ASSUME EnrollTypeOK, NEW e \in EnrollRequests, epc[e] # "idle"
  PROVE  Identity(e) \in Identities
BY EnrollAssumption DEF EnrollTypeOK, Identity, Identities

\* Every step of the enrolment handler keeps its types.
LEMMA EnrollTypes ==
  ASSUME EnrollTypeOK, NEW e \in EnrollRequests, EnrollStep(e)
  PROVE  EnrollTypeOK'
<1> USE DEF EnrollTypeOK, Goto, Respond, GotoOrRefuse
<1>1. ASSUME NEW body \in EnrollBodies, Receive(e, body)
      PROVE  EnrollTypeOK'
  BY <1>1 DEF Receive, FirstStep
<1>2. CASE Consume(e)
  BY <1>2 DEF Consume
<1>3. ASSUME NEW revocation \in {"clear", "revoked", "error"}, Verify(e, revocation)
      PROVE  EnrollTypeOK'
  BY <1>3 DEF Verify
<1>4. CASE CheckNotRevoked(e)
  BY <1>4 DEF CheckNotRevoked
<1>5. CASE SignCSRFails(e)
  BY <1>5 DEF SignCSRFails
<1>6. ASSUME NEW serial \in Serials, SignCSR(e, serial)
      PROVE  EnrollTypeOK'
  <2>1. Identity(e) \in Identities /\ ereq[e].key \in Keys
    BY <1>6, IdentityType, EnrollAssumption DEF SignCSR
  <2> QED BY <1>6, <2>1 DEF SignCSR, Certificate
<1>7. CASE Register(e)
  BY <1>7 DEF Register
<1>8. CASE RegisterFails(e)
  BY <1>8 DEF RegisterFails
<1>9. CASE RevokeIssued(e) \/ RevokeIssuedFails(e)
  BY <1>9 DEF RevokeIssued, RevokeIssuedFails
<1> QED BY <1>1, <1>2, <1>3, <1>4, <1>5, <1>6, <1>7, <1>8, <1>9 DEF EnrollStep

\* ... and what it does to the stores keeps theirs.
LEMMA EnrollStoreTypes ==
  ASSUME StoreTypeOK, RepoTypeOK, EnrollTypeOK,
         NEW e \in EnrollRequests, EnrollStep(e)
  PROVE  StoreTypeOK' /\ RepoTypeOK'
<1>1. ASSUME NEW body \in EnrollBodies, Receive(e, body)
      PROVE  UNCHANGED storeVars /\ UNCHANGED repoVars
  BY <1>1 DEF Receive, storeVars, repoVars
<1>2. CASE Consume(e)
  BY <1>2, StoreTypes, RepoTypes DEF Consume, repoVars
<1>3. ASSUME NEW revocation \in {"clear", "revoked", "error"}, Verify(e, revocation)
      PROVE  UNCHANGED storeVars /\ UNCHANGED repoVars
  BY <1>3 DEF Verify, storeVars, repoVars
<1>4. CASE \/ CheckNotRevoked(e) \/ SignCSRFails(e) \/ RegisterFails(e)
           \/ RevokeIssuedFails(e) \/ \E serial \in Serials : SignCSR(e, serial)
  BY <1>4, StoreTypes, RepoTypes
     DEF CheckNotRevoked, SignCSRFails, RegisterFails, RevokeIssuedFails, SignCSR,
         storeVars, repoVars
<1>5. CASE Register(e)
  <2>1. Identity(e) \in Identities /\ eserial[e] \in Serials
    BY <1>5, IdentityType DEF Register, EnrollTypeOK
  <2> QED BY <1>5, <2>1, StoreTypes, RepoTypes DEF Register, storeVars
<1>6. CASE RevokeIssued(e)
  <2>1. eserial[e] \in Serials
    BY <1>6 DEF RevokeIssued, EnrollTypeOK
  <2> QED BY <1>6, <2>1, StoreTypes, RepoTypes DEF RevokeIssued, storeVars
<1> QED BY <1>1, <1>2, <1>3, <1>4, <1>5, <1>6, StoreTypes, RepoTypes DEF EnrollStep

\* Every step of the middleware keeps its types, and its requests present
\* certificates of the CA.
LEMMA MtlsTypes ==
  ASSUME TypeOK, NEW m \in MtlsRequests, Observe,
         UNCHANGED <<storeVars, repoVars, enrollVars>>,
         \/ \E cert \in issued \cup OtherCerts : Present(m, cert)
         \/ MtlsStep(m)
  PROVE  /\ MtlsTypeOK'
         /\ \A q \in MtlsRequests :
              mpc'[q] # "idle" => mcert'[q] \in issued' \cup OtherCerts
<1> USE DEF TypeOK, MtlsTypeOK, Proceed, Answer, enrollVars
<1>1. mok' \in [MtlsRequests -> BOOLEAN]
  BY DEF Observe
<1>2. ASSUME NEW cert \in issued \cup OtherCerts, Present(m, cert)
      PROVE  /\ MtlsTypeOK'
             /\ \A q \in MtlsRequests :
                  mpc'[q] # "idle" => mcert'[q] \in issued' \cup OtherCerts
  BY <1>1, <1>2 DEF Present
<1>3. CASE GetDevice(m)
  <2>1. HasDevice(CertIdentity(mcert[m])) => devices[CertIdentity(mcert[m])] \in DeviceRecord
    BY DEF RepoTypeOK, IsMapOf, HasDevice
  <2> QED BY <1>1, <1>3, <2>1 DEF GetDevice
<1>4. CASE CheckActive(m)
  BY <1>1, <1>4 DEF CheckActive
<1>5. CASE CheckSerial(m)
  BY <1>1, <1>5 DEF CheckSerial
<1>6. CASE ServePing(m)
  BY <1>1, <1>6 DEF ServePing
<1> QED BY <1>2, <1>3, <1>4, <1>5, <1>6 DEF MtlsStep
\* Every step of the backend keeps every type.
LEMMA TypeStep ==
  ASSUME TypeOK, [Next]_vars
  PROVE  TypeOK'
<1> USE DEF TypeOK
<1>1. Observe => mok' \in [MtlsRequests -> BOOLEAN]
  BY DEF Observe, MtlsTypeOK
<1>2. CASE ChallengeServer
  <2>1. StoreTypeOK'
    BY <1>2, StoreTypes DEF ChallengeServer
  <2>2. Observe /\ UNCHANGED <<repoVars, enrollVars, mpc, mcert, mrecord, historyVars>>
    BY <1>2 DEF ChallengeServer
  <2>3. RepoTypeOK' /\ EnrollTypeOK' /\ MtlsTypeOK'
    BY <1>1, <2>2 DEF repoVars, enrollVars, RepoTypeOK, EnrollTypeOK, MtlsTypeOK
  <2> QED BY <2>1, <2>2, <2>3 DEF historyVars, enrollVars
<1>3. CASE EnrollServer
  <2> PICK e \in EnrollRequests : EnrollStep(e)
    BY <1>3 DEF EnrollServer
  <2>1. EnrollTypeOK' /\ StoreTypeOK' /\ RepoTypeOK'
    BY EnrollTypes, EnrollStoreTypes
  <2>2. Observe /\ UNCHANGED <<mpc, mcert, mrecord, revokedIds, raced>> /\ signedHere' \subseteq Serials
    BY <1>3 DEF EnrollServer
  <2>5. abandoned' \subseteq Serials
    <3>1. \A x \in EnrollRequests : RevokeIssuedFails(x) => eserial[x] \in Serials
      BY DEF RevokeIssuedFails, EnrollTypeOK
    <3> QED BY <1>3, <3>1 DEF EnrollServer
  <2>3. MtlsTypeOK'
    BY <1>1, <2>2 DEF MtlsTypeOK
  <2>4. issued \subseteq issued'
    BY DEF EnrollStep, Receive, Consume, Verify, CheckNotRevoked, SignCSRFails,
           SignCSR, Register, RegisterFails, RevokeIssued, RevokeIssuedFails
  <2> QED BY <2>1, <2>2, <2>3, <2>4, <2>5
<1>4. CASE MtlsServer
  <2> PICK m \in MtlsRequests :
        (\E cert \in issued \cup OtherCerts : Present(m, cert)) \/ MtlsStep(m)
    BY <1>4 DEF MtlsServer
  <2>1. Observe /\ UNCHANGED <<storeVars, repoVars, enrollVars, historyVars>>
    BY <1>4 DEF MtlsServer
  <2>2. MtlsTypeOK' /\ \A q \in MtlsRequests :
          mpc'[q] # "idle" => mcert'[q] \in issued' \cup OtherCerts
    BY <2>1, MtlsTypes
  <2>3. StoreTypeOK' /\ RepoTypeOK'
    BY <2>1, StoreTypes, RepoTypes
  <2>4. EnrollTypeOK'
    BY <2>1 DEF enrollVars, EnrollTypeOK
  <2> QED BY <2>1, <2>2, <2>3, <2>4 DEF historyVars
<1>5. ASSUME NEW id \in Identities, OperatorRevokesDevice(id)
      PROVE  TypeOK'
  <2>1. RepoTypeOK' /\ StoreTypeOK'
    BY <1>5, RepoTypes, StoreTypes DEF OperatorRevokesDevice
  <2>2. EnrollTypeOK' /\ MtlsTypeOK'
    BY <1>1, <1>5 DEF OperatorRevokesDevice, enrollVars, EnrollTypeOK, MtlsTypeOK
  <2> QED BY <1>5, <2>1, <2>2 DEF OperatorRevokesDevice, enrollVars
<1>6. ASSUME NEW serial \in Serials, OperatorRevokesSerial(serial)
      PROVE  TypeOK'
  <2>1. RepoTypeOK' /\ StoreTypeOK'
    BY <1>6, RepoTypes, StoreTypes DEF OperatorRevokesSerial
  <2>2. EnrollTypeOK' /\ MtlsTypeOK'
    BY <1>1, <1>6 DEF OperatorRevokesSerial, enrollVars, EnrollTypeOK, MtlsTypeOK
  <2> QED BY <1>6, <2>1, <2>2 DEF OperatorRevokesSerial, enrollVars, historyVars
<1>7. CASE Restart
  <2>1. RepoTypeOK' /\ StoreTypeOK'
    BY <1>7, RepoTypes, StoreTypes DEF Restart
  <2>2. EnrollTypeOK' /\ MtlsTypeOK'
    BY <1>1, <1>7 DEF Restart, EnrollRestart, MtlsRestart, EnrollTypeOK, MtlsTypeOK
  <2> QED BY <1>7, <2>1, <2>2 DEF Restart, MtlsRestart
<1>8. CASE UNCHANGED vars
  <2>1. RepoTypeOK' /\ StoreTypeOK'
    BY <1>8, RepoTypes, StoreTypes DEF vars
  <2> QED BY <1>8, <2>1 DEF vars, enrollVars, mtlsVars, historyVars, EnrollTypeOK, MtlsTypeOK
<1> QED BY <1>2, <1>3, <1>4, <1>5, <1>6, <1>7, <1>8 DEF Next, Operator

\* Type correctness of the backend: every reachable state holds only the
\* values the code's maps, records and program counters may hold.
THEOREM TypeCorrect == Spec => []TypeOK
<1>1. Init => TypeOK
  BY EmptyMapType DEF Init, TypeOK, StoreInit, RepoInit, EnrollInit, MtlsInit,
     StoreTypeOK, RepoTypeOK, EnrollTypeOK, MtlsTypeOK
<1>2. TypeOK /\ [Next]_vars => TypeOK'
  BY TypeStep
<1> QED BY <1>1, <1>2, PTL DEF Spec
-----------------------------------------------------------------------------
(* Authentication is atomic                                                *)
(*                                                                         *)
(* The moment that counts is the one of GetDevice, the first of the three  *)
(* reads.  The record copied there is current at that moment; if it was    *)
(* flagged as revoked, its serial was listed, and since serials are never  *)
(* unlisted the third read still finds it listed and rejects.              *)

\* RevokeDevice sets the flag and lists the serial in one critical section.
RevokedListed ==
    \A id \in DOMAIN devices :
        devices[id].IsRevoked => devices[id].CertSerial \in revokedSerials

\* A request that still stands a chance was authorized when it read its record.
CopyWasAuthorized ==
    \A m \in MtlsRequests :
        /\ mpc[m] \in {"active", "serial"}
        /\ mrecord[m].CertSerial = mcert[m].SerialNumber
        /\ ~IsSerialRevoked(mcert[m].SerialNumber)
        => mok[m]

KeyBound ==
    \A m \in MtlsRequests : mpc[m] # "idle" =>
        CertIdentity(mcert[m]) = PublicKeyFingerprint(mcert[m].PublicKey)

AuthInv == RevokedListed /\ CopyWasAuthorized /\ KeyBound /\ AuthenticationIsAtomic

\* Every repository operation keeps flag and list together, and only a
\* restart unlists a serial.
LEMMA RepoOperations ==
  ASSUME RepoTypeOK, RevokedListed
  PROVE  /\ \A id, s : RegisterDevice(id, s) =>
               RevokedListed' /\ revokedSerials \subseteq revokedSerials'
         /\ \A id : RevokeDevice(id) =>
               RevokedListed' /\ revokedSerials \subseteq revokedSerials'
         /\ \A s : RevokeSerial(s) =>
               RevokedListed' /\ revokedSerials \subseteq revokedSerials'
         /\ UNCHANGED repoVars =>
               RevokedListed' /\ revokedSerials \subseteq revokedSerials'
         /\ RepoRestart => RevokedListed'
<1> USE DEF RevokedListed
<1>1. ASSUME NEW id, NEW s, RegisterDevice(id, s)
      PROVE  RevokedListed' /\ revokedSerials \subseteq revokedSerials'
  BY <1>1 DEF RegisterDevice, Put
<1>2. ASSUME NEW id, RevokeDevice(id)
      PROVE  RevokedListed' /\ revokedSerials \subseteq revokedSerials'
  BY <1>2 DEF RevokeDevice, HasDevice, RepoTypeOK, IsMapOf, DeviceRecord
<1>3. \A s : RevokeSerial(s) =>
        RevokedListed' /\ revokedSerials \subseteq revokedSerials'
  BY DEF RevokeSerial
<1>4. UNCHANGED repoVars =>
        RevokedListed' /\ revokedSerials \subseteq revokedSerials'
  BY DEF repoVars
<1>5. RepoRestart => RevokedListed'
  BY DEF RepoRestart, EmptyMap
<1> QED BY <1>1, <1>2, <1>3, <1>4, <1>5

\* What an enrolment does to the repository is one of its operations.
LEMMA EnrollRepoStep ==
  ASSUME NEW e \in EnrollRequests, EnrollStep(e)
  PROVE  \/ UNCHANGED repoVars
         \/ RegisterDevice(Identity(e), eserial[e])
         \/ RevokeSerial(eserial[e])
BY DEF EnrollStep, Receive, Consume, Verify, CheckNotRevoked, SignCSRFails,
       SignCSR, Register, RegisterFails, RevokeIssued, RevokeIssuedFails, repoVars

\* Requests the step leaves alone keep what they have established.
LEMMA AuthStutter ==
  ASSUME TypeOK, AuthInv, Observe, UNCHANGED <<mpc, mcert, mrecord>>,
         revokedSerials \subseteq revokedSerials'
  PROVE  CopyWasAuthorized' /\ KeyBound' /\ AuthenticationIsAtomic'
<1>1. \A m \in MtlsRequests : mpc[m] # "idle" /\ mok[m] => mok'[m]
  BY DEF Observe, TypeOK, MtlsTypeOK
<1>2. CopyWasAuthorized'
  BY <1>1 DEF AuthInv, CopyWasAuthorized, IsSerialRevoked
<1>3. KeyBound'
  BY DEF AuthInv, KeyBound
<1>4. AuthenticationIsAtomic'
  BY <1>1 DEF AuthInv, AuthenticationIsAtomic
<1> QED BY <1>2, <1>3, <1>4

\* A step of the middleware establishes them.
LEMMA AuthMtlsStep ==
  ASSUME TypeOK, AuthInv, Observe, UNCHANGED <<storeVars, repoVars, enrollVars>>,
         NEW m \in MtlsRequests,
         \/ \E cert \in issued \cup OtherCerts : Present(m, cert)
         \/ MtlsStep(m)
  PROVE  CopyWasAuthorized' /\ KeyBound' /\ AuthenticationIsAtomic'
<1> USE DEF AuthInv, CopyWasAuthorized, KeyBound, AuthenticationIsAtomic,
            IsSerialRevoked, Proceed, Answer, TypeOK, MtlsTypeOK, repoVars
<1>1. \A q \in MtlsRequests : mpc'[q] # "idle" /\ mok[q] => mok'[q]
  BY DEF Observe
<1>2. ASSUME NEW cert, Present(m, cert)
      PROVE  CopyWasAuthorized' /\ KeyBound' /\ AuthenticationIsAtomic'
  BY <1>1, <1>2 DEF Present
<1>3. CASE GetDevice(m)
  <2>1. CASE ~HasDevice(CertIdentity(mcert[m]))
    BY <1>1, <1>3, <2>1 DEF GetDevice
  <2>2. CASE HasDevice(CertIdentity(mcert[m]))
    <3> DEFINE id == CertIdentity(mcert[m])
    <3>1. /\ mpc' = [mpc EXCEPT ![m] = "active"] /\ mcert' = mcert
          /\ mrecord' = [mrecord EXCEPT ![m] = devices[id]]
      BY <1>3, <2>2 DEF GetDevice
    <3>2. ASSUME devices[id].CertSerial = mcert[m].SerialNumber,
                 mcert[m].SerialNumber \notin revokedSerials
          PROVE  mok'[m]
      <4>1. ~devices[id].IsRevoked
        BY <2>2, <3>2 DEF RevokedListed, HasDevice
      <4>2. Authorized(mcert[m])'
        BY <1>3, <2>2, <3>1, <3>2, <4>1
           DEF GetDevice, Authorized, IsDeviceActive, HasDevice, CertIdentity
      <4> QED BY <3>1, <4>2 DEF Observe
    <3>3. CopyWasAuthorized'
      BY <1>1, <3>1, <3>2
    <3>4. KeyBound' /\ AuthenticationIsAtomic'
      BY <1>1, <1>3, <3>1 DEF GetDevice
    <3> QED BY <3>3, <3>4
  <2> QED BY <2>1, <2>2
<1>4. CASE CheckActive(m)
  BY <1>1, <1>4 DEF CheckActive
<1>5. CASE CheckSerial(m)
  BY <1>1, <1>5 DEF CheckSerial
<1>6. CASE ServePing(m)
  BY <1>1, <1>6 DEF ServePing
<1> QED BY <1>2, <1>3, <1>4, <1>5, <1>6 DEF MtlsStep

\* AuthInv is inductive.
LEMMA AuthStep ==
  ASSUME TypeOK, AuthInv, [Next]_vars
  PROVE  AuthInv'
<1> USE DEF AuthInv
<1>0. RepoTypeOK
  BY DEF TypeOK
<1>1. CASE ChallengeServer
  BY <1>0, <1>1, RepoOperations, AuthStutter DEF ChallengeServer
<1>2. CASE EnrollServer
  <2>1. RevokedListed' /\ revokedSerials \subseteq revokedSerials'
    BY <1>0, <1>2, EnrollRepoStep, RepoOperations DEF EnrollServer
  <2> QED BY <1>2, <2>1, AuthStutter DEF EnrollServer
<1>3. CASE MtlsServer
  BY <1>0, <1>3, RepoOperations, AuthMtlsStep DEF MtlsServer
<1>4. CASE Operator
  <2>1. RevokedListed' /\ revokedSerials \subseteq revokedSerials'
    BY <1>0, <1>4, RepoOperations
       DEF Operator, OperatorRevokesDevice, OperatorRevokesSerial
  <2>2. Observe /\ UNCHANGED <<mpc, mcert, mrecord>>
    BY <1>4 DEF Operator, OperatorRevokesDevice, OperatorRevokesSerial
  <2> QED BY <2>1, <2>2, AuthStutter
<1>5. CASE Restart
  <2>1. RevokedListed'
    BY <1>0, <1>5, RepoOperations DEF Restart
  <2> QED BY <1>5, <2>1 DEF Restart, MtlsRestart, CopyWasAuthorized, KeyBound,
                          AuthenticationIsAtomic
<1>6. CASE UNCHANGED vars
  <2>1. RevokedListed'
    BY <1>0, <1>6, RepoOperations DEF vars
  <2> QED BY <1>6, <2>1 DEF vars, mtlsVars, repoVars, CopyWasAuthorized, KeyBound,
                          AuthenticationIsAtomic, IsSerialRevoked
<1> QED BY <1>1, <1>2, <1>3, <1>4, <1>5, <1>6 DEF Next

\* mtls_auth.go:28-33.  A request is let through only if at some moment since
\* its arrival its certificate was the current, unrevoked one of an active
\* device, however enrolments, revocations and restarts interleave with the
\* middleware's three reads of the registry.
THEOREM AuthenticationAtomic == Spec => []AuthenticationIsAtomic
<1>1. Init => AuthInv
  BY DEF Init, RepoInit, MtlsInit, EmptyMap, AuthInv, RevokedListed,
     CopyWasAuthorized, KeyBound, AuthenticationIsAtomic
<1>2. TypeOK /\ AuthInv /\ [Next]_vars => AuthInv'
  BY AuthStep
<1>3. AuthInv => AuthenticationIsAtomic
  BY DEF AuthInv
<1> QED BY <1>1, <1>2, <1>3, TypeCorrect, PTL DEF Spec
-----------------------------------------------------------------------------
(* One certificate per challenge                                           *)
(*                                                                         *)
(* A nonce is in one place at a time: with a challenge handler about to    *)
(* store it, in the store, with the one enrolment that consumed it, or in  *)
(* the one certificate that enrolment led to.                              *)

\* The nonces that are drawn and neither stored nor about to be.
Spent(n) ==
    /\ n \in drawn
    /\ n \notin DOMAIN challenges
    /\ \A h \in DOMAIN pending : pending[h].nonce # n

NonceInv ==
    /\ DOMAIN challenges \subseteq drawn
    /\ \A h \in DOMAIN pending :
         /\ pending[h].nonce \in drawn
         /\ pending[h].nonce \notin DOMAIN challenges
    /\ \A g, h \in DOMAIN pending : pending[g].nonce = pending[h].nonce => g = h

\* The nonce an enrolment is working on once it has consumed it.
Nonce(e) == RequestChallenge(ereq[e])

Consumed(e) == epc[e] \in {"verify", "check", "sign"}

EnrolmentsOwnNonces ==
    \A e \in EnrollRequests :
        /\ epc[e] = "consume" => Nonce(e) # Nil
        /\ Consumed(e) /\ Nonce(e) = Nil => Policy.AllowEmptyAttestation
        /\ Consumed(e) /\ Nonce(e) # Nil =>
             /\ Spent(Nonce(e))
             /\ \A c \in issued : c.challenge # Nonce(e)
             /\ \A f \in EnrollRequests : Consumed(f) /\ Nonce(f) = Nonce(e) => f = e

CertificatesOwnNonces ==
    \A c \in issued : c.challenge # Nil => Spent(c.challenge)

ChallengeInv ==
    /\ NonceInv
    /\ EnrolmentsOwnNonces
    /\ CertificatesOwnNonces
    /\ OneCertificatePerChallenge

\* Whatever the store does, a nonce that is spent stays spent.
LEMMA SpentStable ==
  ASSUME StoreTypeOK, NonceInv,
         \/ \E h \in ChallengeRequests, n \in Nonces : GenerateChallenge(h, n)
         \/ \E h \in ChallengeRequests : StoreChallenge(h)
         \/ CleanupWorker
         \/ Tick
         \/ StoreRestart
         \/ UNCHANGED storeVars
         \/ \E n : ConsumeChallenge(n) /\ UNCHANGED <<now, drawn, pending>>
  PROVE  NonceInv' /\ \A n : Spent(n) => Spent(n)'
<1> USE DEF NonceInv, Spent
<1>1. ASSUME NEW h \in ChallengeRequests, NEW n \in Nonces, GenerateChallenge(h, n)
      PROVE  NonceInv' /\ \A x : Spent(x) => Spent(x)'
  BY <1>1 DEF GenerateChallenge, Put
<1>2. ASSUME NEW h \in ChallengeRequests, StoreChallenge(h)
      PROVE  NonceInv' /\ \A x : Spent(x) => Spent(x)'
  BY <1>2 DEF StoreChallenge, Put, Delete
<1>3. CASE CleanupWorker
  BY <1>3 DEF CleanupWorker, Delete
<1>4. CASE Tick
  BY <1>4 DEF Tick
<1>5. CASE StoreRestart
  BY <1>5 DEF StoreRestart, EmptyMap
<1>6. CASE UNCHANGED storeVars
  BY <1>6 DEF storeVars
<1>7. ASSUME NEW n, ConsumeChallenge(n), UNCHANGED <<now, drawn, pending>>
      PROVE  NonceInv' /\ \A x : Spent(x) => Spent(x)'
  BY <1>7 DEF ConsumeChallenge, Delete
<1> QED BY <1>1, <1>2, <1>3, <1>4, <1>5, <1>6, <1>7

\* A step of the store that leaves the enrolments alone.
LEMMA ChallengeStutter ==
  ASSUME ChallengeInv, NonceInv', \A n : Spent(n) => Spent(n)',
         UNCHANGED <<epc, ereq, issued>>
  PROVE  ChallengeInv'
BY DEF ChallengeInv, EnrolmentsOwnNonces, CertificatesOwnNonces,
       OneCertificatePerChallenge, Consumed, Nonce, Spent

\* A step of an enrolment hands its nonce on, or drops it.
LEMMA ChallengeEnrollStep ==
  ASSUME TypeOK, ChallengeInv, NEW e \in EnrollRequests, EnrollStep(e)
  PROVE  ChallengeInv'
<1> USE DEF ChallengeInv, Goto, Respond, GotoOrRefuse
<1>0. StoreTypeOK /\ EnrollTypeOK
  BY DEF TypeOK
<1> DEFINE Keeps == NonceInv' /\ \A n : Spent(n) => Spent(n)'
<1>1. UNCHANGED storeVars => Keeps
  BY <1>0, SpentStable
<1>2. ASSUME NEW body \in EnrollBodies, Receive(e, body)
      PROVE  ChallengeInv'
  <2>1. Keeps
    BY <1>1, <1>2 DEF Receive
  <2>2. /\ epc' = [epc EXCEPT ![e] = FirstStep(body)]
        /\ ereq' = [ereq EXCEPT ![e] = body]
        /\ issued' = issued /\ drawn' = drawn
    BY <1>2 DEF Receive, storeVars
  <2>3. FirstStep(body) \in {"idle", "consume", "verify"}
    BY DEF FirstStep
  <2>4. FirstStep(body) = "verify" =>
          RequestChallenge(body) = Nil /\ Policy.AllowEmptyAttestation
    BY DEF FirstStep
  <2>5. FirstStep(body) = "consume" => RequestChallenge(body) # Nil
    BY DEF FirstStep
  <2>6. EnrolmentsOwnNonces'
    BY <1>0, <2>1, <2>2, <2>3, <2>4, <2>5
       DEF EnrolmentsOwnNonces, EnrollTypeOK, Consumed, Nonce
  <2> QED BY <2>1, <2>2, <2>6 DEF CertificatesOwnNonces, OneCertificatePerChallenge
<1>3. CASE Consume(e)
  <2>1. Keeps
    BY <1>0, <1>3, SpentStable DEF Consume
  <2>2. issued' = issued /\ drawn' = drawn
    BY <1>3 DEF Consume
  <2>3. CASE ChallengeValid(Nonce(e)) /\ Nonce(e) # Nil
    <3>1. Nonce(e) \in DOMAIN challenges /\ ~Spent(Nonce(e)) /\ Spent(Nonce(e))'
      BY <1>3, <2>3 DEF ChallengeValid, NonceInv, Spent, Consume, ConsumeChallenge,
                        Delete, Nonce
    <3>2. epc' = [epc EXCEPT ![e] = "verify"] /\ ereq' = ereq
      BY <1>3, <2>3 DEF Consume, Nonce
    <3>3. EnrolmentsOwnNonces'
      BY <1>0, <2>1, <2>2, <2>3, <3>1, <3>2
         DEF EnrolmentsOwnNonces, CertificatesOwnNonces, EnrollTypeOK, Consumed, Nonce
    <3> QED BY <2>1, <2>2, <3>3 DEF CertificatesOwnNonces, OneCertificatePerChallenge
  <2>4. CASE ~ChallengeValid(Nonce(e))
    <3>1. epc' = [epc EXCEPT ![e] = "idle"] /\ ereq' = [ereq EXCEPT ![e] = Nil]
      BY <1>3, <2>4 DEF Consume, Nonce
    <3>2. EnrolmentsOwnNonces'
      BY <1>0, <2>1, <2>2, <3>1 DEF EnrolmentsOwnNonces, EnrollTypeOK, Consumed, Nonce
    <3> QED BY <2>1, <2>2, <3>2 DEF CertificatesOwnNonces, OneCertificatePerChallenge
  <2>5. Nonce(e) # Nil
    BY <1>3 DEF EnrolmentsOwnNonces, Consume
  <2> QED BY <2>3, <2>4, <2>5
<1>4. ASSUME UNCHANGED <<storeVars, issued>>, epc[e] # "idle",
             \/ /\ epc[e] \in {"verify", "check"}
                /\ \E pc \in {"check", "sign"} : Goto(e, pc)
             \/ epc[e] = "register" /\ Goto(e, "revoke")
             \/ Respond(e)
      PROVE  ChallengeInv'
  <2>1. Keeps
    BY <1>1, <1>4
  <2>2. issued' = issued /\ drawn' = drawn
    BY <1>4 DEF storeVars
  <2>3. \A f \in EnrollRequests :
          /\ Consumed(f)' => Consumed(f) /\ Nonce(f)' = Nonce(f)
          /\ epc'[f] = "consume" => epc[f] = "consume" /\ Nonce(f)' = Nonce(f)
    BY <1>0, <1>4 DEF EnrollTypeOK, Consumed, Nonce
  <2>4. EnrolmentsOwnNonces'
    BY <2>1, <2>2, <2>3 DEF EnrolmentsOwnNonces
  <2> QED BY <2>1, <2>2, <2>4 DEF CertificatesOwnNonces, OneCertificatePerChallenge
<1>5. ASSUME NEW serial \in Serials, SignCSR(e, serial)
      PROVE  ChallengeInv'
  <2> DEFINE new == Certificate(Identity(e), ereq[e].key, serial, Nonce(e))
  <2>1. Keeps
    BY <1>1, <1>5 DEF SignCSR
  <2>2. /\ epc[e] = "sign" /\ epc' = [epc EXCEPT ![e] = "register"]
        /\ ereq' = ereq /\ drawn' = drawn /\ issued' = issued \cup {new}
    BY <1>5 DEF SignCSR, Nonce, storeVars
  <2>3. new.challenge = Nonce(e)
    BY DEF Certificate
  <2>4. /\ Nonce(e) = Nil => Policy.AllowEmptyAttestation
        /\ Nonce(e) # Nil => /\ Spent(Nonce(e)) /\ \A c \in issued : c.challenge # Nonce(e)
                             /\ \A f \in EnrollRequests :
                                  Consumed(f) /\ Nonce(f) = Nonce(e) => f = e
    BY <2>2 DEF EnrolmentsOwnNonces, Consumed
  <2>5. EnrolmentsOwnNonces'
    <3>1. \A f \in EnrollRequests :
            /\ Consumed(f)' => Consumed(f) /\ f # e
            /\ epc'[f] = "consume" => epc[f] = "consume"
            /\ Nonce(f)' = Nonce(f)
      BY <1>0, <2>2 DEF EnrollTypeOK, Consumed, Nonce
    <3> HIDE DEF new
    <3> QED BY <2>1, <2>2, <2>3, <2>4, <3>1 DEF EnrolmentsOwnNonces
  <2>6. CertificatesOwnNonces' /\ OneCertificatePerChallenge'
    <3>1. Nonce(e) # Nil => Nonce(e) \in drawn
      BY <2>4 DEF Spent
    <3> HIDE DEF new
    <3> QED BY <2>1, <2>2, <2>3, <2>4, <3>1
            DEF CertificatesOwnNonces, OneCertificatePerChallenge
  <2> QED BY <2>1, <2>5, <2>6
<1>6. ASSUME NEW revocation \in {"clear", "revoked", "error"}, Verify(e, revocation)
      PROVE  ChallengeInv'
  BY <1>4, <1>6 DEF Verify
<1>7. CASE CheckNotRevoked(e) \/ SignCSRFails(e)
  BY <1>4, <1>7 DEF CheckNotRevoked, SignCSRFails
<1>8. CASE Register(e) \/ RegisterFails(e) \/ RevokeIssued(e) \/ RevokeIssuedFails(e)
  BY <1>4, <1>8 DEF Register, RegisterFails, RevokeIssued, RevokeIssuedFails
<1> QED BY <1>2, <1>3, <1>5, <1>6, <1>7, <1>8 DEF EnrollStep

\* ChallengeInv is inductive.
LEMMA ChallengeStep ==
  ASSUME TypeOK, ChallengeInv, [Next]_vars
  PROVE  ChallengeInv'
<1>0. StoreTypeOK /\ NonceInv
  BY DEF TypeOK, ChallengeInv
<1>1. CASE ChallengeServer
  BY <1>0, <1>1, SpentStable, ChallengeStutter DEF ChallengeServer, enrollVars
<1>2. CASE EnrollServer
  BY <1>2, ChallengeEnrollStep DEF EnrollServer
<1>3. CASE MtlsServer \/ Operator \/ UNCHANGED vars
  <2>1. UNCHANGED <<storeVars, enrollVars>>
    BY <1>3 DEF MtlsServer, Operator, OperatorRevokesDevice, OperatorRevokesSerial, vars
  <2> QED BY <1>0, <2>1, SpentStable, ChallengeStutter DEF enrollVars
<1>4. CASE Restart
  <2>1. NonceInv' /\ \A n : Spent(n) => Spent(n)'
    BY <1>0, <1>4, SpentStable DEF Restart
  <2>2. issued' = issued /\ drawn' = drawn /\ epc' = [e \in EnrollRequests |-> "idle"]
    BY <1>4 DEF Restart, EnrollRestart, StoreRestart
  <2> QED BY <2>1, <2>2 DEF ChallengeInv, EnrolmentsOwnNonces, CertificatesOwnNonces,
                            OneCertificatePerChallenge, Consumed
<1> QED BY <1>1, <1>2, <1>3, <1>4 DEF Next

\* enroll_handler.go:139-164.  However enrolments, the cleanup worker and
\* restarts interleave, no challenge yields two certificates, none that this
\* server did not draw yields one, and a policy that requires attestation
\* issues none without a challenge.
THEOREM ChallengeSingleUse == Spec => []OneCertificatePerChallenge
<1>1. Init => ChallengeInv
  BY DEF Init, StoreInit, EnrollInit, EmptyMap, ChallengeInv, NonceInv,
     EnrolmentsOwnNonces, CertificatesOwnNonces, OneCertificatePerChallenge, Consumed
<1>2. TypeOK /\ ChallengeInv /\ [Next]_vars => ChallengeInv'
  BY ChallengeStep
<1>3. ChallengeInv => OneCertificatePerChallenge
  BY DEF ChallengeInv
<1> QED BY <1>1, <1>2, <1>3, TypeCorrect, PTL DEF Spec

-----------------------------------------------------------------------------
(* Untracked certificates                                                  *)
(*                                                                         *)
(* A request holds a serial from SignCSR to its answer, and leaves those   *)
(* two steps only by writing the record, by revoking the serial, or by     *)
(* giving up when neither works.  No record names a serial that was not    *)
(* handed out.                                                             *)

Tracking(e) == epc[e] \in {"register", "revoke"}

SerialsHeld == \A e \in EnrollRequests : eserial[e] # Nil => Tracking(e)

RecordsGranted == \A id \in DOMAIN devices : devices[id].CertSerial \in granted

SignedAccountedFor == \A s \in signedHere : Tracked(s) \/ s \in abandoned

TrackInv == SerialsHeld /\ RecordsGranted /\ SignedAccountedFor

\* One enrolment step: a serial held is held on, granted, revoked or given up
\* because the registry refused to revoke it.
LEMMA TrackEnrollStep ==
  ASSUME TypeOK, SerialsHeld, RecordsGranted, NEW e \in EnrollRequests, EnrollStep(e)
  PROVE  /\ SerialsHeld' /\ RecordsGranted'
         /\ granted \subseteq granted'
         /\ revokedSerials \subseteq revokedSerials'
         /\ \A f \in EnrollRequests : Tracking(f) =>
              \/ Tracking(f)' /\ eserial'[f] = eserial[f]
              \/ eserial[f] \in granted' \cup revokedSerials'
              \/ RevokeIssuedFails(f)
<1> DEFINE Kept == /\ SerialsHeld' /\ RecordsGranted'
                   /\ granted \subseteq granted'
                   /\ revokedSerials \subseteq revokedSerials'
                   /\ \A f \in EnrollRequests : Tracking(f) =>
                        \/ Tracking(f)' /\ eserial'[f] = eserial[f]
                        \/ eserial[f] \in granted' \cup revokedSerials'
                        \/ RevokeIssuedFails(f)
<1>0. /\ epc \in [EnrollRequests -> {"idle", "consume", "verify", "check",
                                     "sign", "register", "revoke"}]
      /\ eserial \in [EnrollRequests -> Serials \cup {Nil}]
      /\ Nil \notin Serials
  BY EnrollAssumption DEF TypeOK, EnrollTypeOK
<1> USE <1>0 DEF SerialsHeld, RecordsGranted, Tracking
<1>1. ASSUME UNCHANGED <<granted, devices, revokedSerials>>,
             ~Tracking(e),
             \/ Respond(e)
             \/ \E pc \in {"consume", "verify", "check", "sign"} :
                  epc' = [epc EXCEPT ![e] = pc] /\ UNCHANGED eserial
      PROVE  Kept
  BY <1>1 DEF Respond
<1>2. ASSUME NEW body \in EnrollBodies, Receive(e, body)
      PROVE  Kept
  <2>1. FirstStep(body) \in {"consume", "verify", "idle"}
    BY DEF FirstStep
  <2> QED BY <1>1, <1>2, <2>1 DEF Receive, repoVars
<1>3. CASE Consume(e)
  BY <1>1, <1>3 DEF Consume, GotoOrRefuse, Goto, repoVars
<1>4. ASSUME NEW revocation \in {"clear", "revoked", "error"}, Verify(e, revocation)
      PROVE  Kept
  BY <1>1, <1>4 DEF Verify, GotoOrRefuse, Goto, repoVars
<1>5. CASE CheckNotRevoked(e)
  BY <1>1, <1>5 DEF CheckNotRevoked, GotoOrRefuse, Goto, repoVars
<1>6. CASE SignCSRFails(e)
  BY <1>1, <1>6 DEF SignCSRFails, repoVars
<1>7. ASSUME NEW serial \in Serials, SignCSR(e, serial)
      PROVE  Kept
  BY <1>7 DEF SignCSR, repoVars
<1>8. CASE Register(e)
  <2>1. RecordsGranted'
    BY <1>8 DEF Register, RegisterDevice, Put
  <2> QED BY <1>8, <2>1 DEF Register, Respond, RegisterDevice
<1>9. CASE RegisterFails(e)
  BY <1>9 DEF RegisterFails, Goto, repoVars
<1>10. CASE RevokeIssued(e)
  BY <1>10 DEF RevokeIssued, Respond, RevokeSerial
<1>11. CASE RevokeIssuedFails(e)
  <2>1. \A f \in EnrollRequests :
          f # e => epc'[f] = epc[f] /\ eserial'[f] = eserial[f]
    BY <1>11 DEF RevokeIssuedFails, Respond
  <2>2. eserial'[e] = Nil /\ UNCHANGED <<granted, devices, revokedSerials>>
    BY <1>11 DEF RevokeIssuedFails, Respond, repoVars
  <2>3. SerialsHeld' /\ RecordsGranted'
    BY <2>1, <2>2
  <2>4. \A f \in EnrollRequests : Tracking(f) /\ f # e =>
          Tracking(f)' /\ eserial'[f] = eserial[f]
    BY <2>1
  <2> QED
    <3> HIDE DEF Tracking, SerialsHeld, RecordsGranted
    <3> QED BY <1>11, <2>2, <2>3, <2>4
<1> QED BY <1>2, <1>3, <1>4, <1>5, <1>6, <1>7, <1>8, <1>9, <1>10, <1>11 DEF EnrollStep

\* TrackInv is inductive.
LEMMA TrackStep ==
  ASSUME TypeOK, TrackInv, [Next]_vars
  PROVE  TrackInv'
<1> USE DEF TrackInv, SerialsHeld, RecordsGranted, SignedAccountedFor, Tracked,
            Tracking, IsSerialRevoked
<1>1. CASE EnrollServer
  <2>1. PICK e \in EnrollRequests : EnrollStep(e)
    BY <1>1 DEF EnrollServer
  <2>2. /\ signedHere' = signedHere \cup
             {s \in Serials : \E f \in EnrollRequests : eserial'[f] = s}
        /\ abandoned' = abandoned \cup
             {eserial[f] : f \in {x \in EnrollRequests : RevokeIssuedFails(x)}}
    BY <1>1 DEF EnrollServer
  <2>3. /\ SerialsHeld' /\ RecordsGranted'
        /\ granted \subseteq granted'
        /\ revokedSerials \subseteq revokedSerials'
        /\ \A f \in EnrollRequests : Tracking(f) =>
             \/ Tracking(f)' /\ eserial'[f] = eserial[f]
             \/ eserial[f] \in granted' \cup revokedSerials'
             \/ RevokeIssuedFails(f)
    BY <2>1, TrackEnrollStep
  <2>4. ASSUME NEW s \in signedHere'
        PROVE  \/ s \in granted'
               \/ s \in revokedSerials'
               \/ s \in abandoned'
               \/ \E f \in EnrollRequests : Tracking(f)' /\ eserial'[f] = s
    <3>1. CASE s \in signedHere
      BY <2>2, <2>3, <3>1
    <3>2. CASE s \in Serials /\ \E f \in EnrollRequests : eserial'[f] = s
      BY <2>3, <3>2, EnrollAssumption
    <3> QED BY <2>2, <2>4, <3>1, <3>2
  <2> QED BY <2>3, <2>4
<1>2. CASE ChallengeServer \/ MtlsServer \/ UNCHANGED vars
  BY <1>2 DEF ChallengeServer, MtlsServer, vars, repoVars, enrollVars, historyVars
<1>3. ASSUME NEW id \in Identities, OperatorRevokesDevice(id)
      PROVE  TrackInv'
  <2>1. /\ DOMAIN devices' = DOMAIN devices
        /\ \A x \in DOMAIN devices : devices'[x].CertSerial = devices[x].CertSerial
    BY <1>3 DEF OperatorRevokesDevice, RevokeDevice, HasDevice, TypeOK, RepoTypeOK,
                IsMapOf, DeviceRecord
  <2> QED BY <1>3, <2>1 DEF OperatorRevokesDevice, RevokeDevice, enrollVars
<1>4. ASSUME NEW serial \in Serials, OperatorRevokesSerial(serial)
      PROVE  TrackInv'
  BY <1>4 DEF OperatorRevokesSerial, RevokeSerial, enrollVars, historyVars
<1>5. CASE Restart
  BY <1>5 DEF Restart, EnrollRestart, RepoRestart, EmptyMap
<1> QED BY <1>1, <1>2, <1>3, <1>4, <1>5 DEF Next, Operator

\* enroll_handler.go:203-219.  Every certificate a process has signed is
\* handed out with its record written, revoked, or in the hands of a request
\* about to do one of the two; if the registry refuses both writes it is given
\* up, and even then it is no identity's current certificate.
THEOREM CertificatesTracked == Spec => []UntrackedOnlyIfBothWritesFail
<1>1. Init => TrackInv
  BY DEF Init, EnrollInit, RepoInit, EmptyMap, TrackInv, SerialsHeld, RecordsGranted,
     SignedAccountedFor
<1>2. TypeOK /\ TrackInv /\ [Next]_vars => TrackInv'
  BY TrackStep
<1>3. TypeOK /\ TrackInv => UntrackedOnlyIfBothWritesFail
  BY EnrollAssumption
     DEF TrackInv, SignedAccountedFor, RecordsGranted, UntrackedOnlyIfBothWritesFail,
         CurrentSerial, IsDeviceActive, HasDevice, TypeOK
<1> QED BY <1>1, <1>2, <1>3, TypeCorrect, PTL DEF Spec

-----------------------------------------------------------------------------
(* Revocation holds unless raced                                           *)
(*                                                                         *)
(* A revoked identity without a race has a flagged record, and no          *)
(* enrolment of it is past the check: so none can overwrite the record,    *)
(* and the flag keeps every later one from passing.                        *)

Held(id) ==
    /\ HasDevice(id)
    /\ devices[id].IsRevoked
    /\ \A e \in EnrollRequests : ~PastCheck(e, id)

HeldInv == \A id \in revokedIds \ raced : Held(id)

\* No enrolment step releases a revoked identity.
LEMMA HeldEnrollStep ==
  ASSUME TypeOK, NEW e \in EnrollRequests, EnrollStep(e), NEW id, Held(id)
  PROVE  Held(id)'
<1>0. /\ epc \in [EnrollRequests -> {"idle", "consume", "verify", "check",
                                     "sign", "register", "revoke"}]
      /\ ereq \in [EnrollRequests -> EnrollBodies \cup {Nil}]
  BY DEF TypeOK, EnrollTypeOK
<1> USE <1>0 DEF Held, PastCheck, Identity, HasDevice
<1>1. ASSUME UNCHANGED devices,
             \/ Respond(e)
             \/ /\ epc' = [epc EXCEPT ![e] = epc'[e]]
                /\ epc'[e] \notin {"sign", "register"}
                /\ \A f \in EnrollRequests \ {e} : ereq'[f] = ereq[f]
      PROVE  Held(id)'
  BY <1>1 DEF Respond
<1>2. ASSUME NEW body \in EnrollBodies, Receive(e, body)
      PROVE  Held(id)'
  <2>1. FirstStep(body) \in {"consume", "verify", "idle"}
    BY DEF FirstStep
  <2>2. UNCHANGED devices /\ epc' = [epc EXCEPT ![e] = FirstStep(body)]
        /\ ereq' = [ereq EXCEPT ![e] = body]
    BY <1>2 DEF Receive, repoVars
  <2> QED BY <1>1, <2>1, <2>2
<1>3. CASE Consume(e)
  BY <1>1, <1>3 DEF Consume, GotoOrRefuse, Goto, repoVars
<1>4. ASSUME NEW revocation \in {"clear", "revoked", "error"}, Verify(e, revocation)
      PROVE  Held(id)'
  BY <1>1, <1>4 DEF Verify, GotoOrRefuse, Goto, repoVars
<1>5. CASE CheckNotRevoked(e)
  BY <1>1, <1>5 DEF CheckNotRevoked, GotoOrRefuse, Goto, repoVars
<1>6. CASE SignCSRFails(e) \/ RegisterFails(e) \/ RevokeIssued(e) \/ RevokeIssuedFails(e)
  BY <1>1, <1>6 DEF SignCSRFails, RegisterFails, RevokeIssued, RevokeIssuedFails,
                    RevokeSerial, Goto, repoVars
<1>7. ASSUME NEW serial \in Serials, SignCSR(e, serial)
      PROVE  Held(id)'
  BY <1>7 DEF SignCSR, repoVars
<1>8. CASE Register(e)
  <2>1. epc[e] = "register" /\ Identity(e) # id
    BY <1>8 DEF Register
  <2>2. devices' = Put(devices, Identity(e), [CertSerial |-> eserial[e],
                                              IsRevoked |-> FALSE])
        /\ Respond(e)
    BY <1>8 DEF Register, RegisterDevice
  <2>3. id \in DOMAIN devices' /\ devices'[id] = devices[id]
    BY <2>1, <2>2 DEF Put
  <2> QED BY <2>2, <2>3 DEF Respond
<1> QED BY <1>2, <1>3, <1>4, <1>5, <1>6, <1>7, <1>8 DEF EnrollStep

\* HeldInv is inductive.
LEMMA HeldStep ==
  ASSUME TypeOK, HeldInv, [Next]_vars
  PROVE  HeldInv'
<1>1. CASE EnrollServer
  BY <1>1, HeldEnrollStep DEF EnrollServer, HeldInv
<1> USE DEF HeldInv, Held, PastCheck, Identity, HasDevice
<1>2. CASE ChallengeServer \/ MtlsServer \/ UNCHANGED vars
  BY <1>2 DEF ChallengeServer, MtlsServer, vars, repoVars, enrollVars, historyVars
<1>3. ASSUME NEW id \in Identities, OperatorRevokesDevice(id)
      PROVE  HeldInv'
  <2>1. /\ id \in DOMAIN devices
        /\ devices' = [devices EXCEPT ![id].IsRevoked = TRUE]
        /\ revokedIds' = revokedIds \cup {id}
        /\ raced' = IF \E e \in EnrollRequests : PastCheck(e, id)
                    THEN raced \cup {id} ELSE raced
        /\ UNCHANGED <<epc, ereq>>
    BY <1>3 DEF OperatorRevokesDevice, RevokeDevice, enrollVars
  <2>2. IsMapOf(devices, Identities, DeviceRecord)
    BY DEF TypeOK, RepoTypeOK
  <2>3. /\ DOMAIN devices' = DOMAIN devices
        /\ devices'[id].IsRevoked
        /\ \A x \in DOMAIN devices : x # id => devices'[x] = devices[x]
    BY <2>1, <2>2 DEF IsMapOf, DeviceRecord
  <2>4. ASSUME NEW x \in revokedIds' \ raced'
        PROVE  Held(x)'
    <3>1. CASE x = id
      BY <2>1, <2>3, <2>4, <3>1
    <3>2. CASE x # id
      BY <2>1, <2>3, <2>4, <3>2
    <3> QED BY <3>1, <3>2
  <2> QED BY <2>4
<1>4. ASSUME NEW serial \in Serials, OperatorRevokesSerial(serial)
      PROVE  HeldInv'
  BY <1>4 DEF OperatorRevokesSerial, RevokeSerial, enrollVars, historyVars
<1>5. CASE Restart
  BY <1>5 DEF Restart
<1> QED BY <1>1, <1>2, <1>3, <1>4, <1>5 DEF Next, Operator

\* enroll_handler.go:186-192.  A revoked identity stays revoked for the life of
\* the process, unless an enrolment of the same key had already passed the
\* check when the revocation came.
THEOREM RevocationHolds == Spec => []RevocationHoldsUnlessRaced
<1>1. Init => HeldInv
  BY DEF Init, HeldInv
<1>2. TypeOK /\ HeldInv /\ [Next]_vars => HeldInv'
  BY HeldStep
<1>3. HeldInv => RevocationHoldsUnlessRaced
  BY DEF HeldInv, Held, RevocationHoldsUnlessRaced, IsDeviceActive
<1> QED BY <1>1, <1>2, <1>3, TypeCorrect, PTL DEF Spec

-----------------------------------------------------------------------------
(* The certificate ledger                                                  *)
(*                                                                         *)
(* A serial is in one place at a time: held by one enrolment, or in the    *)
(* record of one identity.  So registering it, or revoking it, changes the *)
(* certificate of that identity only, and none that was used comes back.   *)

InOnePlace ==
    /\ \A e \in EnrollRequests : eserial[e] # Nil => eserial[e] \in IssuedSerials
    /\ \A e, f \in EnrollRequests : eserial[e] = eserial[f] /\ eserial[e] # Nil => e = f
    /\ \A id \in DOMAIN devices : devices[id].CertSerial \in IssuedSerials
    /\ \A e \in EnrollRequests, id \in DOMAIN devices :
         devices[id].CertSerial # eserial[e]
    /\ \A id, j \in DOMAIN devices :
         devices[id].CertSerial = devices[j].CertSerial => id = j

\* What a step of the ledger amounts to, identity by identity.
LEMMA LedgerGrant ==
  ASSUME NEW id \in Identities, NEW s \in Serials,
         s \notin UsedSerials, UsedSerials' = UsedSerials \cup {s},
         CurrentSerial(id)' = s,
         \A j \in Identities \ {id} : CurrentSerial(j)' = CurrentSerial(j)
  PROVE  Certificates!Next
BY DEF Certificates!Next, Certificates!Grant

LEMMA LedgerWithdraw ==
  ASSUME NEW id \in Identities, UsedSerials' = UsedSerials,
         CurrentSerial(id)' = Nil,
         \A j \in Identities \ {id} : CurrentSerial(j)' = CurrentSerial(j)
  PROVE  Certificates!Next
BY DEF Certificates!Next, Certificates!Withdraw

LEMMA LedgerDiscard ==
  ASSUME NEW s \in Serials, UsedSerials' = UsedSerials \cup {s},
         \A j \in Identities : CurrentSerial(j)' = CurrentSerial(j)
  PROVE  Certificates!Next
BY DEF Certificates!Next, Certificates!Discard

LEMMA LedgerStutter ==
  ASSUME UsedSerials' = UsedSerials,
         \A j \in Identities : CurrentSerial(j)' = CurrentSerial(j)
  PROVE  UNCHANGED Certificates!vars
BY DEF Certificates!vars

\* A step that leaves the registry and what has been signed alone, and no
\* enrolment on its way into the registry or out of it.
LEMMA LedgerQuiet ==
  ASSUME TypeOK, InOnePlace, UNCHANGED <<devices, revokedSerials, issued>>,
         \A e \in EnrollRequests :
            \/ eserial'[e] = eserial[e] /\ (epc'[e] = "register" <=> epc[e] = "register")
            \/ eserial'[e] = Nil /\ epc[e] # "register" /\ epc'[e] # "register"
  PROVE  InOnePlace' /\ UNCHANGED Certificates!vars
<1>1. IssuedSerials' = IssuedSerials
  BY DEF IssuedSerials
<1>2. InOnePlace'
  <2>1. Nil \notin IssuedSerials
    BY EnrollAssumption DEF TypeOK, EnrollTypeOK, IssuedSerials
  <2>2. \A e \in EnrollRequests : eserial'[e] \in {eserial[e], Nil}
    OBVIOUS
  <2> QED BY <1>1, <2>1, <2>2 DEF InOnePlace
<1>3. \A s : Pending(s)' <=> Pending(s)
  BY DEF Pending, IsSerialRevoked
<1>4. UsedSerials' = UsedSerials
  BY <1>1, <1>3 DEF UsedSerials
<1>5. \A id \in Identities : CurrentSerial(id)' = CurrentSerial(id)
  BY DEF CurrentSerial, IsDeviceActive, HasDevice, IsSerialRevoked
<1> QED BY <1>2, <1>4, <1>5, LedgerStutter

\* A new certificate is not used yet, unless its serial is listed already.
LEMMA LedgerSigns ==
  ASSUME TypeOK, InOnePlace, NEW e \in EnrollRequests, NEW s \in Serials, SignCSR(e, s)
  PROVE  InOnePlace' /\ [Certificates!Next]_Certificates!vars
<1>1. /\ epc[e] = "sign" /\ s \notin IssuedSerials /\ UNCHANGED <<devices, revokedSerials>>
      /\ issued' = issued \cup
           {Certificate(Identity(e), ereq[e].key, s, RequestChallenge(ereq[e]))}
      /\ eserial' = [eserial EXCEPT ![e] = s]
      /\ epc' = [epc EXCEPT ![e] = "register"]
      /\ DOMAIN eserial = EnrollRequests /\ DOMAIN epc = EnrollRequests
  BY DEF SignCSR, repoVars, TypeOK, EnrollTypeOK
<1>2. IssuedSerials' = IssuedSerials \cup {s}
  <2> DEFINE cert == Certificate(Identity(e), ereq[e].key, s, RequestChallenge(ereq[e]))
  <2>1. issued' = issued \cup {cert} /\ cert.SerialNumber = s
    BY <1>1 DEF Certificate
  <2> HIDE DEF cert
  <2> QED BY <2>1 DEF IssuedSerials
<1>3. InOnePlace'
  BY <1>1, <1>2 DEF InOnePlace
<1>4. \A t : Pending(t)' <=> Pending(t) \/ (t = s /\ ~IsSerialRevoked(s))
  BY <1>1, <1>2 DEF Pending, IsSerialRevoked
<1>5. \A id \in Identities : CurrentSerial(id)' = CurrentSerial(id)
  BY <1>1 DEF CurrentSerial, IsDeviceActive, HasDevice, IsSerialRevoked
<1>6. CASE IsSerialRevoked(s)
  <2>1. ~Pending(s)
    BY <1>6 DEF Pending
  <2>2. UsedSerials' = UsedSerials \cup {s}
    BY <1>2, <1>4, <1>6, <2>1 DEF UsedSerials
  <2> QED BY <1>3, <1>5, <2>2, LedgerDiscard
<1>7. CASE ~IsSerialRevoked(s)
  <2>1. UsedSerials' = UsedSerials
    BY <1>1, <1>2, <1>4, <1>7 DEF UsedSerials
  <2> QED BY <1>3, <1>5, <2>1, LedgerStutter
<1> QED BY <1>6, <1>7

\* A registration makes a fresh certificate current, unless it was revoked
\* while it was on its way; the one before it is current no longer.
LEMMA LedgerRegisters ==
  ASSUME TypeOK, InOnePlace, NEW e \in EnrollRequests, Register(e)
  PROVE  InOnePlace' /\ [Certificates!Next]_Certificates!vars
<1> PICK id, s : id = Identity(e) /\ s = eserial[e]
  OBVIOUS
<1>1. /\ epc[e] = "register" /\ UNCHANGED <<issued, revokedSerials>>
      /\ s \in Serials /\ s # Nil
      /\ epc' = [epc EXCEPT ![e] = "idle"]
      /\ eserial' = [eserial EXCEPT ![e] = Nil]
      /\ DOMAIN eserial = EnrollRequests /\ DOMAIN epc = EnrollRequests
  BY EnrollAssumption DEF Register, Respond, RegisterDevice, TypeOK, EnrollTypeOK
<1>2. id \in Identities
  BY <1>1, IdentityType DEF TypeOK
<1>3. /\ DOMAIN devices' = DOMAIN devices \cup {id}
      /\ devices'[id] = [CertSerial |-> s, IsRevoked |-> FALSE]
      /\ \A j \in DOMAIN devices \ {id} : devices'[j] = devices[j]
  BY DEF Register, RegisterDevice, Put
<1>4. IssuedSerials' = IssuedSerials
  BY <1>1 DEF IssuedSerials
<1>5. InOnePlace'
  <2>1. \A f \in EnrollRequests \ {e} : eserial'[f] = eserial[f] /\ eserial[f] # s
    BY <1>1 DEF InOnePlace
  <2>2. \A j \in DOMAIN devices : devices[j].CertSerial # s
    BY DEF InOnePlace
  <2>3. \A j \in DOMAIN devices' : devices'[j].CertSerial \in IssuedSerials
    BY <1>1, <1>3 DEF InOnePlace
  <2>4. Nil \notin IssuedSerials
    BY EnrollAssumption DEF TypeOK, EnrollTypeOK, IssuedSerials
  <2>5. \A f \in EnrollRequests, j \in DOMAIN devices' : devices'[j].CertSerial # eserial'[f]
    BY <1>1, <1>3, <2>1, <2>3, <2>4 DEF InOnePlace
  <2>6. \A i, j \in DOMAIN devices' :
          devices'[i].CertSerial = devices'[j].CertSerial => i = j
    BY <1>3, <2>2 DEF InOnePlace
  <2> QED BY <1>1, <1>4, <2>1, <2>3, <2>5, <2>6 DEF InOnePlace
<1>6. \A t : Pending(t)' <=> Pending(t) /\ t # s
  BY <1>1 DEF Pending, IsSerialRevoked, InOnePlace
<1>7. \A j \in Identities \ {id} : CurrentSerial(j)' = CurrentSerial(j)
  BY <1>1, <1>3 DEF CurrentSerial, IsDeviceActive, HasDevice, IsSerialRevoked
<1>8. CurrentSerial(id)' = IF s \in revokedSerials THEN Nil ELSE s
  BY <1>1, <1>3 DEF CurrentSerial, IsDeviceActive, HasDevice, IsSerialRevoked
<1>9. s \in IssuedSerials /\ (Pending(s) <=> s \notin revokedSerials)
  BY <1>1 DEF InOnePlace, Pending, IsSerialRevoked
<1>10. CASE s \in revokedSerials
  <2>1. UsedSerials' = UsedSerials
    BY <1>4, <1>6, <1>9, <1>10 DEF UsedSerials
  <2> QED BY <1>2, <1>5, <1>7, <1>8, <1>10, <2>1, LedgerWithdraw
<1>11. CASE s \notin revokedSerials
  <2>1. s \notin UsedSerials /\ UsedSerials' = UsedSerials \cup {s}
    BY <1>4, <1>6, <1>9, <1>11 DEF UsedSerials
  <2> QED BY <1>1, <1>2, <1>5, <1>7, <1>8, <1>11, <2>1, LedgerGrant
<1> QED BY <1>10, <1>11

\* Listing a serial ends the one place it has.
LEMMA LedgerRevokes ==
  ASSUME TypeOK, InOnePlace, NEW s \in IssuedSerials, RevokeSerial(s),
         UNCHANGED <<epc, eserial, issued>>
  PROVE  InOnePlace' /\ [Certificates!Next]_Certificates!vars
<1>1. UNCHANGED devices /\ revokedSerials' = revokedSerials \cup {s} /\ s \in Serials
  BY DEF RevokeSerial, IssuedSerials, TypeOK, EnrollTypeOK
<1>2. IssuedSerials' = IssuedSerials
  BY DEF IssuedSerials
<1>3. InOnePlace'
  BY <1>1, <1>2 DEF InOnePlace
<1>4. \A t : Pending(t)' <=> Pending(t) /\ t # s
  BY <1>1 DEF Pending, IsSerialRevoked
<1>5. UsedSerials' = UsedSerials \cup {s}
  BY <1>2, <1>4 DEF UsedSerials
<1>6. \A j \in Identities :
        CurrentSerial(j)' = IF CurrentSerial(j) = s THEN Nil ELSE CurrentSerial(j)
  BY <1>1 DEF CurrentSerial, IsDeviceActive, HasDevice, IsSerialRevoked
<1>7. CASE \A j \in Identities : CurrentSerial(j) # s
  BY <1>1, <1>3, <1>5, <1>6, <1>7, LedgerDiscard
<1>8. CASE \E j \in Identities : CurrentSerial(j) = s
  <2>1. PICK id \in Identities : CurrentSerial(id) = s
    BY <1>8
  <2>2. s # Nil
    BY <1>1, EnrollAssumption
  <2>3. id \in DOMAIN devices /\ devices[id].CertSerial = s
    BY <2>1, <2>2 DEF CurrentSerial, IsDeviceActive, HasDevice
  <2>4. \A j \in Identities \ {id} : CurrentSerial(j) # s
    BY <2>2, <2>3 DEF InOnePlace, CurrentSerial, IsDeviceActive, HasDevice
  <2>5. ~Pending(s)
    BY <2>3 DEF InOnePlace, Pending
  <2>6. UsedSerials' = UsedSerials
    BY <1>5, <2>5 DEF UsedSerials
  <2> QED BY <1>3, <1>6, <2>1, <2>4, <2>6, LedgerWithdraw
<1> QED BY <1>7, <1>8

\* Revoking a device ends its certificate and no other.
LEMMA LedgerRevokesDevice ==
  ASSUME TypeOK, InOnePlace, NEW id \in Identities, RevokeDevice(id),
         UNCHANGED <<epc, eserial, issued>>
  PROVE  InOnePlace' /\ [Certificates!Next]_Certificates!vars
<1> PICK s : s = devices[id].CertSerial
  OBVIOUS
<1>0. IsMapOf(devices, Identities, DeviceRecord)
  BY DEF TypeOK, RepoTypeOK
<1>1. /\ id \in DOMAIN devices /\ DOMAIN devices' = DOMAIN devices
      /\ devices'[id].IsRevoked /\ devices'[id].CertSerial = s
      /\ \A j \in DOMAIN devices \ {id} : devices'[j] = devices[j]
      /\ revokedSerials' = revokedSerials \cup {s}
  BY <1>0 DEF RevokeDevice, HasDevice, IsMapOf, DeviceRecord
<1>2. IssuedSerials' = IssuedSerials
  BY DEF IssuedSerials
<1>3. InOnePlace'
  <2>1. \A j \in DOMAIN devices' : devices'[j].CertSerial = devices[j].CertSerial
    BY <1>1
  <2> QED BY <1>1, <1>2, <2>1 DEF InOnePlace
<1>4. \A t : Pending(t)' <=> Pending(t)
  BY <1>1 DEF Pending, IsSerialRevoked, InOnePlace
<1>5. UsedSerials' = UsedSerials
  BY <1>2, <1>4 DEF UsedSerials
<1>6. CurrentSerial(id)' = Nil
  BY <1>1 DEF CurrentSerial, IsDeviceActive
<1>7. \A j \in Identities \ {id} : CurrentSerial(j)' = CurrentSerial(j)
  BY <1>1 DEF CurrentSerial, IsDeviceActive, HasDevice, IsSerialRevoked, InOnePlace
<1> QED BY <1>3, <1>5, <1>6, <1>7, LedgerWithdraw

\* A restart leaves no certificate current and none on its way.
LEMMA LedgerRestarts ==
  ASSUME TypeOK, InOnePlace, Restart
  PROVE  InOnePlace' /\ [Certificates!Next]_Certificates!vars
<1>1. /\ DOMAIN devices' = {} /\ UNCHANGED issued
      /\ \A e \in EnrollRequests : epc'[e] = "idle" /\ eserial'[e] = Nil
  BY DEF Restart, RepoRestart, EnrollRestart, EmptyMap
<1>2. IssuedSerials' = IssuedSerials /\ IssuedSerials \subseteq Serials
  BY <1>1 DEF IssuedSerials, TypeOK, EnrollTypeOK
<1>3. InOnePlace'
  BY <1>1 DEF InOnePlace
<1>4. \A t : ~Pending(t)'
  BY <1>1 DEF Pending
<1>5. UsedSerials' = UsedSerials \cup IssuedSerials
  BY <1>2, <1>4 DEF UsedSerials
<1>6. \A j \in Identities : CurrentSerial(j)' = Nil
  BY <1>1 DEF CurrentSerial, IsDeviceActive, HasDevice
<1>7. Certificates!Forget
  BY <1>2, <1>5, <1>6 DEF Certificates!Forget
<1> QED BY <1>3, <1>7 DEF Certificates!Next

\* A certificate whose registration fails will not become current.
LEMMA LedgerGivesUp ==
  ASSUME TypeOK, InOnePlace, NEW e \in EnrollRequests, RegisterFails(e)
  PROVE  InOnePlace' /\ [Certificates!Next]_Certificates!vars
<1> PICK s : s = eserial[e]
  OBVIOUS
<1>1. /\ epc[e] = "register" /\ s \in Serials /\ s # Nil
      /\ UNCHANGED <<devices, revokedSerials, issued, eserial>>
      /\ epc' = [epc EXCEPT ![e] = "revoke"] /\ DOMAIN epc = EnrollRequests
  BY EnrollAssumption DEF RegisterFails, Goto, repoVars, TypeOK, EnrollTypeOK
<1>2. IssuedSerials' = IssuedSerials /\ s \in IssuedSerials
  BY <1>1 DEF IssuedSerials, InOnePlace
<1>3. InOnePlace'
  BY <1>1, <1>2 DEF InOnePlace
<1>4. \A t : Pending(t)' <=> Pending(t) /\ t # s
  BY <1>1 DEF Pending, IsSerialRevoked, InOnePlace
<1>5. UsedSerials' = UsedSerials \cup {s}
  BY <1>2, <1>4 DEF UsedSerials
<1>6. \A j \in Identities : CurrentSerial(j)' = CurrentSerial(j)
  BY <1>1 DEF CurrentSerial, IsDeviceActive, HasDevice, IsSerialRevoked
<1> QED BY <1>1, <1>3, <1>5, <1>6, LedgerDiscard

\* ... and revoking it afterwards changes no one's certificate.
LEMMA LedgerRevokesIssued ==
  ASSUME TypeOK, InOnePlace, NEW e \in EnrollRequests, RevokeIssued(e)
  PROVE  InOnePlace' /\ [Certificates!Next]_Certificates!vars
<1> PICK s : s = eserial[e]
  OBVIOUS
<1>1. /\ epc[e] = "revoke" /\ s \in Serials /\ s # Nil
      /\ UNCHANGED <<devices, issued>> /\ revokedSerials' = revokedSerials \cup {s}
      /\ eserial' = [eserial EXCEPT ![e] = Nil] /\ DOMAIN eserial = EnrollRequests
      /\ epc' = [epc EXCEPT ![e] = "idle"] /\ DOMAIN epc = EnrollRequests
  BY EnrollAssumption DEF RevokeIssued, RevokeSerial, Respond, TypeOK, EnrollTypeOK
<1>2. IssuedSerials' = IssuedSerials /\ Nil \notin IssuedSerials
  BY <1>1, EnrollAssumption DEF IssuedSerials, TypeOK, EnrollTypeOK
<1>3. InOnePlace'
  <2>1. \A f \in EnrollRequests : eserial'[f] \in {eserial[f], Nil}
    BY <1>1
  <2> QED BY <1>1, <1>2, <2>1 DEF InOnePlace
<1>4. \A t : Pending(t)' <=> Pending(t)
  BY <1>1 DEF Pending, IsSerialRevoked, InOnePlace
<1>5. UsedSerials' = UsedSerials
  BY <1>2, <1>4 DEF UsedSerials
<1>6. \A j \in Identities : CurrentSerial(j)' = CurrentSerial(j)
  BY <1>1 DEF CurrentSerial, IsDeviceActive, HasDevice, IsSerialRevoked, InOnePlace
<1> QED BY <1>3, <1>5, <1>6, LedgerStutter

\* One step of an enrolment is one step of the ledger or none.
LEMMA LedgerEnrollStep ==
  ASSUME TypeOK, InOnePlace, NEW e \in EnrollRequests, EnrollStep(e)
  PROVE  InOnePlace' /\ [Certificates!Next]_Certificates!vars
<1>0. DOMAIN epc = EnrollRequests /\ DOMAIN eserial = EnrollRequests
  BY DEF TypeOK, EnrollTypeOK
<1>1. ASSUME UNCHANGED <<devices, revokedSerials, issued>>, epc[e] # "register",
             \/ Respond(e)
             \/ \E pc : pc # "register" /\ epc' = [epc EXCEPT ![e] = pc] /\ UNCHANGED eserial
      PROVE  InOnePlace' /\ [Certificates!Next]_Certificates!vars
  BY <1>0, <1>1, LedgerQuiet DEF Respond
<1>2. ASSUME NEW body \in EnrollBodies, Receive(e, body)
      PROVE  InOnePlace' /\ [Certificates!Next]_Certificates!vars
  <2>1. FirstStep(body) # "register"
    BY DEF FirstStep
  <2> QED BY <1>1, <1>2, <2>1 DEF Receive, repoVars
<1>3. CASE Consume(e)
  BY <1>1, <1>3 DEF Consume, GotoOrRefuse, Goto, repoVars
<1>4. ASSUME NEW revocation \in {"clear", "revoked", "error"}, Verify(e, revocation)
      PROVE  InOnePlace' /\ [Certificates!Next]_Certificates!vars
  BY <1>1, <1>4 DEF Verify, GotoOrRefuse, Goto, repoVars
<1>5. CASE CheckNotRevoked(e)
  BY <1>1, <1>5 DEF CheckNotRevoked, GotoOrRefuse, Goto, repoVars
<1>6. CASE SignCSRFails(e)
  BY <1>1, <1>6 DEF SignCSRFails, repoVars
<1>7. ASSUME NEW serial \in Serials, SignCSR(e, serial)
      PROVE  InOnePlace' /\ [Certificates!Next]_Certificates!vars
  BY <1>7, LedgerSigns
<1>8. CASE Register(e)
  BY <1>8, LedgerRegisters
<1>9. CASE RegisterFails(e)
  BY <1>9, LedgerGivesUp
<1>10. CASE RevokeIssued(e)
  BY <1>10, LedgerRevokesIssued
<1>11. CASE RevokeIssuedFails(e)
  BY <1>1, <1>11 DEF RevokeIssuedFails, repoVars
<1> QED BY <1>2, <1>3, <1>4, <1>5, <1>6, <1>7, <1>8, <1>9, <1>10, <1>11 DEF EnrollStep

\* Every step of the process is.
LEMMA LedgerStep ==
  ASSUME TypeOK, InOnePlace, [Next]_vars
  PROVE  InOnePlace' /\ [Certificates!Next]_Certificates!vars
<1>1. CASE EnrollServer
  BY <1>1, LedgerEnrollStep DEF EnrollServer
<1>2. CASE ChallengeServer \/ MtlsServer \/ UNCHANGED vars
  <2>1. UNCHANGED <<devices, revokedSerials, issued, epc, eserial>>
    BY <1>2 DEF ChallengeServer, MtlsServer, vars, repoVars, enrollVars
  <2> QED BY <2>1, LedgerQuiet
<1>3. ASSUME NEW id \in Identities, OperatorRevokesDevice(id)
      PROVE  InOnePlace' /\ [Certificates!Next]_Certificates!vars
  BY <1>3, LedgerRevokesDevice DEF OperatorRevokesDevice, enrollVars
<1>4. ASSUME NEW s \in Serials, OperatorRevokesSerial(s)
      PROVE  InOnePlace' /\ [Certificates!Next]_Certificates!vars
  BY <1>4, LedgerRevokes DEF OperatorRevokesSerial, enrollVars
<1>5. CASE Restart
  BY <1>5, LedgerRestarts
<1> QED BY <1>1, <1>2, <1>3, <1>4, <1>5 DEF Next, Operator

\* enroll_handler.go:195-223, device_repo.go:55-107.  The backend implements
\* the certificate ledger: however enrolments, revocations, failing writes and
\* restarts interleave, a certificate is current once, for one identity, and
\* never again.
THEOREM BackendImplementsLedger == Spec => ImplementsCertificateLedger
<1>1. Init => InOnePlace /\ Certificates!Init
  <2> SUFFICES ASSUME Init PROVE InOnePlace /\ Certificates!Init
    OBVIOUS
  <2>1. /\ DOMAIN devices = {} /\ issued = {}
        /\ \A e \in EnrollRequests : eserial[e] = Nil
    BY DEF Init, RepoInit, EnrollInit, EmptyMap
  <2>2. InOnePlace
    BY <2>1 DEF InOnePlace
  <2>3. UsedSerials = {}
    BY <2>1 DEF UsedSerials, IssuedSerials
  <2>4. \A j \in Identities : CurrentSerial(j) = Nil
    BY <2>1 DEF CurrentSerial, IsDeviceActive, HasDevice
  <2> QED BY <2>2, <2>3, <2>4 DEF Certificates!Init
<1>2. TypeOK /\ InOnePlace /\ [Next]_vars =>
        InOnePlace' /\ [Certificates!Next]_Certificates!vars
  BY LedgerStep
<1> QED BY <1>1, <1>2, TypeCorrect, PTL
    DEF Spec, ImplementsCertificateLedger, Certificates!Spec

\* What the ledger is for: a certificate that has been used and lets no one in
\* lets no one in afterwards.
Returns(s) ==
    /\ s \in UsedSerials /\ \A id \in Identities : CurrentSerial(id) # s
    /\ \E id \in Identities : CurrentSerial(id)' = s

LEMMA LedgerNeverReturns ==
  ASSUME [Certificates!Next]_Certificates!vars, NEW s, s # Nil
  PROVE  ~Returns(s)
<1> DEFINE old == [id \in Identities |-> CurrentSerial(id)]
           new == [id \in Identities |-> CurrentSerial(id)']
<1>1. CASE Certificates!Next
  <2>1. ASSUME NEW id \in Identities, NEW serial \in Serials, Certificates!Grant(id, serial)
        PROVE  ~Returns(s)
    <3>1. serial \notin UsedSerials /\ new = [old EXCEPT ![id] = serial]
      BY <2>1 DEF Certificates!Grant
    <3>2. \A j \in Identities : new[j] \in {old[j], serial}
      BY <3>1
    <3> QED BY <3>1, <3>2 DEF Returns
  <2>2. ASSUME NEW id \in Identities, Certificates!Withdraw(id)
        PROVE  ~Returns(s)
    <3>1. new = [old EXCEPT ![id] = Nil]
      BY <2>2 DEF Certificates!Withdraw
    <3>2. \A j \in Identities : new[j] \in {old[j], Nil}
      BY <3>1
    <3> QED BY <3>2 DEF Returns
  <2>3. ASSUME NEW serial \in Serials, Certificates!Discard(serial)
        PROVE  ~Returns(s)
    <3>1. \A j \in Identities : new[j] = old[j]
      BY <2>3 DEF Certificates!Discard
    <3> QED BY <3>1 DEF Returns
  <2>4. CASE Certificates!Forget
    <3>1. \A j \in Identities : new[j] = Nil
      BY <2>4 DEF Certificates!Forget
    <3> QED BY <3>1 DEF Returns
  <2> QED BY <1>1, <2>1, <2>2, <2>3, <2>4 DEF Certificates!Next
<1>2. CASE UNCHANGED Certificates!vars
  <2>1. \A j \in Identities : new[j] = old[j]
    BY <1>2 DEF Certificates!vars
  <2> QED BY <2>1 DEF Returns
<1> QED BY <1>1, <1>2

\* enroll_handler.go:214-218, device_repo.go:55-107.  No certificate of the
\* backend returns: once superseded, revoked, given up or forgotten, it is
\* never current again, in this life of the process or a later one.
THEOREM NoCertificateReturns == Spec => [][\A s \in Serials : ~Returns(s)]_vars
<1>1. TypeOK /\ InOnePlace /\ [Next]_vars =>
        InOnePlace' /\ [\A s \in Serials : ~Returns(s)]_vars
  BY LedgerStep, LedgerNeverReturns, EnrollAssumption
<1>2. Init => InOnePlace
  BY DEF Init, RepoInit, EnrollInit, EmptyMap, InOnePlace
<1> QED BY <1>1, <1>2, TypeCorrect, PTL DEF Spec
=============================================================================
