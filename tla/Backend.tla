------------------------------ MODULE Backend ------------------------------
(***************************************************************************)
(* The backend process: the enrolment server and the mTLS server (two      *)
(* listeners of backend/cmd/server/main.go) over one challenge store, one  *)
(* device registry and one CA, with an operator who revokes, and restarts. *)
(***************************************************************************)
EXTENDS EnrollHandler, MtlsAuth

VARIABLES
    signedHere,  \* history: serials this process has signed
    abandoned,   \* history: serials among them that the handler gave up when
                 \* the registry had refused to revoke them, too
    revokedIds,  \* history: identities RevokeDevice has revoked in this process
    raced        \* history: ... while an enrolment of the same key was past its
                 \* revocation check

historyVars == <<signedHere, abandoned, revokedIds, raced>>

vars == <<storeVars, repoVars, enrollVars, mtlsVars, historyVars>>

TypeOK ==
    /\ StoreTypeOK
    /\ RepoTypeOK
    /\ EnrollTypeOK
    /\ MtlsTypeOK
    /\ \A m \in MtlsRequests :
         mpc[m] # "idle" => mcert[m] \in issued \cup OtherCerts
    /\ signedHere \subseteq Serials /\ abandoned \subseteq Serials
    /\ revokedIds \subseteq Identities
    /\ raced \subseteq Identities

Init ==
    /\ StoreInit
    /\ RepoInit
    /\ EnrollInit
    /\ MtlsInit
    /\ signedHere = {} /\ abandoned = {}
    /\ revokedIds = {}
    /\ raced = {}

-----------------------------------------------------------------------------

\* An enrolment of identity id has passed the check at line 188 and has yet
\* to write its record at line 214.
PastCheck(e, id) == epc[e] \in {"sign", "register"} /\ Identity(e) = id

\* DeviceRepo.RevokeDevice and RevokeSerial are the operator's.
OperatorRevokesDevice(id) ==
    /\ RevokeDevice(id)
    /\ revokedIds' = revokedIds \cup {id}
    /\ raced' = IF \E e \in EnrollRequests : PastCheck(e, id)
                THEN raced \cup {id} ELSE raced
    /\ UNCHANGED <<storeVars, enrollVars, mpc, mcert, mrecord, signedHere, abandoned>>
    /\ Observe

OperatorRevokesSerial(serial) ==
    /\ serial \in IssuedSerials
    /\ RevokeSerial(serial)
    /\ UNCHANGED <<storeVars, enrollVars, mpc, mcert, mrecord, historyVars>>
    /\ Observe

ChallengeServer ==
    /\ \/ \E h \in ChallengeRequests, n \in Nonces : GenerateChallenge(h, n)
       \/ \E h \in ChallengeRequests : StoreChallenge(h)
       \/ CleanupWorker
       \/ Tick
    /\ UNCHANGED <<repoVars, enrollVars, mpc, mcert, mrecord, historyVars>>
    /\ Observe

EnrollServer ==
    /\ \E e \in EnrollRequests : EnrollStep(e)
    /\ signedHere' = signedHere \cup
         {s \in Serials : \E e \in EnrollRequests : eserial'[e] = s}
    /\ abandoned' = abandoned \cup
         {eserial[e] : e \in {x \in EnrollRequests : RevokeIssuedFails(x)}}
    /\ UNCHANGED <<mpc, mcert, mrecord, revokedIds, raced>>
    /\ Observe

MtlsServer ==
    /\ \E m \in MtlsRequests :
         \/ \E cert \in issued \cup OtherCerts : Present(m, cert)
         \/ MtlsStep(m)
    /\ UNCHANGED <<storeVars, repoVars, enrollVars, historyVars>>
    /\ Observe

Operator ==
    \/ \E id \in Identities : OperatorRevokesDevice(id)
    \/ \E serial \in Serials : OperatorRevokesSerial(serial)

\* The process is killed at any point and started again.
Restart ==
    /\ StoreRestart
    /\ RepoRestart
    /\ EnrollRestart
    /\ MtlsRestart
    /\ signedHere' = {} /\ abandoned' = {}
    /\ revokedIds' = {}
    /\ raced' = {}
    /\ Observe

Next ==
    \/ ChallengeServer
    \/ EnrollServer
    \/ MtlsServer
    \/ Operator
    \/ Restart

Spec == Init /\ [][Next]_vars

-----------------------------------------------------------------------------

\* mtls_auth.go:28-33.  The middleware's three separate reads, the last of
\* them compared with a possibly stale copy, still amount to one atomic
\* decision: whenever a request is let through, there was a moment during it
\* at which its certificate was the current one of an active device and was
\* not revoked.
AuthenticationIsAtomic ==
    \A m \in MtlsRequests : mpc[m] = "authenticated" => mok[m]

\* What has become of a certificate: it was handed out with its record
\* written, is revoked, or belongs to a request still between SignCSR and the
\* registry.
Tracked(serial) ==
    \/ serial \in granted
    \/ IsSerialRevoked(serial)
    \/ \E e \in EnrollRequests :
         epc[e] \in {"register", "revoke"} /\ eserial[e] = serial

\* enroll_handler.go:203-205, 214-218.  No valid but untracked certificate,
\* unless the registry refused both to record it and to revoke it (which the
\* comment forgets).  Even then it lets nobody in: a certificate that was not
\* handed out is not current.
UntrackedOnlyIfBothWritesFail ==
    \A s \in signedHere :
        /\ Tracked(s) \/ s \in abandoned
        /\ s \notin granted => \A id \in Identities : CurrentSerial(id) # s

\* enroll_handler.go:139-164.  A challenge yields at most one certificate,
\* over every interleaving of enrolments and across restarts, and only a
\* challenge this server drew yields one.  Under a policy that requires
\* attestation no certificate is issued without a challenge.
OneCertificatePerChallenge ==
    \A c \in issued :
        /\ c.challenge # Nil => c.challenge \in drawn
        /\ c.challenge = Nil => Policy.AllowEmptyAttestation
        /\ \A d \in issued :
             c.challenge = d.challenge /\ c.challenge # Nil => c = d

\* A certificate that SignCSR has made and that may still become current.
Pending(serial) ==
    /\ ~IsSerialRevoked(serial)
    /\ \E e \in EnrollRequests : epc[e] = "register" /\ eserial[e] = serial

UsedSerials == {s \in IssuedSerials : ~Pending(s)}

Certificates == INSTANCE CertificateLedger
    WITH current <- [id \in Identities |-> CurrentSerial(id)], used <- UsedSerials

\* enroll_handler.go:195-223, device_repo.go:55-107.  Of the certificates of an
\* identity one at most is current, a certificate is so once, and none that
\* was superseded, revoked (before it was registered, too), given up or
\* forgotten in a restart ever is again.
ImplementsCertificateLedger == Certificates!Spec

\* enroll_handler.go:186-187.  A revoked identity stays revoked, unless an
\* enrolment of the same key was already between its check and its write.
RevocationHoldsUnlessRaced ==
    \A id \in revokedIds \ raced : ~IsDeviceActive(id)

\* The same without the exception, as the comment has it.
RevokedIdentityStaysRevoked ==
    \A id \in revokedIds : ~IsDeviceActive(id)
=============================================================================
