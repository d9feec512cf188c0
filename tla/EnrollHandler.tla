--------------------------- MODULE EnrollHandler ---------------------------
(***************************************************************************)
(* backend/internal/handlers/enroll_handler.go, POST /api/v1/enroll, with  *)
(* the CA's SignCSR (backend/internal/ca/signer.go).                       *)
(*                                                                         *)
(* net/http runs each request in its own goroutine.  A request is a slot   *)
(* of EnrollRequests; its program counter names the shared-state call it   *)
(* makes next, and everything local to the goroutine between two such      *)
(* calls belongs to the step of the first:                                 *)
(*   consume   VerifyAndConsumeChallenge       (line 156)                  *)
(*   verify    VerifyAttestation               (line 167)                  *)
(*   check     GetDevice, refuse if revoked    (line 188)                  *)
(*   sign      SignCSR                         (line 196)                  *)
(*   register  RegisterDevice                  (line 214)                  *)
(*   revoke    RevokeSerial, after a failed RegisterDevice (line 215)      *)
(* and is "idle" again once the handler has answered.                      *)
(***************************************************************************)
EXTENDS ChallengeStore, DeviceRepo, AttestationVerifier

CONSTANTS
    EnrollRequests,    \* slots for concurrent enrolment requests
    EnrollBodies,      \* request bodies clients may send
    Policy,            \* the verifier's policy
    RepoWritesCanFail  \* whether RegisterDevice and RevokeSerial may return an
                       \* error

ASSUME EnrollAssumption ==
    /\ RepoWritesCanFail \in BOOLEAN
    /\ \A body \in EnrollBodies : body.key \in Keys
    /\ Nil \notin Serials

VARIABLES
    epc,      \* where each enrolment request is
    ereq,     \* the request body it handles, or Nil
    eserial,  \* the serial SignCSR gave it, or Nil
    issued,   \* certificates the CA has signed, in whatever process lifetime
    granted   \* serials returned with a 201 by this process

enrollVars == <<epc, ereq, eserial, issued, granted>>

\* A certificate binds a name (CN and SAN URI) to a key.  The challenge its
\* enrolment consumed is not in the certificate; it is kept for the
\* properties.
Certificate(identity, key, serial, challenge) ==
    [CommonName |-> identity, URI |-> identity, PublicKey |-> key,
     SerialNumber |-> serial, challenge |-> challenge]

IssuedSerials == {c.SerialNumber : c \in issued}

EnrollTypeOK ==
    /\ epc \in [EnrollRequests -> {"idle", "consume", "verify", "check",
                                   "sign", "register", "revoke"}]
    /\ ereq \in [EnrollRequests -> EnrollBodies \cup {Nil}]
    /\ \A e \in EnrollRequests : epc[e] # "idle" => ereq[e] \in EnrollBodies
    /\ eserial \in [EnrollRequests -> Serials \cup {Nil}]
    /\ \A e \in EnrollRequests :
         epc[e] \in {"register", "revoke"} => eserial[e] \in Serials
    /\ \A c \in issued : /\ c.CommonName \in Identities
                         /\ c.PublicKey \in Keys
                         /\ c.SerialNumber \in Serials
    /\ granted \subseteq Serials

EnrollInit ==
    /\ epc = [e \in EnrollRequests |-> "idle"]
    /\ ereq = [e \in EnrollRequests |-> Nil]
    /\ eserial = [e \in EnrollRequests |-> Nil]
    /\ issued = {}
    /\ granted = {}

-----------------------------------------------------------------------------

\* The nonce the handler takes from the chain; Nil when the chain has
\* none and, under a lenient policy, when it could not be extracted.
RequestChallenge(body) ==
    IF body.chain.length = 0 \/ ExtractChallenge(body.chain) = Malformed
    THEN Nil
    ELSE ExtractChallenge(body.chain)

Identity(e) == PublicKeyFingerprint(ereq[e].key)

\* Lines 77-152 and 161-164, all local: the first shared-state call a
\* request makes, or "idle" when it is answered with an error before.
FirstStep(body) ==
    LET strict == ~Policy.AllowEmptyAttestation
    IN  IF \/ ~body.wellFormed                \* method, JSON, label or CSR
           \/ strict /\ body.chain.length < 2
           \/ ~body.chain.decodes
        THEN "idle"
        ELSE IF RequestChallenge(body) # Nil
        THEN "consume"
        ELSE IF strict THEN "idle" ELSE "verify"

\* The request goes on to step pc ...
Goto(e, pc) ==
    /\ epc' = [epc EXCEPT ![e] = pc]
    /\ UNCHANGED <<ereq, eserial>>

\* ... or is answered, and its goroutine's locals are gone.
Respond(e) ==
    /\ epc' = [epc EXCEPT ![e] = "idle"]
    /\ ereq' = [ereq EXCEPT ![e] = Nil]
    /\ eserial' = [eserial EXCEPT ![e] = Nil]

GotoOrRefuse(e, ok, pc) == IF ok THEN Goto(e, pc) ELSE Respond(e)

Receive(e, body) ==
    /\ epc[e] = "idle"
    /\ FirstStep(body) # "idle"
    /\ epc' = [epc EXCEPT ![e] = FirstStep(body)]
    /\ ereq' = [ereq EXCEPT ![e] = body]
    /\ UNCHANGED <<storeVars, repoVars, eserial, issued, granted>>

ConsumePeekOnly(e) ==  \* mutant: the challenge stays in the store
    /\ epc[e] = "consume"
    /\ GotoOrRefuse(e, ChallengeValid(RequestChallenge(ereq[e])), "verify")
    /\ UNCHANGED <<storeVars, repoVars, issued, granted>>

Consume(e) ==
    LET n == RequestChallenge(ereq[e])
    IN  /\ epc[e] = "consume"
        /\ GotoOrRefuse(e, ChallengeValid(n), "verify")
        /\ ConsumeChallenge(n)
        /\ UNCHANGED <<now, drawn, pending, repoVars, issued, granted>>

\* The revocation list's answer is the environment's.
Verify(e, revocation) ==
    /\ epc[e] = "verify"
    /\ GotoOrRefuse(e, VerifyAttestation(Policy, ereq[e].chain,
                         RequestChallenge(ereq[e]), ereq[e].key, revocation),
                    "check")
    /\ UNCHANGED <<storeVars, repoVars, issued, granted>>

CheckNotRevokedSkipped(e) ==  \* mutant: no look at the registry
    /\ epc[e] = "check"
    /\ Goto(e, "sign")
    /\ UNCHANGED <<storeVars, repoVars, issued, granted>>

CheckNotRevoked(e) ==
    /\ epc[e] = "check"
    /\ GotoOrRefuse(e, HasDevice(Identity(e)) => ~devices[Identity(e)].IsRevoked,
                    "sign")
    /\ UNCHANGED <<storeVars, repoVars, issued, granted>>

\* SignCSR fails: the CSR is not signed by its own key, which is looked at
\* only here, or the CA's random source or signature fails.
SignCSRFails(e) ==
    /\ epc[e] = "sign"
    /\ Respond(e)
    /\ UNCHANGED <<storeVars, repoVars, issued, granted>>

\* Serials are 128 random bits, which never repeat.
SignCSR(e, serial) ==
    /\ epc[e] = "sign"
    /\ ereq[e].signatureValid
    /\ serial \notin IssuedSerials
    /\ issued' = issued \cup
         {Certificate(Identity(e), ereq[e].key, serial, RequestChallenge(ereq[e]))}
    /\ eserial' = [eserial EXCEPT ![e] = serial]
    /\ epc' = [epc EXCEPT ![e] = "register"]
    /\ UNCHANGED <<storeVars, repoVars, ereq, granted>>

\* RegisterDevice succeeds and the handler answers 201 with the certificate.
Register(e) ==
    /\ epc[e] = "register"
    /\ RegisterDevice(Identity(e), eserial[e])
    /\ granted' = granted \cup {eserial[e]}
    /\ Respond(e)
    /\ UNCHANGED <<storeVars, issued>>

RegisterFailsQuietly(e) ==  \* mutant: the certificate is not revoked
    /\ RepoWritesCanFail
    /\ epc[e] = "register"
    /\ Respond(e)
    /\ UNCHANGED <<storeVars, repoVars, issued, granted>>

\* RegisterDevice returns an error (never from the in-memory repository) ...
RegisterFails(e) ==
    /\ RepoWritesCanFail
    /\ epc[e] = "register"
    /\ Goto(e, "revoke")
    /\ UNCHANGED <<storeVars, repoVars, issued, granted>>

\* ... and the handler revokes what it signed and answers 500 ...
RevokeIssued(e) ==
    /\ epc[e] = "revoke"
    /\ RevokeSerial(eserial[e])
    /\ Respond(e)
    /\ UNCHANGED <<storeVars, issued, granted>>

\* ... whether or not that worked: the error of RevokeSerial is discarded.
RevokeIssuedFails(e) ==
    /\ RepoWritesCanFail
    /\ epc[e] = "revoke"
    /\ Respond(e)
    /\ UNCHANGED <<storeVars, repoVars, issued, granted>>

-----------------------------------------------------------------------------

EnrollStep(e) ==
    \/ \E body \in EnrollBodies : Receive(e, body)
    \/ Consume(e)
    \/ \E revocation \in {"clear", "revoked", "error"} : Verify(e, revocation)
    \/ CheckNotRevoked(e)
    \/ SignCSRFails(e)
    \/ \E serial \in Serials : SignCSR(e, serial)
    \/ Register(e)
    \/ RegisterFails(e)
    \/ RevokeIssued(e)
    \/ RevokeIssuedFails(e)

\* Requests in progress die with the process; signed certificates do not.
EnrollRestart ==
    /\ epc' = [e \in EnrollRequests |-> "idle"]
    /\ ereq' = [e \in EnrollRequests |-> Nil]
    /\ eserial' = [e \in EnrollRequests |-> Nil]
    /\ granted' = {}
    /\ UNCHANGED issued
=============================================================================
