------------------------------ MODULE MtlsAuth ------------------------------
(***************************************************************************)
(* backend/internal/middleware/mtls_auth.go in front of the protected ping *)
(* handler.  A request is a slot of MtlsRequests.  The middleware asks the *)
(* repository three times, each under its own lock:                        *)
(*   get      GetDevice        (line 78), whose copy it keeps              *)
(*   active   IsDeviceActive   (line 79)                                   *)
(*   serial   IsSerialRevoked  (line 86), then compares the copy's serial  *)
(* so enrolments and revocations may run in between.                       *)
(*                                                                         *)
(* The handshake (crypto/tls, RequireAndVerifyClientCert) is external: it  *)
(* lets through a certificate of the CA.  Expiry is checked there only, so *)
(* any certificate ever signed may arrive here on a long-lived connection. *)
(***************************************************************************)
EXTENDS DeviceRepo

CONSTANTS
    MtlsRequests,  \* slots for concurrent protected requests
    NoName,        \* an empty CN, or no urn:device: URI
    OtherCerts     \* what else may reach the middleware: certificates of the
                   \* CA that no enrolment issued

VARIABLES
    mpc,      \* where each protected request is, "idle" when there is none
    mcert,    \* the certificate presented, or Nil
    mrecord,  \* the copy GetDevice returned, or Nil
    mok       \* history: at some moment since the request arrived, its
              \* certificate was Authorized

mtlsVars == <<mpc, mcert, mrecord, mok>>

\* The identity the middleware reads from a certificate.
CertIdentity(cert) ==
    IF cert.CommonName # NoName THEN cert.CommonName ELSE cert.URI

\* What the middleware is to establish, of one state: the certificate's key
\* is the identity it claims, and the registry holds that identity, active,
\* with this very serial, which is not revoked.
Authorized(cert) ==
    LET id == CertIdentity(cert)
    IN  /\ id = PublicKeyFingerprint(cert.PublicKey)
        /\ IsDeviceActive(id)
        /\ devices[id].CertSerial = cert.SerialNumber
        /\ ~IsSerialRevoked(cert.SerialNumber)

MtlsTypeOK ==
    /\ mpc \in [MtlsRequests -> {"idle", "get", "active", "serial",
                                 "authenticated"}]
    /\ DOMAIN mcert = MtlsRequests
    /\ mrecord \in [MtlsRequests -> DeviceRecord \cup {Nil}]
    /\ \A m \in MtlsRequests :
         mpc[m] \in {"active", "serial"} => mrecord[m] \in DeviceRecord
    /\ mok \in [MtlsRequests -> BOOLEAN]

MtlsInit ==
    /\ mpc = [m \in MtlsRequests |-> "idle"]
    /\ mcert = [m \in MtlsRequests |-> Nil]
    /\ mrecord = [m \in MtlsRequests |-> Nil]
    /\ mok = [m \in MtlsRequests |-> FALSE]

-----------------------------------------------------------------------------

\* Lines 37-73: a request that presents cert passes the checks that need
\* no registry.  Any other is answered 401 or 403 at once, which changes
\* nothing.
Present(m, cert) ==
    /\ mpc[m] = "idle"
    /\ CertIdentity(cert) # NoName
    /\ CertIdentity(cert) = PublicKeyFingerprint(cert.PublicKey)
    /\ mpc' = [mpc EXCEPT ![m] = "get"]
    /\ mcert' = [mcert EXCEPT ![m] = cert]
    /\ UNCHANGED mrecord

\* The request goes on to step pc, or is answered and forgotten.
Proceed(m, pc) == mpc' = [mpc EXCEPT ![m] = pc] /\ UNCHANGED mcert

Answer(m) ==
    /\ mpc' = [mpc EXCEPT ![m] = "idle"]
    /\ mcert' = [mcert EXCEPT ![m] = Nil]
    /\ mrecord' = [mrecord EXCEPT ![m] = Nil]

GetDeviceErrorIgnored(m) ==  \* mutant: goes on without a record
    LET id == CertIdentity(mcert[m])
    IN  /\ mpc[m] = "get"
        /\ Proceed(m, "active")
        /\ mrecord' = [mrecord EXCEPT ![m] = IF HasDevice(id) THEN devices[id] ELSE Nil]

GetDevice(m) ==
    LET id == CertIdentity(mcert[m])
    IN  /\ mpc[m] = "get"
        /\ IF HasDevice(id)
           THEN /\ Proceed(m, "active")
                /\ mrecord' = [mrecord EXCEPT ![m] = devices[id]]
           ELSE Answer(m)

CheckActive(m) ==
    /\ mpc[m] = "active"
    /\ IF IsDeviceActive(CertIdentity(mcert[m]))
       THEN Proceed(m, "serial") /\ UNCHANGED mrecord
       ELSE Answer(m)

CheckSerialIgnoreCurrent(m) ==  \* mutant: any unrevoked serial will do
    /\ mpc[m] = "serial"
    /\ IF ~IsSerialRevoked(mcert[m].SerialNumber)
       THEN Proceed(m, "authenticated") /\ UNCHANGED mrecord
       ELSE Answer(m)

\* The comparison at line 94 uses the copy read at line 78.
CheckSerial(m) ==
    /\ mpc[m] = "serial"
    /\ IF /\ ~IsSerialRevoked(mcert[m].SerialNumber)
          /\ mrecord[m].CertSerial = mcert[m].SerialNumber
       THEN Proceed(m, "authenticated") /\ UNCHANGED mrecord
       ELSE Answer(m)

\* ProtectedPingHandler: 200 with the identity in the context for GET, 405
\* otherwise.
ServePing(m) == mpc[m] = "authenticated" /\ Answer(m)

-----------------------------------------------------------------------------

MtlsStep(m) ==
    \/ GetDevice(m)
    \/ CheckActive(m)
    \/ CheckSerial(m)
    \/ ServePing(m)

MtlsRestart ==
    /\ mpc' = [m \in MtlsRequests |-> "idle"]
    /\ mcert' = [m \in MtlsRequests |-> Nil]
    /\ mrecord' = [m \in MtlsRequests |-> Nil]

\* How the history variable follows every step of the system.
Observe ==
    mok' = [m \in MtlsRequests |->
              /\ mpc'[m] # "idle"
              /\ \/ mok[m]
                 \/ Authorized(mcert[m])']
=============================================================================
