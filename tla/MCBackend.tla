----------------------------- MODULE MCBackend -----------------------------
(***************************************************************************)
(* The backend for TLC: attestation chains and request bodies built from   *)
(* the keys and nonces of the instance.                                    *)
(***************************************************************************)
EXTENDS Backend, TLC

AppTags == [RootOfTrust |-> Nil, ApplicationId |-> {"app"},
            OSVersion |-> Nil, OSPatch |-> Nil]

LockedAndVerified ==
    [AppTags EXCEPT !.RootOfTrust =
        [DeviceLocked |-> TRUE, VerifiedBootState |-> "Verified"]]

KeyDescription(challenge, level, tee) ==
    [AttestationChallenge |-> challenge,
     AttestationSecurityLevel |-> level, KeymasterSecurityLevel |-> level,
     TeeEnforced |-> tee, SoftwareEnforced |-> AppTags]

Chain(key, kd) ==
    [length |-> 3, decodes |-> TRUE, parses |-> "all", trusted |-> TRUE,
     leafKey |-> key, kd |-> kd]

HardwareChain(key, challenge) ==
    Chain(key, KeyDescription(challenge, "TrustedEnvironment", LockedAndVerified))

Body(key, chain) ==
    [wellFormed |-> TRUE, signatureValid |-> TRUE, key |-> key, chain |-> chain]

\* What a genuine device sends, for every key and nonce.
GenuineBodies == {Body(k, HardwareChain(k, n)) : k \in Keys, n \in Nonces}

\* Bodies that differ from a genuine one in one respect.
FaultyBodies ==
    UNION {LET good == Body(k, HardwareChain(k, n))
           IN {[good EXCEPT !.wellFormed = FALSE],
               [good EXCEPT !.signatureValid = FALSE],
               [good EXCEPT !.chain.length = 1],
               [good EXCEPT !.chain.trusted = FALSE],
               [good EXCEPT !.chain.kd = Nil]}
           : k \in Keys, n \in Nonces}

StrictBodies == GenuineBodies \cup FaultyBodies

\* What an emulator sends: no chain, a chain without the extension, or a
\* software attestation with or without a challenge.
EmulatorBodies ==
    {Body(k, [HardwareChain(k, Nil) EXCEPT !.length = 0]) : k \in Keys}
    \cup {Body(k, Chain(k, Nil)) : k \in Keys}
    \cup {Body(k, Chain(k, KeyDescription(n, "Software", AppTags))) :
             k \in Keys, n \in Nonces \cup {Nil}}

StrictPolicy == ServerPolicy(FALSE, "app", 0, 0, TRUE)
DevPolicy == ServerPolicy(TRUE, "app", 0, 0, FALSE)

\* Certificates of the CA that no enrolment issued: any key, any serial, the
\* identity in the SAN only.
ForeignCerts ==
    LET cert(cn, uri, key, serial) ==
            [CommonName |-> cn, URI |-> uri, PublicKey |-> key,
             SerialNumber |-> serial, challenge |-> Nil]
    IN  {cert(NoName, PublicKeyFingerprint(k), k, s) : k \in Keys, s \in Serials}

Symmetry == Permutations(Nonces) \cup Permutations(Serials)
            \cup Permutations(EnrollRequests) \cup Permutations(Keys)
=============================================================================
