------------------------ MODULE ConfiguredVerifier ------------------------
(***************************************************************************)
(* A server started in some environment judges one attestation chain: the  *)
(* verdict of AttestationVerifier under the policy that Config makes of    *)
(* the environment, and what must be true of it.                           *)
(***************************************************************************)
EXTENDS Config

CONSTANTS
    Environments,       \* the environments a server may be started in
    Presented,          \* [chain, revocation]: chains with what the status
                        \* list says of their keys
    expectedChallenge,  \* the nonce the client was given
    csrKey              \* the public key of its certificate request

Unreadable == {Nil, Malformed}

EnvironmentOK(e) ==
    /\ e.DEV_MODE \in BOOLEAN \cup Unreadable
    /\ e.REQUIRE_REVOCATION_CHECK \in BOOLEAN \cup Unreadable
    /\ e.EXPECTED_APP_PACKAGE # ""
    /\ e.MIN_OS_VERSION \in Int \cup Unreadable
    /\ e.MIN_PATCH_LEVEL \in Int \cup Unreadable

\* types.go:70-88, without what no decision reads.
RootOfTrusts == [DeviceLocked : BOOLEAN, VerifiedBootState : STRING]

AuthorizationLists ==
    [RootOfTrust : RootOfTrusts \cup Unreadable,
     ApplicationId : (SUBSET STRING) \cup Unreadable,
     OSVersion : Int \cup Unreadable,
     OSPatch : Int \cup Unreadable]

KeyDescriptions ==
    [AttestationChallenge : STRING \cup {Nil},
     AttestationSecurityLevel : STRING,
     KeymasterSecurityLevel : STRING,
     TeeEnforced : AuthorizationLists \cup {Malformed},
     SoftwareEnforced : AuthorizationLists \cup {Malformed}]

Chains ==
    [length : Nat, decodes : BOOLEAN, parses : {"all", "leaf", "none"},
     trusted : BOOLEAN, leafKey : STRING, kd : KeyDescriptions \cup Unreadable]

\* A value is told from one that is absent or does not parse.
ASSUME UnreadableAssumption ==
    /\ Nil # Malformed
    /\ \A v \in Unreadable :
         /\ v \notin Int /\ v \notin BOOLEAN /\ v \notin RootOfTrusts
         /\ v \notin AuthorizationLists /\ v \notin KeyDescriptions
         /\ v \notin Chains

ASSUME VerifierAssumption ==
    /\ DefaultAppPackage # ""
    /\ \A e \in Environments : EnvironmentOK(e)
    /\ \A p \in Presented : p.chain \in Chains

VARIABLES
    env,         \* the environment the server was started in
    chain,       \* the chain it verified, Nil before
    revocation,  \* what the revocation list said of it
    ok           \* the verdict

vars == <<env, chain, revocation, ok>>

Policies == {ConfiguredPolicy(e) : e \in Environments}

policy == ConfiguredPolicy(env)

Accepts(p, c) == VerifyAttestation(p, c, expectedChallenge, csrKey, revocation)

Init == env \in Environments /\ chain = Nil /\ revocation = Nil /\ ok = FALSE

Verify(c, r) ==
    /\ chain' = c
    /\ revocation' = r
    /\ ok' = VerifyAttestation(policy, c, expectedChallenge, csrKey, r)
    /\ UNCHANGED env

Next == chain = Nil /\ \E p \in Presented : Verify(p.chain, p.revocation)

Spec == Init /\ [][Next]_vars

-----------------------------------------------------------------------------

HasKeyDescription == chain # Nil /\ chain.kd \notin {Nil, Malformed}

\* verifier.go:217-219.  When hardware backing is required, nothing the
\* software-enforced list says sways the verdict, save the application ID
\* that Android puts there: with every other tag of it dropped the verdict
\* is the same.
SoftwareListCannotSway ==
    HasKeyDescription /\ policy.RequireHardwareBacked =>
        LET software == chain.kd.SoftwareEnforced
            bare == [RootOfTrust |-> Nil, OSVersion |-> Nil, OSPatch |-> Nil,
                     ApplicationId |-> findTagged(software, "ApplicationId")]
        IN  ok = Accepts(policy, [chain EXCEPT !.kd.SoftwareEnforced = bare])

\* p demands whatever q demands.
AtLeastAsStrict(p, q) ==
    /\ q.RequireHardwareBacked => p.RequireHardwareBacked
    /\ q.RequireDeviceLocked => p.RequireDeviceLocked
    /\ q.RequireVerifiedBoot => p.RequireVerifiedBoot
    /\ p.SkipChainValidation => q.SkipChainValidation
    /\ p.AllowEmptyAttestation => q.AllowEmptyAttestation
    /\ q.CheckRevocationList => p.CheckRevocationList
    /\ q.ExpectedPackageName \in {"", p.ExpectedPackageName}
    /\ q.MinOsVersion <= p.MinOsVersion
    /\ q.MinPatchLevel <= p.MinPatchLevel

\* Tightening a server's configuration never lets a chain in: what a strict
\* server accepts, every more lenient server accepts, although the two read
\* different lists and the lenient one parses more of the input.
StricterAcceptsLess ==
    ok => \A q \in Policies : AtLeastAsStrict(policy, q) => Accepts(q, chain)

\* What a floor demands.  One that is unset, does not parse or is not positive
\* demands nothing.
FloorMet(minimum, value) ==
    minimum \notin Unreadable /\ minimum > 0 =>
        value \notin Unreadable /\ value >= minimum

\* config.go:46, 62-66, 79-106, main.go:55-64.  Without a DEV_MODE that parses
\* as true, however the rest is misspelt, an accepted key is in secure
\* hardware, with the TEE's word for a locked device that booted verified code,
\* under a trusted root, and for the configured app or the default one.  It is
\* not revoked unless the check was switched off by name.  The TEE's OS version
\* and patch level meet the floors, but only the floors that parse: a misspelt
\* MIN_OS_VERSION or MIN_PATCH_LEVEL is silently none.
BarWithoutDevMode ==
    ok /\ env.DEV_MODE # TRUE =>
        /\ chain.trusted /\ chain.length > 1 /\ HasKeyDescription
        /\ {chain.kd.AttestationSecurityLevel, chain.kd.KeymasterSecurityLevel}
              \subseteq HardwareLevels
        /\ chain.kd.TeeEnforced.RootOfTrust =
              [DeviceLocked |-> TRUE, VerifiedBootState |-> "Verified"]
        /\ \E list \in {chain.kd.TeeEnforced, chain.kd.SoftwareEnforced} :
             /\ findTagged(list, "ApplicationId") \notin {Nil, Malformed}
             /\ (IF env.EXPECTED_APP_PACKAGE = Nil
                 THEN DefaultAppPackage ELSE env.EXPECTED_APP_PACKAGE)
                  \in list.ApplicationId
        /\ env.REQUIRE_REVOCATION_CHECK # FALSE => revocation = "clear"
        /\ FloorMet(env.MIN_OS_VERSION, chain.kd.TeeEnforced.OSVersion)
        /\ FloorMet(env.MIN_PATCH_LEVEL, chain.kd.TeeEnforced.OSPatch)
=============================================================================
