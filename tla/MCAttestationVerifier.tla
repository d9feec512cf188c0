----------------------- MODULE MCAttestationVerifier -----------------------
(***************************************************************************)
(* ConfiguredVerifier for TLC: every combination of small authorization    *)
(* lists, security levels and chain shapes, in servers started from every  *)
(* kind of environment.                                                    *)
(***************************************************************************)
EXTENDS ConfiguredVerifier

AllEnvironments ==
    [DEV_MODE : {Nil, Malformed, TRUE}, REQUIRE_REVOCATION_CHECK : {Malformed, FALSE},
     EXPECTED_APP_PACKAGE : {Nil, "other"},
     MIN_OS_VERSION : {Nil, Malformed, 2}, MIN_PATCH_LEVEL : {Malformed, 2}]

Root(locked, boot) == [DeviceLocked |-> locked, VerifiedBootState |-> boot]

TeeLists ==
    {Malformed} \cup
    [RootOfTrust : {Nil, Malformed, Root(TRUE, "Verified"),
                    Root(FALSE, "Verified"), Root(TRUE, "SelfSigned")},
     ApplicationId : {Nil, {"app"}, {"other"}},
     OSVersion : {Nil, Malformed, 1, 2},
     OSPatch : {Nil, 2}]

SoftwareLists ==
    {Malformed} \cup
    [RootOfTrust : {Nil, Malformed, Root(TRUE, "Verified")},
     ApplicationId : {Nil, Malformed, {"app"}},
     OSVersion : {Nil, Malformed, 2},
     OSPatch : {Nil, 2}]

SmallKeyDescriptions ==
    [AttestationChallenge : {"nonce"},
     AttestationSecurityLevel : {"Software", "StrongBox"},
     KeymasterSecurityLevel : {"TrustedEnvironment"},
     TeeEnforced : TeeLists, SoftwareEnforced : SoftwareLists]

\* Chains of every shape, with the best key description or none, and
\* well-formed chains with every key description.
Shapes ==
    LET shape(length, parses, trusted, leafKey, kd) ==
            [length |-> length, decodes |-> TRUE, parses |-> parses,
             trusted |-> trusted, leafKey |-> leafKey, kd |-> kd]
        best == CHOOSE kd \in SmallKeyDescriptions :
                   /\ kd.AttestationSecurityLevel = "StrongBox"
                   /\ kd.TeeEnforced # Malformed
                   /\ kd.TeeEnforced.RootOfTrust = Root(TRUE, "Verified")
    IN  {shape(length, parses, trusted, leafKey, kd) :
            length \in {0, 1, 2, 16, 17}, parses \in {"all", "leaf", "none"},
            trusted \in BOOLEAN, leafKey \in {"key", "other"},
            kd \in {best, Nil, Malformed}}

GoodShapes ==
    [length : {3}, decodes : {TRUE}, parses : {"all"}, trusted : {TRUE},
     leafKey : {"key"}, kd : SmallKeyDescriptions]

AllPresented ==
    [chain : GoodShapes, revocation : {"clear"}] \cup
    [chain : Shapes, revocation : {"clear", "revoked", "error"}]
=============================================================================
