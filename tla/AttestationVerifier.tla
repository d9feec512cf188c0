------------------------ MODULE AttestationVerifier ------------------------
(***************************************************************************)
(* backend/internal/attestation/verifier.go: the verdict on an Android Key *)
(* Attestation chain, as a function of the policy and the chain.           *)
(*                                                                         *)
(* A chain is a record of what the code can tell about it:                 *)
(*   length    number of certificates                                      *)
(*   decodes   every entry is base64                                       *)
(*   parses    "all" certificates parse, only the "leaf" does, or "none"   *)
(*   trusted   it verifies up to the root pool                             *)
(*   leafKey   the public key of the leaf                                  *)
(*   kd        the leaf's attestation extension: Nil, Malformed or a       *)
(*             KeyDescription                                              *)
(* A KeyDescription holds the challenge (Nil when it is the empty          *)
(* string), the two security levels and the two authorization lists.  A    *)
(* list is Malformed, or gives for each tag Nil, Malformed or a value.     *)
(* The ASN.1 and X.509 encodings are abstracted to those three outcomes.   *)
(***************************************************************************)
EXTENDS Integers, GoMap

CONSTANT Malformed  \* a value that does not parse

maxChainCertificates == 16

HardwareLevels == {"TrustedEnvironment", "StrongBox"}

DefaultStrictPolicy ==
    [RequireHardwareBacked |-> TRUE, RequireDeviceLocked |-> TRUE,
     RequireVerifiedBoot |-> TRUE, SkipChainValidation |-> FALSE,
     AllowEmptyAttestation |-> FALSE, CheckRevocationList |-> TRUE,
     ExpectedPackageName |-> "", MinOsVersion |-> 0, MinPatchLevel |-> 0]

DevelopmentPolicy ==
    [RequireHardwareBacked |-> FALSE, RequireDeviceLocked |-> FALSE,
     RequireVerifiedBoot |-> FALSE, SkipChainValidation |-> TRUE,
     AllowEmptyAttestation |-> TRUE, CheckRevocationList |-> FALSE,
     ExpectedPackageName |-> "", MinOsVersion |-> 0, MinPatchLevel |-> 0]

\* The policy main() builds: one of the two above, four fields of which are
\* then overwritten from the configuration.
ServerPolicy(devMode, package, minOs, minPatch, checkRevocation) ==
    [(IF devMode THEN DevelopmentPolicy ELSE DefaultStrictPolicy) EXCEPT
        !.ExpectedPackageName = package, !.MinOsVersion = minOs,
        !.MinPatchLevel = minPatch, !.CheckRevocationList = checkRevocation]

-----------------------------------------------------------------------------
(* Authorization lists                                                     *)

findTagged(list, tag) == IF list = Malformed THEN Malformed ELSE list[tag]

findRootOfTrust(list) == findTagged(list, "RootOfTrust")

\* An absent integer tag reads as 0.
findIntTag(list, tag) ==
    LET raw == findTagged(list, tag) IN IF raw = Nil THEN 0 ELSE raw

\* Steps 7 and 10: the root of trust comes from the TEE-enforced list; the
\* software-enforced one is a fallback only when hardware is not required.
RootOfTrustTrustsSoftware(policy, kd) ==  \* mutant: the fallback is unconditional
    LET tee == findRootOfTrust(kd.TeeEnforced)
    IN  IF tee = Nil THEN findRootOfTrust(kd.SoftwareEnforced) ELSE tee

RootOfTrust(policy, kd) ==
    LET tee == findRootOfTrust(kd.TeeEnforced)
    IN  IF tee = Nil /\ ~policy.RequireHardwareBacked
        THEN findRootOfTrust(kd.SoftwareEnforced)
        ELSE tee

RootOfTrustOK(policy, kd) ==
    LET rot == RootOfTrust(policy, kd)
    IN  /\ rot # Malformed
        /\ IF rot = Nil
           THEN ~policy.RequireVerifiedBoot /\ ~policy.RequireDeviceLocked
           ELSE /\ policy.RequireDeviceLocked => rot.DeviceLocked
                /\ policy.RequireVerifiedBoot => rot.VerifiedBootState = "Verified"

\* Step 8: tag 709 of the TEE-enforced list, else of the software-enforced
\* one (where Android puts it), must list the expected package.
verifyApplicationID(kd, package) ==
    LET tee == findTagged(kd.TeeEnforced, "ApplicationId")
        appID == IF tee = Nil
                 THEN findTagged(kd.SoftwareEnforced, "ApplicationId")
                 ELSE tee
    IN  appID \notin {Nil, Malformed} /\ package \in appID

OSInfoFallsBackWhenStrict(policy, kd, tag) ==  \* mutant: the test of line 337 turned round
    LET tee == findIntTag(kd.TeeEnforced, tag)
        software == findIntTag(kd.SoftwareEnforced, tag)
    IN  IF tee = 0 /\ policy.RequireHardwareBacked /\ software # Malformed
        THEN software
        ELSE tee

\* Step 9: an integer tag, with the software fallback of lenient policies,
\* whose own parse error is ignored.
OSInfo(policy, kd, tag) ==
    LET tee == findIntTag(kd.TeeEnforced, tag)
        software == findIntTag(kd.SoftwareEnforced, tag)
    IN  IF tee = 0 /\ ~policy.RequireHardwareBacked /\ software # Malformed
        THEN software
        ELSE tee

OSInfoAtLeast(policy, kd, tag, minimum) ==
    LET value == OSInfo(policy, kd, tag)
    IN  value # Malformed /\ (minimum > 0 => value # 0 /\ value >= minimum)

extractOSInfo(policy, kd) ==
    /\ OSInfoAtLeast(policy, kd, "OSVersion", policy.MinOsVersion)
    /\ OSInfoAtLeast(policy, kd, "OSPatch", policy.MinPatchLevel)

-----------------------------------------------------------------------------
(* The verdict                                                             *)

\* The nonce in the leaf's extension; Malformed stands for the error.
ExtractChallenge(chain) ==
    IF chain.parses = "none" \/ chain.kd \in {Nil, Malformed}
    THEN Malformed
    ELSE chain.kd.AttestationChallenge

\* Steps 4 to 10, on the leaf's KeyDescription.
KeyDescriptionOK(policy, kd, expectedChallenge) ==
    /\ kd # Malformed
    /\ kd.AttestationChallenge = expectedChallenge
    /\ policy.RequireHardwareBacked =>
         /\ kd.AttestationSecurityLevel \in HardwareLevels
         /\ kd.KeymasterSecurityLevel \in HardwareLevels
    /\ policy.ExpectedPackageName # "" =>
         verifyApplicationID(kd, policy.ExpectedPackageName)
    /\ extractOSInfo(policy, kd)
    /\ RootOfTrustOK(policy, kd)

\* Whether VerifyAttestation returns a record.  revocation is the outcome of
\* asking the revocation list about every key of the chain: "clear",
\* "revoked" or "error" (RevocationStatusClient).  A nil csrKey is not
\* compared; the handler always passes one.
VerifyAttestation(policy, chain, expectedChallenge, csrKey, revocation) ==
    IF chain.length = 0
    THEN policy.AllowEmptyAttestation
    ELSE /\ chain.length < 2 => policy.AllowEmptyAttestation
         /\ chain.length <= maxChainCertificates
         /\ chain.parses = "all"
         /\ policy.CheckRevocationList => revocation = "clear"
         /\ ~policy.SkipChainValidation => chain.trusted
         /\ csrKey # Nil => chain.leafKey = csrKey
         /\ IF chain.kd = Nil
            THEN policy.AllowEmptyAttestation
            ELSE KeyDescriptionOK(policy, chain.kd, expectedChallenge)
=============================================================================
