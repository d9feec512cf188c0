---------------------------- MODULE MCPatchLevel ----------------------------
(***************************************************************************)
(* The patch-level floor with the numbers of the repository's own tests:   *)
(* the extension captured from a physical device                           *)
(* (attestation/verifier_test.go:526) carries OSVersion 170000 and, under  *)
(* tag 706, OSPatch 202607, which is YYYYMM; floors are configured as      *)
(* YYYYMMDD (config_test.go:55).                                           *)
(***************************************************************************)
EXTENDS AttestationVerifier

VARIABLES
    floor,  \* MIN_PATCH_LEVEL as documented: YYYYMMDD
    patch,  \* the device's patch month
    ok      \* the verdict

vars == <<floor, patch, ok>>

Years == 2023..2027
Months == 1..12

\* MIN_PATCH_LEVEL for the first of a month, and what a device attests.
Documented(year, month) == year * 10000 + month * 100 + 1
Attested(year, month) == year * 100 + month

Device(osPatch) ==
    LET list(rot, appId, os, osPatchTag) ==
            [RootOfTrust |-> rot, ApplicationId |-> appId,
             OSVersion |-> os, OSPatch |-> osPatchTag]
    IN  [length |-> 3, decodes |-> TRUE, parses |-> "all", trusted |-> TRUE,
         leafKey |-> "key",
         kd |-> [AttestationChallenge |-> "nonce",
                 AttestationSecurityLevel |-> "TrustedEnvironment",
                 KeymasterSecurityLevel |-> "TrustedEnvironment",
                 TeeEnforced |->
                    list([DeviceLocked |-> TRUE, VerifiedBootState |-> "Verified"],
                         Nil, 170000, osPatch),
                 SoftwareEnforced |-> list(Nil, {"com.kypeli.mtlspoc"}, Nil, Nil)]]

Init ==
    /\ floor = <<2024, 1>>
    /\ patch \in Years \X Months
    /\ ok = TRUE

Verify(year, month) ==
    /\ floor' = <<year, month>>
    /\ ok' = VerifyAttestation(
                ServerPolicy(FALSE, "com.kypeli.mtlspoc", 140000,
                             Documented(year, month), FALSE),
                Device(Attested(patch[1], patch[2])), "nonce", "key", "clear")
    /\ UNCHANGED patch

Next == \E year \in Years, month \in Months : Verify(year, month)

Spec == Init /\ [][Next]_vars

\* types.go:117-118, config.go:29-30.  A device is accepted when its patch
\* level is at least the configured YYYYMMDD minimum.
PatchedDeviceAccepted ==
    floor[1] * 12 + floor[2] <= patch[1] * 12 + patch[2] => ok
=============================================================================
