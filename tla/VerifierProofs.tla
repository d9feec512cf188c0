--------------------------- MODULE VerifierProofs ---------------------------
(***************************************************************************)
(* Theorems about ConfiguredVerifier, for any environments, any chains and *)
(* any authorization lists.                                                *)
(***************************************************************************)
EXTENDS ConfiguredVerifier, TLAPS

\* A server is strict or it is in development mode, as a whole.
LEMMA PolicyOf ==
  ASSUME NEW e \in Environments
  PROVE  LET p == ConfiguredPolicy(e)
         IN  /\ p.RequireHardwareBacked \in BOOLEAN
             /\ p.RequireDeviceLocked = p.RequireHardwareBacked
             /\ p.RequireVerifiedBoot = p.RequireHardwareBacked
             /\ p.SkipChainValidation = ~p.RequireHardwareBacked
             /\ p.AllowEmptyAttestation = ~p.RequireHardwareBacked
             /\ p.CheckRevocationList \in BOOLEAN
             /\ p.MinOsVersion \in Int /\ p.MinPatchLevel \in Int
             /\ p.ExpectedPackageName # ""
             /\ p.ExpectedPackageName = IF e.EXPECTED_APP_PACKAGE = Nil
                                        THEN DefaultAppPackage
                                        ELSE e.EXPECTED_APP_PACKAGE
             /\ p.MinOsVersion = getEnvInt(e.MIN_OS_VERSION, 0)
             /\ p.MinPatchLevel = getEnvInt(e.MIN_PATCH_LEVEL, 0)
             /\ e.DEV_MODE # TRUE => p.RequireHardwareBacked
             /\ e.DEV_MODE # TRUE /\ e.REQUIRE_REVOCATION_CHECK # FALSE =>
                  p.CheckRevocationList
<1>1. EnvironmentOK(e) /\ DefaultAppPackage # ""
  BY VerifierAssumption
<1>2. getEnvBool(e.DEV_MODE, FALSE) \in BOOLEAN
  BY <1>1 DEF EnvironmentOK, getEnvBool, Unreadable
<1> DEFINE strict == ~getEnvBool(e.DEV_MODE, FALSE)
           p == ConfiguredPolicy(e)
<1>3. /\ p.RequireHardwareBacked = strict
      /\ p.RequireDeviceLocked = strict
      /\ p.RequireVerifiedBoot = strict
      /\ p.SkipChainValidation = ~strict
      /\ p.AllowEmptyAttestation = ~strict
      /\ p.CheckRevocationList = getEnvBool(e.REQUIRE_REVOCATION_CHECK, strict)
      /\ p.MinOsVersion = getEnvInt(e.MIN_OS_VERSION, 0)
      /\ p.MinPatchLevel = getEnvInt(e.MIN_PATCH_LEVEL, 0)
      /\ p.ExpectedPackageName = getEnv(e.EXPECTED_APP_PACKAGE, DefaultAppPackage)
  BY <1>2 DEF ConfiguredPolicy, LoadConfig, ServerPolicy, DevelopmentPolicy,
              DefaultStrictPolicy
<1>4. /\ getEnvInt(e.MIN_OS_VERSION, 0) \in Int
      /\ getEnvInt(e.MIN_PATCH_LEVEL, 0) \in Int
  <2>1. ASSUME NEW v \in Int \cup Unreadable PROVE getEnvInt(v, 0) \in Int
    BY <2>1 DEF getEnvInt, Unreadable
  <2>2. e.MIN_OS_VERSION \in Int \cup Unreadable /\ e.MIN_PATCH_LEVEL \in Int \cup Unreadable
    BY <1>1 DEF EnvironmentOK
  <2> QED BY <2>1, <2>2
<1>5. /\ getEnv(e.EXPECTED_APP_PACKAGE, DefaultAppPackage) # ""
      /\ getEnv(e.EXPECTED_APP_PACKAGE, DefaultAppPackage) =
           IF e.EXPECTED_APP_PACKAGE = Nil THEN DefaultAppPackage ELSE e.EXPECTED_APP_PACKAGE
  BY <1>1 DEF EnvironmentOK, getEnv
<1>6. e.DEV_MODE # TRUE => strict = TRUE
  BY <1>1 DEF EnvironmentOK, getEnvBool, Unreadable
<1>7. /\ getEnvBool(e.REQUIRE_REVOCATION_CHECK, strict) \in BOOLEAN
      /\ strict = TRUE /\ e.REQUIRE_REVOCATION_CHECK # FALSE =>
           getEnvBool(e.REQUIRE_REVOCATION_CHECK, strict) = TRUE
  BY <1>1, <1>2 DEF EnvironmentOK, getEnvBool, Unreadable
<1> HIDE DEF strict, p
<1>8. strict \in BOOLEAN
  BY <1>2 DEF strict
<1> QED BY <1>3, <1>4, <1>5, <1>6, <1>7, <1>8 DEF p

-----------------------------------------------------------------------------

\* The verdict on record is the verdict of the policy on the chain.
VInv ==
    /\ env \in Environments
    /\ chain \in Chains \cup {Nil}
    /\ ok \in BOOLEAN
    /\ chain = Nil => ok = FALSE
    /\ chain # Nil => ok = Accepts(policy, chain)

\* A policy of a server decides yes or no.
LEMMA VerdictIsBoolean ==
  ASSUME NEW e \in Environments, NEW c, NEW r
  PROVE  VerifyAttestation(ConfiguredPolicy(e), c, expectedChallenge, csrKey, r) \in BOOLEAN
BY PolicyOf DEF VerifyAttestation

\* A server judges with its own policy, once.
LEMMA VInvAlways == Spec => []VInv
<1>1. Init => VInv
  BY DEF Init, VInv
<1>2. ASSUME VInv, [Next]_vars PROVE VInv'
  <2>1. CASE Next
    <3>1. PICK p \in Presented : Verify(p.chain, p.revocation)
      BY <2>1 DEF Next
    <3>2. p.chain \in Chains /\ p.chain # Nil
      BY VerifierAssumption, UnreadableAssumption DEF Unreadable
    <3>3. /\ env' = env /\ chain' = p.chain /\ revocation' = p.revocation
          /\ ok' = VerifyAttestation(ConfiguredPolicy(env), p.chain, expectedChallenge,
                                     csrKey, p.revocation)
      BY <3>1 DEF Verify, policy
    <3>4. ok' \in BOOLEAN
      <4>1. env \in Environments
        BY <1>2 DEF VInv
      <4>2. VerifyAttestation(ConfiguredPolicy(env), p.chain, expectedChallenge, csrKey,
                              p.revocation) \in BOOLEAN
        BY <4>1, VerdictIsBoolean
      <4> QED BY <3>3, <4>2
    <3>5. ok' = Accepts(policy, chain)'
      BY <3>3 DEF Accepts, policy
    <3> QED BY <1>2, <3>2, <3>3, <3>4, <3>5 DEF VInv
  <2>2. CASE UNCHANGED vars
    BY <1>2, <2>2 DEF VInv, vars, Accepts, policy
  <2> QED BY <1>2, <2>1, <2>2
<1> QED BY <1>1, <1>2, PTL DEF Spec
-----------------------------------------------------------------------------
(* The software-enforced list                                              *)

\* The list with every tag but the application ID dropped.
Bare(list) ==
    [RootOfTrust |-> Nil, OSVersion |-> Nil, OSPatch |-> Nil,
     ApplicationId |-> findTagged(list, "ApplicationId")]

\* What is left of a list is a list.
LEMMA BareIsList ==
  ASSUME NEW list \in AuthorizationLists \cup {Malformed}
  PROVE  /\ Bare(list) \in AuthorizationLists
         /\ findTagged(Bare(list), "ApplicationId") = findTagged(list, "ApplicationId")
<1>1. findTagged(list, "ApplicationId") \in (SUBSET STRING) \cup Unreadable
  BY DEF findTagged, AuthorizationLists, Unreadable
<1>2. Bare(list) \in AuthorizationLists
  BY <1>1 DEF Bare, AuthorizationLists, Unreadable
<1>3. Bare(list) # Malformed
  BY <1>2, UnreadableAssumption DEF Unreadable
<1>4. findTagged(Bare(list), "ApplicationId") = Bare(list)["ApplicationId"]
  BY <1>3 DEF findTagged
<1>5. Bare(list)["ApplicationId"] = findTagged(list, "ApplicationId")
  BY DEF Bare
<1> QED BY <1>2, <1>4, <1>5

\* With hardware required the key description is judged by its TEE-enforced
\* list and the software-enforced application ID.
LEMMA BareIsJudgedAlike ==
  ASSUME NEW p, p.RequireHardwareBacked = TRUE, NEW kd \in KeyDescriptions
  PROVE  LET bare == [kd EXCEPT !.SoftwareEnforced = Bare(kd.SoftwareEnforced)]
         IN  KeyDescriptionOK(p, kd, expectedChallenge)
               <=> KeyDescriptionOK(p, bare, expectedChallenge)
<1> DEFINE bare == [kd EXCEPT !.SoftwareEnforced = Bare(kd.SoftwareEnforced)]
<1>1. kd.SoftwareEnforced \in AuthorizationLists \cup {Malformed}
  BY DEF KeyDescriptions
<1>2. /\ bare.AttestationChallenge = kd.AttestationChallenge
      /\ bare.AttestationSecurityLevel = kd.AttestationSecurityLevel
      /\ bare.KeymasterSecurityLevel = kd.KeymasterSecurityLevel
      /\ bare.TeeEnforced = kd.TeeEnforced
      /\ bare.SoftwareEnforced = Bare(kd.SoftwareEnforced)
  BY DEF KeyDescriptions
<1>3. bare \in KeyDescriptions
  BY <1>1, BareIsList DEF KeyDescriptions
<1>4. kd # Malformed /\ bare # Malformed
  BY <1>3, UnreadableAssumption DEF Unreadable
<1> HIDE DEF bare
<1>5. findTagged(bare.SoftwareEnforced, "ApplicationId")
        = findTagged(kd.SoftwareEnforced, "ApplicationId")
  BY <1>1, <1>2, BareIsList
<1>6. verifyApplicationID(bare, p.ExpectedPackageName)
        <=> verifyApplicationID(kd, p.ExpectedPackageName)
  BY <1>2, <1>5 DEF verifyApplicationID
<1>7. extractOSInfo(p, bare) <=> extractOSInfo(p, kd)
  BY <1>2 DEF extractOSInfo, OSInfoAtLeast, OSInfo
<1>8. RootOfTrustOK(p, bare) <=> RootOfTrustOK(p, kd)
  BY <1>2 DEF RootOfTrustOK, RootOfTrust
<1> QED BY <1>2, <1>4, <1>6, <1>7, <1>8 DEF KeyDescriptionOK, bare

\* verifier.go:217-219.  For every chain and every environment, a server that
\* requires hardware is not swayed by the software-enforced list.
THEOREM SoftwareListIgnored == Spec => []SoftwareListCannotSway
<1>1. VInv => SoftwareListCannotSway
  <2> SUFFICES ASSUME VInv, HasKeyDescription, policy.RequireHardwareBacked
               PROVE  ok = Accepts(policy, [chain EXCEPT !.kd.SoftwareEnforced =
                                              Bare(chain.kd.SoftwareEnforced)])
    BY DEF SoftwareListCannotSway, Bare
  <2> DEFINE kd == [chain.kd EXCEPT !.SoftwareEnforced = Bare(chain.kd.SoftwareEnforced)]
             c == [chain EXCEPT !.kd.SoftwareEnforced = Bare(chain.kd.SoftwareEnforced)]
  <2>1. env \in Environments /\ chain \in Chains /\ ok = Accepts(policy, chain)
    BY DEF VInv, HasKeyDescription
  <2>2. chain.kd \in KeyDescriptions
    BY <2>1 DEF Chains, HasKeyDescription, Unreadable
  <2>3. policy.RequireHardwareBacked = TRUE
    BY <2>1, PolicyOf DEF policy
  <2>4. /\ c.length = chain.length /\ c.parses = chain.parses /\ c.trusted = chain.trusted
        /\ c.leafKey = chain.leafKey /\ c.kd = kd
    BY <2>1 DEF Chains
  <2>5. chain.kd # Nil /\ kd # Nil
    <3>1. Bare(chain.kd.SoftwareEnforced) \in AuthorizationLists \cup {Malformed}
      BY <2>2, BareIsList DEF KeyDescriptions
    <3>2. kd \in KeyDescriptions
      BY <2>2, <3>1 DEF KeyDescriptions
    <3> QED BY <2>2, <3>2, UnreadableAssumption DEF Unreadable
  <2>6. KeyDescriptionOK(policy, chain.kd, expectedChallenge)
          <=> KeyDescriptionOK(policy, kd, expectedChallenge)
    BY <2>2, <2>3, BareIsJudgedAlike
  <2> HIDE DEF kd, c
  <2>7. Accepts(policy, c) <=> Accepts(policy, chain)
    BY <2>4, <2>5, <2>6 DEF Accepts, VerifyAttestation
  <2>8. Accepts(policy, c) \in BOOLEAN /\ Accepts(policy, chain) \in BOOLEAN
    BY <2>1, VerdictIsBoolean DEF Accepts, policy
  <2> QED BY <2>1, <2>7, <2>8 DEF c
<1> QED BY <1>1, VInvAlways, PTL

-----------------------------------------------------------------------------
(* Stricter servers                                                        *)

\* What the tags of a list can be.
LEMMA TagTypes ==
  ASSUME NEW list \in AuthorizationLists \cup {Malformed}
  PROVE  /\ findIntTag(list, "OSVersion") \in Int \cup {Malformed}
         /\ findIntTag(list, "OSPatch") \in Int \cup {Malformed}
         /\ findRootOfTrust(list) \in RootOfTrusts \cup Unreadable
<1>1. /\ findTagged(list, "OSVersion") \in Int \cup Unreadable
      /\ findTagged(list, "OSPatch") \in Int \cup Unreadable
      /\ findTagged(list, "RootOfTrust") \in RootOfTrusts \cup Unreadable
  BY DEF findTagged, AuthorizationLists, Unreadable
<1>2. ASSUME NEW tag, findTagged(list, tag) \in Int \cup Unreadable
      PROVE  findIntTag(list, tag) \in Int \cup {Malformed}
  BY <1>2 DEF findIntTag, Unreadable
<1> QED BY <1>1, <1>2 DEF findRootOfTrust

\* A lenient server may read the software-enforced list where a strict one
\* reads nothing, which a strict one accepts only if it has no floor.
LEMMA OSInfoLenient ==
  ASSUME NEW kd \in KeyDescriptions, NEW tag \in {"OSVersion", "OSPatch"},
         NEW p, NEW q, p.RequireHardwareBacked \in BOOLEAN,
         q.RequireHardwareBacked \in BOOLEAN,
         q.RequireHardwareBacked => p.RequireHardwareBacked,
         NEW m \in Int, NEW n \in Int, n <= m, OSInfoAtLeast(p, kd, tag, m)
  PROVE  OSInfoAtLeast(q, kd, tag, n)
<1> DEFINE tee == findIntTag(kd.TeeEnforced, tag)
           software == findIntTag(kd.SoftwareEnforced, tag)
<1>1. tee \in Int \cup {Malformed} /\ software \in Int \cup {Malformed}
  BY TagTypes DEF KeyDescriptions
<1>2. Malformed \notin Int
  BY UnreadableAssumption DEF Unreadable
<1>3. /\ OSInfo(p, kd, tag) = IF tee = 0 /\ ~p.RequireHardwareBacked /\ software # Malformed
                              THEN software ELSE tee
      /\ OSInfo(q, kd, tag) = IF tee = 0 /\ ~q.RequireHardwareBacked /\ software # Malformed
                              THEN software ELSE tee
  BY DEF OSInfo
<1>4. /\ OSInfo(p, kd, tag) # Malformed
      /\ m > 0 => OSInfo(p, kd, tag) # 0 /\ OSInfo(p, kd, tag) >= m
  BY DEF OSInfoAtLeast
<1> HIDE DEF tee, software
<1>5. CASE tee = 0 /\ p.RequireHardwareBacked
  <2>1. m <= 0 /\ n <= 0
    BY <1>3, <1>4, <1>5
  <2>2. OSInfo(q, kd, tag) # Malformed
    BY <1>2, <1>3, <1>5
  <2> QED BY <2>1, <2>2 DEF OSInfoAtLeast
<1>6. CASE tee # 0 \/ ~p.RequireHardwareBacked
  <2>1. OSInfo(q, kd, tag) = OSInfo(p, kd, tag)
    BY <1>3, <1>6
  <2>2. OSInfo(p, kd, tag) \in Int
    BY <1>1, <1>3, <1>4
  <2>3. n > 0 => OSInfo(p, kd, tag) # 0 /\ OSInfo(p, kd, tag) >= n
    BY <1>4, <2>2
  <2> QED BY <1>4, <2>1, <2>3 DEF OSInfoAtLeast
<1> QED BY <1>5, <1>6

\* A strict server accepts a TEE-enforced root of trust only, and there a
\* lenient one does not look further.
LEMMA RootOfTrustLenient ==
  ASSUME NEW e \in Environments, NEW f \in Environments, NEW kd,
         ConfiguredPolicy(f).RequireHardwareBacked =>
             ConfiguredPolicy(e).RequireHardwareBacked,
         RootOfTrustOK(ConfiguredPolicy(e), kd)
  PROVE  RootOfTrustOK(ConfiguredPolicy(f), kd)
<1> DEFINE p == ConfiguredPolicy(e)
           q == ConfiguredPolicy(f)
<1>1. /\ p.RequireHardwareBacked \in BOOLEAN /\ q.RequireHardwareBacked \in BOOLEAN
      /\ p.RequireDeviceLocked = p.RequireHardwareBacked
      /\ p.RequireVerifiedBoot = p.RequireHardwareBacked
      /\ q.RequireDeviceLocked = q.RequireHardwareBacked
      /\ q.RequireVerifiedBoot = q.RequireHardwareBacked
      /\ q.RequireHardwareBacked => p.RequireHardwareBacked
      /\ RootOfTrustOK(p, kd)
  BY PolicyOf
<1> HIDE DEF p, q
<1>2. RootOfTrustOK(q, kd)
  <2>1. CASE q.RequireHardwareBacked = p.RequireHardwareBacked
    BY <1>1, <2>1 DEF RootOfTrustOK, RootOfTrust
  <2>2. CASE p.RequireHardwareBacked /\ ~q.RequireHardwareBacked
    <3>1. findRootOfTrust(kd.TeeEnforced) \notin Unreadable
      BY <1>1, <2>2 DEF RootOfTrustOK, RootOfTrust, Unreadable
    <3>2. RootOfTrust(q, kd) \notin Unreadable
      BY <3>1 DEF RootOfTrust, Unreadable
    <3> QED BY <1>1, <2>2, <3>2 DEF RootOfTrustOK, Unreadable
  <2> QED BY <1>1, <2>1, <2>2
<1> QED BY <1>2 DEF p, q

\* Every demand of a more lenient server is one the stricter server made.
LEMMA LenientAccepts ==
  ASSUME NEW e \in Environments, NEW f \in Environments, NEW c \in Chains,
         AtLeastAsStrict(ConfiguredPolicy(e), ConfiguredPolicy(f)),
         Accepts(ConfiguredPolicy(e), c)
  PROVE  Accepts(ConfiguredPolicy(f), c)
<1> DEFINE p == ConfiguredPolicy(e)
           q == ConfiguredPolicy(f)
<1>1. /\ p.RequireHardwareBacked \in BOOLEAN /\ q.RequireHardwareBacked \in BOOLEAN
      /\ p.MinOsVersion \in Int /\ p.MinPatchLevel \in Int
      /\ q.MinOsVersion \in Int /\ q.MinPatchLevel \in Int
  BY PolicyOf
<1>2. ASSUME NEW kd \in KeyDescriptions, KeyDescriptionOK(p, kd, expectedChallenge)
      PROVE  KeyDescriptionOK(q, kd, expectedChallenge)
  <2> HIDE DEF p, q
  <2>0. AtLeastAsStrict(p, q)
    BY DEF p, q
  <2>1. RootOfTrustOK(q, kd)
    BY <1>2, <2>0, RootOfTrustLenient DEF KeyDescriptionOK, AtLeastAsStrict, p, q
  <2>2. extractOSInfo(q, kd)
    <3>1. /\ OSInfoAtLeast(p, kd, "OSVersion", p.MinOsVersion)
          /\ OSInfoAtLeast(p, kd, "OSPatch", p.MinPatchLevel)
      BY <1>2 DEF KeyDescriptionOK, extractOSInfo
    <3>2. /\ q.RequireHardwareBacked => p.RequireHardwareBacked
          /\ q.MinOsVersion <= p.MinOsVersion /\ q.MinPatchLevel <= p.MinPatchLevel
      BY <2>0 DEF AtLeastAsStrict
    <3>3. OSInfoAtLeast(q, kd, "OSVersion", q.MinOsVersion)
      BY <1>1, <3>1, <3>2, OSInfoLenient
    <3>4. OSInfoAtLeast(q, kd, "OSPatch", q.MinPatchLevel)
      BY <1>1, <3>1, <3>2, OSInfoLenient
    <3> QED BY <3>3, <3>4 DEF extractOSInfo
  <2>3. q.ExpectedPackageName # "" => verifyApplicationID(kd, q.ExpectedPackageName)
    BY <1>2, <2>0 DEF KeyDescriptionOK, AtLeastAsStrict
  <2> QED BY <1>2, <2>0, <2>1, <2>2, <2>3 DEF KeyDescriptionOK, AtLeastAsStrict
<1>3. c.kd \in KeyDescriptions \cup Unreadable
  BY DEF Chains
<1>4. VerifyAttestation(p, c, expectedChallenge, csrKey, revocation) /\ AtLeastAsStrict(p, q)
  BY DEF Accepts
<1> HIDE DEF p, q
<1>5. CASE c.length = 0
  BY <1>4, <1>5 DEF VerifyAttestation, AtLeastAsStrict, Accepts, q
<1>6. CASE c.length # 0
  <2>1. IF c.kd = Nil THEN q.AllowEmptyAttestation
                      ELSE KeyDescriptionOK(q, c.kd, expectedChallenge)
    <3>1. CASE c.kd = Nil
      BY <1>4, <1>6, <3>1 DEF VerifyAttestation, AtLeastAsStrict
    <3>2. CASE c.kd # Nil
      <4>1. KeyDescriptionOK(p, c.kd, expectedChallenge)
        BY <1>4, <1>6, <3>2 DEF VerifyAttestation
      <4>2. c.kd \in KeyDescriptions
        BY <1>3, <3>2, <4>1 DEF KeyDescriptionOK, Unreadable
      <4> QED BY <1>2, <3>2, <4>1, <4>2
    <3> QED BY <3>1, <3>2
  <2>2. VerifyAttestation(q, c, expectedChallenge, csrKey, revocation)
    BY <1>4, <1>6, <2>1 DEF VerifyAttestation, AtLeastAsStrict
  <2> QED BY <2>2 DEF Accepts, q
<1> QED BY <1>5, <1>6

\* verifier.go:91-271.  Whatever a server accepts, a server that demands less
\* accepts, for every pair of environments and every chain.
THEOREM StricterLess == Spec => []StricterAcceptsLess
<1>1. VInv => StricterAcceptsLess
  <2> SUFFICES ASSUME VInv, ok, NEW f \in Environments,
                      AtLeastAsStrict(policy, ConfiguredPolicy(f))
               PROVE  Accepts(ConfiguredPolicy(f), chain)
    BY DEF StricterAcceptsLess, Policies
  <2>1. env \in Environments /\ chain \in Chains /\ Accepts(ConfiguredPolicy(env), chain)
    BY DEF VInv, policy
  <2> QED BY <2>1, LenientAccepts DEF policy
<1> QED BY <1>1, VInvAlways, PTL

\* A strict policy takes the TEE-enforced tag alone, and an absent one misses
\* every floor.
LEMMA FloorEnforced ==
  ASSUME NEW p, p.RequireHardwareBacked = TRUE, NEW kd,
         kd.TeeEnforced \in AuthorizationLists, NEW tag \in {"OSVersion", "OSPatch"},
         NEW minimum \in Int \cup Unreadable,
         OSInfoAtLeast(p, kd, tag, getEnvInt(minimum, 0))
  PROVE  FloorMet(minimum, kd.TeeEnforced[tag])
<1> SUFFICES ASSUME minimum \notin Unreadable, minimum > 0
             PROVE  kd.TeeEnforced[tag] \notin Unreadable /\ kd.TeeEnforced[tag] >= minimum
  BY DEF FloorMet
<1> DEFINE raw == kd.TeeEnforced[tag]
<1>1. kd.TeeEnforced # Malformed
  BY UnreadableAssumption DEF Unreadable
<1>2. raw \in Int \cup Unreadable
  BY DEF AuthorizationLists
<1>3. getEnvInt(minimum, 0) = minimum /\ minimum \in Int
  BY DEF getEnvInt, Unreadable
<1>4. OSInfo(p, kd, tag) = IF raw = Nil THEN 0 ELSE raw
  BY <1>1 DEF OSInfo, findIntTag, findTagged
<1> HIDE DEF raw
<1>5. raw # Nil /\ raw # Malformed /\ raw >= minimum
  BY <1>2, <1>3, <1>4, UnreadableAssumption DEF OSInfoAtLeast, Unreadable
<1> QED BY <1>5 DEF raw, Unreadable

\* config.go:46, 62-66, 79-106, main.go:55-64.  In every environment whose
\* DEV_MODE does not parse as true, an accepted chain is hardware-backed,
\* trusted, of a locked and verified device and of the expected app; it is not
\* revoked, unless REQUIRE_REVOCATION_CHECK parses as false; and the TEE's
\* version and patch level meet every floor that parses.  A floor that does not
\* parse is none.
THEOREM BarHolds == Spec => []BarWithoutDevMode
<1>1. VInv => BarWithoutDevMode
  <2> SUFFICES ASSUME VInv, ok, env.DEV_MODE # TRUE PROVE BarWithoutDevMode
    BY DEF BarWithoutDevMode
  <2>1. /\ env \in Environments /\ chain \in Chains /\ chain # Nil
        /\ VerifyAttestation(policy, chain, expectedChallenge, csrKey, revocation)
    BY DEF VInv, Accepts
  <2> DEFINE package == IF env.EXPECTED_APP_PACKAGE = Nil
                        THEN DefaultAppPackage ELSE env.EXPECTED_APP_PACKAGE
  <2>2. /\ policy.RequireHardwareBacked = TRUE /\ policy.RequireDeviceLocked = TRUE
        /\ policy.RequireVerifiedBoot = TRUE /\ policy.SkipChainValidation = FALSE
        /\ policy.AllowEmptyAttestation = FALSE
        /\ policy.ExpectedPackageName = package /\ package # ""
        /\ env.REQUIRE_REVOCATION_CHECK # FALSE => policy.CheckRevocationList
    BY <2>1, PolicyOf DEF policy
  <2> HIDE DEF package
  <2>3. /\ chain.length \in Nat /\ chain.length # 0 /\ ~(chain.length < 2)
        /\ chain.trusted /\ chain.kd # Nil
        /\ policy.CheckRevocationList => revocation = "clear"
        /\ KeyDescriptionOK(policy, chain.kd, expectedChallenge)
    BY <2>1, <2>2 DEF VerifyAttestation, Chains
  <2>4. chain.kd # Malformed /\ chain.kd \in KeyDescriptions
    BY <2>1, <2>3 DEF KeyDescriptionOK, Chains, Unreadable
  <2>5. /\ chain.kd.AttestationSecurityLevel \in HardwareLevels
        /\ chain.kd.KeymasterSecurityLevel \in HardwareLevels
        /\ verifyApplicationID(chain.kd, package)
        /\ RootOfTrustOK(policy, chain.kd)
        /\ extractOSInfo(policy, chain.kd)
    BY <2>2, <2>3 DEF KeyDescriptionOK
  <2>6. chain.kd.TeeEnforced.RootOfTrust =
          [DeviceLocked |-> TRUE, VerifiedBootState |-> "Verified"]
    <3> DEFINE tee == chain.kd.TeeEnforced
    <3>1. tee \in AuthorizationLists \cup {Malformed}
      BY <2>4 DEF KeyDescriptions
    <3>2. RootOfTrust(policy, chain.kd) = findRootOfTrust(tee)
      BY <2>2 DEF RootOfTrust
    <3>3. /\ findRootOfTrust(tee) \notin Unreadable
          /\ findRootOfTrust(tee).DeviceLocked
          /\ findRootOfTrust(tee).VerifiedBootState = "Verified"
      BY <2>2, <2>5, <3>2 DEF RootOfTrustOK, Unreadable
    <3>4. tee # Malformed /\ findRootOfTrust(tee) = tee.RootOfTrust
      BY <3>3 DEF findRootOfTrust, findTagged, Unreadable
    <3>5. tee.RootOfTrust \in RootOfTrusts
      BY <3>1, <3>3, <3>4, TagTypes
    <3> HIDE DEF tee
    <3>6. tee.RootOfTrust = [DeviceLocked |-> TRUE, VerifiedBootState |-> "Verified"]
      BY <3>3, <3>4, <3>5 DEF RootOfTrusts
    <3> QED BY <3>6 DEF tee
  <2>7. \E list \in {chain.kd.TeeEnforced, chain.kd.SoftwareEnforced} :
          /\ findTagged(list, "ApplicationId") \notin {Nil, Malformed}
          /\ package \in list.ApplicationId
    <3>1. PICK list \in {chain.kd.TeeEnforced, chain.kd.SoftwareEnforced} :
            /\ findTagged(list, "ApplicationId") \notin {Nil, Malformed}
            /\ package \in findTagged(list, "ApplicationId")
      BY <2>5 DEF verifyApplicationID
    <3>2. findTagged(list, "ApplicationId") = list.ApplicationId
      BY <3>1 DEF findTagged
    <3> QED BY <3>1, <3>2
  <2>8. chain.length > 1
    BY <2>3
  <2>9. /\ FloorMet(env.MIN_OS_VERSION, chain.kd.TeeEnforced.OSVersion)
        /\ FloorMet(env.MIN_PATCH_LEVEL, chain.kd.TeeEnforced.OSPatch)
    <3>1. chain.kd.TeeEnforced \in AuthorizationLists
      <4>1. findRootOfTrust(chain.kd.TeeEnforced) # Malformed
        BY <2>2, <2>5 DEF RootOfTrustOK, RootOfTrust
      <4> QED BY <2>4, <4>1 DEF findRootOfTrust, findTagged, KeyDescriptions
    <3>2. EnvironmentOK(env)
      BY <2>1, VerifierAssumption
    <3>3. /\ policy.MinOsVersion = getEnvInt(env.MIN_OS_VERSION, 0)
          /\ policy.MinPatchLevel = getEnvInt(env.MIN_PATCH_LEVEL, 0)
      BY <2>1, PolicyOf DEF policy
    <3>4. /\ OSInfoAtLeast(policy, chain.kd, "OSVersion", getEnvInt(env.MIN_OS_VERSION, 0))
          /\ OSInfoAtLeast(policy, chain.kd, "OSPatch", getEnvInt(env.MIN_PATCH_LEVEL, 0))
      BY <2>5, <3>3 DEF extractOSInfo
    <3>5. /\ FloorMet(env.MIN_OS_VERSION, chain.kd.TeeEnforced["OSVersion"])
          /\ FloorMet(env.MIN_PATCH_LEVEL, chain.kd.TeeEnforced["OSPatch"])
      BY <2>2, <3>1, <3>2, <3>4, FloorEnforced DEF EnvironmentOK
    <3> QED BY <3>5
  <2> QED BY <2>1, <2>2, <2>3, <2>4, <2>5, <2>6, <2>7, <2>8, <2>9
          DEF BarWithoutDevMode, HasKeyDescription, package
<1> QED BY <1>1, VInvAlways, PTL
=============================================================================
