------------------------------- MODULE Config -------------------------------
(***************************************************************************)
(* backend/internal/config/config.go, the part of it that decides who may  *)
(* enrol: LoadConfig as a function of the environment, and the policy      *)
(* main() makes of it.  An environment variable is Nil when it is unset or *)
(* empty, Malformed when it does not parse, else its value.                *)
(* Ports, paths, lifetimes and the list's URL go through the same getters  *)
(* and no decision depends on them.                                        *)
(***************************************************************************)
EXTENDS AttestationVerifier

CONSTANT DefaultAppPackage  \* "com.kypeli.mtlspoc"

getEnv(val, defaultVal) == IF val = Nil THEN defaultVal ELSE val

getEnvInt(val, defaultVal) ==
    IF val \in {Nil, Malformed} THEN defaultVal ELSE val

getEnvBoolAnything(val, defaultVal) ==  \* mutant: whatever is not false is true
    IF val = Nil THEN defaultVal ELSE val # FALSE

getEnvBool(val, defaultVal) ==
    IF val \in {Nil, Malformed} THEN defaultVal ELSE val

LoadConfig(env) ==
    LET devMode == getEnvBool(env.DEV_MODE, FALSE)
    IN  [DevMode |-> devMode,
         ExpectedAppPackage |-> getEnv(env.EXPECTED_APP_PACKAGE, DefaultAppPackage),
         MinOsVersion |-> getEnvInt(env.MIN_OS_VERSION, 0),
         MinPatchLevel |-> getEnvInt(env.MIN_PATCH_LEVEL, 0),
         RequireRevocationCheck |->
             getEnvBool(env.REQUIRE_REVOCATION_CHECK, ~devMode)]

ConfiguredPolicy(env) ==
    LET cfg == LoadConfig(env)
    IN  ServerPolicy(cfg.DevMode, cfg.ExpectedAppPackage, cfg.MinOsVersion,
                     cfg.MinPatchLevel, cfg.RequireRevocationCheck)
=============================================================================
