-------------------------- MODULE KeystoreManager --------------------------
(***************************************************************************)
(* android/.../security/KeystoreManager.kt: the device keys and the trust  *)
(* preferences of the app.                                                 *)
(*                                                                         *)
(* Two key slots alternate: one holds the active identity, a new key is    *)
(* generated in the other.  The AndroidKeyStore is durable at once.  The   *)
(* preferences are edited in memory and written behind by the framework    *)
(* (edit { } is apply()), so a killed process restarts from an older       *)
(* version of them.                                                        *)
(*                                                                         *)
(* A certificate is named by the key it certifies, so client_cert_pem      *)
(* holds a key.  The CA's certificate and the security level, which are    *)
(* written beside it, are the same for every enrolment here and left out.  *)
(***************************************************************************)
EXTENDS GoMap

CONSTANT DeviceKeys  \* keys the secure hardware may generate

Aliases == {"a", "b"}

ASSUME KeystoreAssumption == Nil \notin DeviceKeys \cup Aliases

VARIABLES
    slots,   \* AndroidKeyStore: alias -> key, or Nil
    prefs,   \* SharedPreferences mtls_trust_store, in memory
    onDisk,  \* ... and as last written
    minted   \* keys generated so far

keystoreVars == <<slots, prefs, onDisk, minted>>

Preferences == [active_alias : Aliases \cup {Nil},
                client_cert_pem : DeviceKeys \cup {Nil}]

KeystoreTypeOK ==
    /\ slots \in [Aliases -> minted \cup {Nil}]
    /\ minted \subseteq DeviceKeys
    /\ prefs \in Preferences
    /\ onDisk \in Preferences

KeystoreInit ==
    /\ slots = [alias \in Aliases |-> Nil]
    /\ prefs = [active_alias |-> Nil, client_cert_pem |-> Nil]
    /\ onDisk = prefs
    /\ minted = {}

-----------------------------------------------------------------------------

getKeyAlias == IF prefs.active_alias = Nil THEN "a" ELSE prefs.active_alias

inactiveAlias == IF getKeyAlias = "a" THEN "b" ELSE "a"

hasKeyInAnySlot == \E alias \in Aliases : slots[alias] # Nil  \* mutant
hasKey == slots[getKeyAlias] # Nil

deleteEntry(alias) == slots' = [slots EXCEPT ![alias] = Nil]

\* Keys never repeat, and which new one it is makes no difference.
FreshKey == CHOOSE k \in DeviceKeys : k \notin minted

\* generateKeyPairWithAttestation, once it has chosen its slot: delete what
\* is there, then generate.  When StrongBox is unavailable it generates in the
\* TEE, in the same slot.
GenerateInSlot(alias, key) ==
    /\ slots' = [slots EXCEPT ![alias] = key]
    /\ minted' = minted \cup {key}

saveClientCertificatePem(key) ==
    prefs' = [prefs EXCEPT !.client_cert_pem = key]

saveActiveAlias(alias) == prefs' = [prefs EXCEPT !.active_alias = alias]

-----------------------------------------------------------------------------

\* The framework writes the preferences to disk.
WriteBehind ==
    /\ onDisk # prefs
    /\ onDisk' = prefs
    /\ UNCHANGED <<slots, prefs, minted>>

\* The process is killed: what was not written is lost.
KeystoreRestart == prefs' = onDisk /\ UNCHANGED <<slots, onDisk, minted>>
=============================================================================
