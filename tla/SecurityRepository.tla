------------------------- MODULE SecurityRepository -------------------------
(***************************************************************************)
(* android/.../data/repository/SecurityRepository.kt.  Its two suspend     *)
(* functions, enroll and pingProtected, run on Dispatchers.IO, any number  *)
(* of them at a time; nothing but clientLock, which guards the cached mTLS *)
(* client, keeps them apart.  A call is a slot of Calls, and its program   *)
(* counter says what it does next:                                         *)
(*   invalidate  challenge  slot  generate  request  post                  *)
(*   save  delete  swap  discard          enroll (lines 70-129)            *)
(*   client  build  call                  pingProtected (lines 147-152)    *)
(*   enrolled  pinged  failed             it has returned, or thrown       *)
(* The backend is external: a request succeeds or fails.                   *)
(***************************************************************************)
EXTENDS KeystoreManager

CONSTANT Calls  \* concurrent calls of the repository

ASSUME RepositoryAssumption == Nil \notin Calls

VARIABLES
    pc,                 \* where each call is, "idle" when there is none
    alias,              \* the slot a call has chosen or read
    key,                \* keyGenResult.keyPair of an enrolment
    protectedApi,       \* the cached mTLS client, or Nil
    cachedClientChain,  \* the cached client certificate, or Nil
    clientLock          \* the call that holds clientLock, or Nil

repositoryVars == <<pc, alias, key, protectedApi, cachedClientChain, clientLock>>

EnrollSteps == {"invalidate", "challenge", "slot", "generate", "request",
                "post", "save", "delete", "swap", "discard"}
PingSteps == {"client", "build", "call"}
Returned == {"enrolled", "pinged", "failed"}

RepositoryTypeOK ==
    /\ pc \in [Calls -> {"idle"} \cup EnrollSteps \cup PingSteps \cup Returned]
    /\ alias \in [Calls -> Aliases \cup {Nil}]
    /\ key \in [Calls -> DeviceKeys \cup {Nil}]
    /\ protectedApi = Nil \/ protectedApi \in
         [alias : Aliases, chain : DeviceKeys \cup {Nil}]
    /\ cachedClientChain \in DeviceKeys \cup {Nil}
    /\ \A c \in Calls : clientLock = c <=> pc[c] = "build"

RepositoryInit ==
    /\ pc = [c \in Calls |-> "idle"]
    /\ alias = [c \in Calls |-> Nil]
    /\ key = [c \in Calls |-> Nil]
    /\ protectedApi = Nil
    /\ cachedClientChain = Nil
    /\ clientLock = Nil

isEnrolled == hasKey /\ prefs.client_cert_pem # Nil

At(c, step) == pc[c] = step
Goto(c, step) == pc' = [pc EXCEPT ![c] = step]

-----------------------------------------------------------------------------
(* enroll                                                                  *)

InvalidateSkipped(c) ==  \* mutant: the cached client is kept
    /\ At(c, "invalidate")
    /\ Goto(c, "challenge")
    /\ UNCHANGED <<keystoreVars, alias, key, protectedApi, cachedClientChain,
                   clientLock>>

Invalidate(c) ==
    /\ At(c, "invalidate") /\ clientLock = Nil
    /\ Goto(c, "challenge")
    /\ protectedApi' = Nil
    /\ cachedClientChain' = Nil
    /\ UNCHANGED <<keystoreVars, alias, key, clientLock>>

\* The challenge arrives, or the request fails, before the try block.
GetChallenge(c) ==
    /\ At(c, "challenge")
    /\ Goto(c, "slot") \/ Goto(c, "failed")
    /\ UNCHANGED <<keystoreVars, alias, key, protectedApi, cachedClientChain,
                   clientLock>>

ChooseActiveSlot(c) ==  \* mutant: generates over the active identity
    /\ At(c, "slot")
    /\ Goto(c, "generate")
    /\ alias' = [alias EXCEPT ![c] = getKeyAlias]
    /\ UNCHANGED <<keystoreVars, key, protectedApi, cachedClientChain, clientLock>>

\* The inactive slot, at this moment.
ChooseSlot(c) ==
    /\ At(c, "slot")
    /\ Goto(c, "generate")
    /\ alias' = [alias EXCEPT ![c] = inactiveAlias]
    /\ UNCHANGED <<keystoreVars, key, protectedApi, cachedClientChain, clientLock>>

GenerateKey(c) ==
    /\ At(c, "generate") /\ minted # DeviceKeys
    /\ Goto(c, "request")
    /\ GenerateInSlot(alias[c], FreshKey)
    /\ key' = [key EXCEPT ![c] = FreshKey]
    /\ UNCHANGED <<prefs, onDisk, alias, protectedApi, cachedClientChain, clientLock>>

\* The slot was emptied, then the hardware failed.  Still before the try.
GenerateKeyFails(c) ==
    /\ At(c, "generate")
    /\ Goto(c, "failed")
    /\ deleteEntry(alias[c])
    /\ UNCHANGED <<prefs, onDisk, minted, alias, key, protectedApi,
                   cachedClientChain, clientLock>>

\* Read the attestation chain of the slot, sign the CSR with the key.  If
\* another call has replaced or deleted the key meanwhile the CSR cannot be
\* signed, or the backend will refuse a chain that is another key's.
BuildRequest(c) ==
    /\ At(c, "request")
    /\ Goto(c, IF slots[alias[c]] = key[c] THEN "post" ELSE "discard")
    /\ UNCHANGED <<keystoreVars, alias, key, protectedApi, cachedClientChain,
                   clientLock>>

\* 201 with a certificate that parses: cache it.
EnrollSucceeds(c) ==
    /\ At(c, "post") /\ clientLock = Nil
    /\ Goto(c, "save")
    /\ cachedClientChain' = key[c]
    /\ UNCHANGED <<keystoreVars, alias, key, protectedApi, clientLock>>

\* Refused, no answer, an answer that does not parse, or cancelled.
EnrollFails(c) ==
    /\ At(c, "post")
    /\ Goto(c, "discard")
    /\ UNCHANGED <<keystoreVars, alias, key, protectedApi, cachedClientChain,
                   clientLock>>

SaveCertificate(c) ==
    /\ At(c, "save")
    /\ Goto(c, "delete")
    /\ saveClientCertificatePem(key[c])
    /\ UNCHANGED <<slots, onDisk, minted, alias, key, protectedApi,
                   cachedClientChain, clientLock>>

\* activatePendingKey: read both aliases, delete the previous key ...
DeletePrevious(c) ==
    /\ At(c, "delete")
    /\ Goto(c, "swap")
    /\ alias' = [alias EXCEPT ![c] = inactiveAlias]
    /\ deleteEntry(getKeyAlias)
    /\ UNCHANGED <<prefs, onDisk, minted, key, protectedApi, cachedClientChain,
                   clientLock>>

\* deleteEntry throws.
DeletePreviousFails(c) ==
    /\ At(c, "delete") /\ hasKey
    /\ Goto(c, "discard")
    /\ UNCHANGED <<keystoreVars, alias, key, protectedApi, cachedClientChain,
                   clientLock>>

SwapSlotsForgotten(c) ==  \* mutant: the active alias is not saved
    /\ At(c, "swap")
    /\ Goto(c, "enrolled")
    /\ UNCHANGED <<keystoreVars, alias, key, protectedApi, cachedClientChain,
                   clientLock>>

\* ... and make the pending slot the active one.
SwapSlots(c) ==
    /\ At(c, "swap")
    /\ Goto(c, "enrolled")
    /\ saveActiveAlias(alias[c])
    /\ UNCHANGED <<slots, onDisk, minted, alias, key, protectedApi,
                   cachedClientChain, clientLock>>

DiscardActiveKey(c) ==  \* mutant: the other slot
    /\ At(c, "discard")
    /\ Goto(c, "failed")
    /\ deleteEntry(getKeyAlias)
    /\ UNCHANGED <<prefs, onDisk, minted, alias, key, protectedApi,
                   cachedClientChain, clientLock>>

\* The catch block: discardPendingKey, then rethrow.
DiscardPendingKey(c) ==
    /\ At(c, "discard")
    /\ Goto(c, "failed")
    /\ deleteEntry(inactiveAlias)
    /\ UNCHANGED <<prefs, onDisk, minted, alias, key, protectedApi,
                   cachedClientChain, clientLock>>

-----------------------------------------------------------------------------
(* pingProtected                                                           *)

UseCachedClient(c) ==
    /\ At(c, "client") /\ clientLock = Nil /\ protectedApi # Nil
    /\ Goto(c, "call")
    /\ UNCHANGED <<keystoreVars, alias, key, protectedApi, cachedClientChain,
                   clientLock>>

\* buildProtectedApi, under clientLock: first the active alias ...
StartBuildingClient(c) ==
    /\ At(c, "client") /\ clientLock = Nil /\ protectedApi = Nil
    /\ Goto(c, "build")
    /\ clientLock' = c
    /\ alias' = [alias EXCEPT ![c] = getKeyAlias]
    /\ UNCHANGED <<keystoreVars, key, protectedApi, cachedClientChain>>

\* ... then resolveClientChain: the cached chain, else the saved one.
ResolvedChain ==
    IF cachedClientChain # Nil THEN cachedClientChain ELSE prefs.client_cert_pem

BuildClientKeepsLock(c) ==  \* mutant: the lock is not released
    /\ At(c, "build")
    /\ Goto(c, "call")
    /\ cachedClientChain' = ResolvedChain
    /\ protectedApi' = [alias |-> alias[c], chain |-> ResolvedChain]
    /\ UNCHANGED <<keystoreVars, alias, key, clientLock>>

BuildClient(c) ==
    /\ At(c, "build")
    /\ Goto(c, "call")
    /\ cachedClientChain' = ResolvedChain
    /\ protectedApi' = [alias |-> alias[c], chain |-> ResolvedChain]
    /\ clientLock' = Nil
    /\ UNCHANGED <<keystoreVars, alias, key>>

\* The key store, a certificate or the TLS set-up throws: no client is
\* cached, and the lock is released.  The chain may be cached by then.
BuildClientFails(c) ==
    /\ At(c, "build")
    /\ Goto(c, "failed")
    /\ cachedClientChain' \in {cachedClientChain, ResolvedChain}
    /\ clientLock' = Nil
    /\ UNCHANGED <<keystoreVars, alias, key, protectedApi>>

\* 200, or any error.  A connection kept open from before an enrolment may
\* still succeed.
Ping(c) ==
    /\ At(c, "call")
    /\ Goto(c, "pinged") \/ Goto(c, "failed")
    /\ UNCHANGED <<keystoreVars, alias, key, protectedApi, cachedClientChain,
                   clientLock>>

-----------------------------------------------------------------------------

RepositoryStep(c) ==
    \/ Invalidate(c)
    \/ GetChallenge(c)
    \/ ChooseSlot(c)
    \/ GenerateKey(c)
    \/ GenerateKeyFails(c)
    \/ BuildRequest(c)
    \/ EnrollSucceeds(c)
    \/ EnrollFails(c)
    \/ SaveCertificate(c)
    \/ DeletePrevious(c)
    \/ SwapSlots(c)
    \/ DiscardPendingKey(c)
    \/ UseCachedClient(c)
    \/ StartBuildingClient(c)
    \/ BuildClient(c)
    \/ BuildClientFails(c)
    \/ Ping(c)

\* A new process: no calls, no cached client.
RepositoryRestart ==
    /\ pc' = [c \in Calls |-> "idle"]
    /\ alias' = [c \in Calls |-> Nil]
    /\ key' = [c \in Calls |-> Nil]
    /\ protectedApi' = Nil
    /\ cachedClientChain' = Nil
    /\ clientLock' = Nil
=============================================================================
