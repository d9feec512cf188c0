---------------------------- MODULE ClientProofs ----------------------------
(***************************************************************************)
(* Theorems about MainViewModel, for any set of keys, any number of calls  *)
(* and, but where it is said, any scenarios.                               *)
(***************************************************************************)
EXTENDS MainViewModel, TLAPS

\* A call that builds a client has read the active alias.
TInv == TypeOK /\ \A c \in Calls : pc[c] = "build" => alias[c] \in Aliases

\* A key that has not been generated yet.
LEMMA FreshKeyIsNew ==
  ASSUME KeystoreTypeOK, minted # DeviceKeys
  PROVE  FreshKey \in DeviceKeys \ minted
<1>1. \E k \in DeviceKeys : k \notin minted
  BY DEF KeystoreTypeOK
<1> QED BY <1>1 DEF FreshKey

\* A slot read from the preferences is a slot of the key store.
LEMMA AliasTypes ==
  ASSUME KeystoreTypeOK
  PROVE  /\ getKeyAlias \in Aliases /\ inactiveAlias \in Aliases
         /\ inactiveAlias # getKeyAlias
         /\ UsableIdentity \in DeviceKeys \cup {Nil}
BY DEF KeystoreTypeOK, Preferences, getKeyAlias, inactiveAlias, Aliases, UsableIdentity

\* An app that was never started is where TInv says it may be.
LEMMA TInvInit == Init => TInv
<1> SUFFICES ASSUME Init PROVE TInv
  OBVIOUS
<1> USE KeystoreAssumption, RepositoryAssumption, ClientAssumption DEF Init
<1>1. KeystoreTypeOK
  BY DEF KeystoreInit, KeystoreTypeOK, Preferences, Aliases
<1>2. RepositoryTypeOK
  BY DEF RepositoryInit, RepositoryTypeOK
<1> QED BY <1>1, <1>2
        DEF TInv, TypeOK, RepositoryInit, checkEnrollmentStatus, EntryPoints

\* Every step of the repository keeps the types.
LEMMA RepositoryTypes ==
  ASSUME TInv, NEW c \in Calls, RepositoryStep(c) \/ DeletePreviousFails(c),
         UNCHANGED <<scenario, uiState, kind, historyVars>>
  PROVE  TInv'
<1>0. KeystoreTypeOK /\ RepositoryTypeOK
  BY DEF TInv, TypeOK
<1>1. SUFFICES /\ KeystoreTypeOK' /\ RepositoryTypeOK'
               /\ \A d \in Calls : pc'[d] = "build" => alias'[d] \in Aliases
  BY DEF TInv, TypeOK, historyVars
<1> USE <1>0, AliasTypes, RepositoryAssumption
    DEF TInv, KeystoreTypeOK, RepositoryTypeOK, Preferences, Goto, At, keystoreVars,
        EnrollSteps, PingSteps, Returned
<1>2. CASE Invalidate(c)
  BY <1>2 DEF Invalidate
<1>3. CASE GetChallenge(c)
  BY <1>3 DEF GetChallenge
<1>4. CASE ChooseSlot(c)
  BY <1>4 DEF ChooseSlot
<1>5. CASE GenerateKey(c)
  <2>1. FreshKey \in DeviceKeys
    BY <1>5, FreshKeyIsNew DEF GenerateKey
  <2> QED BY <1>5, <2>1 DEF GenerateKey, GenerateInSlot
<1>6. CASE GenerateKeyFails(c) \/ DiscardPendingKey(c)
  BY <1>6 DEF GenerateKeyFails, DiscardPendingKey, deleteEntry
<1>7. CASE BuildRequest(c) \/ EnrollFails(c) \/ DeletePreviousFails(c)
  BY <1>7 DEF BuildRequest, EnrollFails, DeletePreviousFails
<1>8. CASE EnrollSucceeds(c)
  BY <1>8 DEF EnrollSucceeds
<1>9. CASE SaveCertificate(c)
  BY <1>9 DEF SaveCertificate, saveClientCertificatePem
<1>10. CASE DeletePrevious(c)
  BY <1>10 DEF DeletePrevious, deleteEntry
<1>11. CASE SwapSlots(c)
  BY <1>11 DEF SwapSlots, saveActiveAlias
<1>12. CASE UseCachedClient(c)
  BY <1>12 DEF UseCachedClient
<1>13. CASE StartBuildingClient(c)
  BY <1>13 DEF StartBuildingClient
<1>14. CASE BuildClient(c) \/ BuildClientFails(c)
  BY <1>14 DEF BuildClient, BuildClientFails, ResolvedChain
<1>15. CASE Ping(c)
  BY <1>15 DEF Ping
<1> QED BY <1>2, <1>3, <1>4, <1>5, <1>6, <1>7, <1>8, <1>9, <1>10, <1>11, <1>12,
           <1>13, <1>14, <1>15 DEF RepositoryStep

\* A call begins.
LEMMA LaunchTypes ==
  ASSUME TInv, NEW c \in Calls, NEW entry \in EntryPoints,
         NEW step \in {"invalidate", "client"}, NEW shown \in Loading,
         Launch(c, entry, step, shown)
  PROVE  TInv'
<1>1. KeystoreTypeOK' /\ RepositoryTypeOK'
  BY DEF TInv, TypeOK, Launch, KeystoreTypeOK, RepositoryTypeOK, keystoreVars, Goto, At,
         EnrollSteps, PingSteps
<1>2. before' \in [Calls -> DeviceKeys \cup {Nil}]
  BY AliasTypes DEF TInv, TypeOK, Launch
<1> QED BY <1>1, <1>2 DEF TInv, TypeOK, Launch, Goto

\* A call returns to the view model.
LEMMA ResumeTypes ==
  ASSUME TInv, NEW c \in Calls, OnEnrolled(c) \/ OnPinged(c) \/ OnFailed(c)
  PROVE  TInv'
<1>1. PICK outcome \in Returned, step \in {"client", "idle"},
           shown \in {"Authenticating", "Enrolled", "Authenticated", "Error"} :
         Resume(c, outcome, step, shown)
  BY DEF OnEnrolled, OnPinged, OnFailed, Returned
<1>2. raced' \in BOOLEAN
  BY DEF OnEnrolled, OnPinged, OnFailed, TInv, TypeOK
<1>3. KeystoreTypeOK' /\ RepositoryTypeOK'
  BY <1>1 DEF TInv, TypeOK, Resume, KeystoreTypeOK, RepositoryTypeOK, keystoreVars, At,
              PingSteps, Returned
<1>4. uiState' \in Loading \cup {"Idle", "Enrolled", "Authenticated", "Error"}
  BY <1>1 DEF Resume, Loading
<1>5. \A d \in Calls : pc'[d] = "build" => alias'[d] \in Aliases
  BY <1>1 DEF Resume, TInv, TypeOK, RepositoryTypeOK
<1> QED BY <1>1, <1>2, <1>3, <1>4, <1>5 DEF TInv, TypeOK, Resume

\* A kill forgets the process and keeps what is durable, each of its type.
LEMMA RestartTypes == ASSUME TInv, KillAndRestart PROVE TInv'
<1>1. KeystoreTypeOK'
  BY DEF TInv, TypeOK, KillAndRestart, KeystoreRestart, KeystoreTypeOK
<1>2. RepositoryTypeOK'
  BY RepositoryAssumption
     DEF KillAndRestart, RepositoryRestart, RepositoryTypeOK
<1>3. uiState' \in {"Idle", "Enrolled"}
  BY DEF KillAndRestart, checkEnrollmentStatus
<1> QED BY <1>1, <1>2, <1>3 DEF TInv, TypeOK, KillAndRestart, RepositoryRestart

\* Every step of a call, of the user or of the system keeps TInv.
LEMMA TInvStep == ASSUME TInv, [Next]_vars PROVE TInv'
<1>1. ASSUME NEW c \in Calls, Enroll(c) \/ PingProtected(c) \/ Connect(c) PROVE TInv'
  BY <1>1, LaunchTypes DEF Enroll, PingProtected, Connect, EntryPoints, Loading
<1>2. ASSUME NEW c \in Calls, CallStep(c) PROVE TInv'
  BY <1>2, RepositoryTypes, ResumeTypes DEF CallStep
<1>3. CASE OnLocalNetworkPermissionDenied
  BY <1>3 DEF OnLocalNetworkPermissionDenied, TInv, TypeOK, KeystoreTypeOK,
              RepositoryTypeOK, keystoreVars, repositoryVars, historyVars
<1>4. CASE WriteBehind /\ UNCHANGED <<repositoryVars, scenario, uiState, kind, historyVars>>
  BY <1>4 DEF WriteBehind, TInv, TypeOK, KeystoreTypeOK, RepositoryTypeOK,
              repositoryVars, historyVars
<1>5. CASE UNCHANGED vars
  BY <1>5 DEF vars, TInv, TypeOK, KeystoreTypeOK, RepositoryTypeOK, keystoreVars,
              repositoryVars, historyVars
<1> QED BY <1>1, <1>2, <1>3, <1>4, <1>5, RestartTypes DEF Next

\* The types hold for ever.
THEOREM TypeCorrect == Spec => []TypeOK
<1>1. TInv => TypeOK
  BY DEF TInv
<1> QED BY <1>1, TInvInit, TInvStep, PTL DEF Spec
-----------------------------------------------------------------------------
(* A call that nothing overlaps                                            *)

\* Of two calls that overlap neither is alone, and overlapping is recorded.
AloneOK ==
    /\ \A c \in alone : \A d \in Calls \ {c} : pc[d] = "idle"
    /\ ~raced => \A c \in Calls : pc[c] # "idle" => c \in alone

Current == [alias |-> getKeyAlias, chain |-> prefs.client_cert_pem]

\* Every certificate is that of the key in the slot it is used with.
Settled == isEnrolled => prefs.client_cert_pem = slots[getKeyAlias]

\* What holds of a call that is alone, whatever was left by the calls before.
Solo(c) ==
    /\ pc[c] \in {"generate", "request", "post", "save", "delete", "swap"} =>
         alias[c] = inactiveAlias
    /\ pc[c] \in {"request", "post", "save", "delete", "swap"} => key[c] # Nil
    /\ pc[c] \in {"post", "save", "delete", "swap"} => slots[alias[c]] = key[c]
    /\ pc[c] \in {"delete", "swap"} => prefs.client_cert_pem = key[c]
    /\ pc[c] = "enrolled" => Settled /\ cachedClientChain = prefs.client_cert_pem
    /\ pc[c] \in (EnrollSteps \ {"invalidate"}) \cup {"enrolled"} => protectedApi = Nil
    /\ pc[c] \in {"challenge", "slot", "generate", "request", "post", "discard"} =>
         cachedClientChain = Nil
    /\ pc[c] \in {"save", "delete", "swap"} => cachedClientChain = key[c]
    /\ pc[c] = "build" => alias[c] = getKeyAlias

\* Up to where an enrolment has not touched the active identity.
Harmless == {"invalidate", "challenge", "slot", "generate", "request", "post",
             "discard", "client", "build", "call", "pinged", "failed"}

\* A call that is alone keeps the identity it began with, unless it replaces
\* it.  Connect does not enrol over a usable identity.
Kept(c) ==
    before[c] # Nil =>
        /\ pc[c] \in Harmless => UsableIdentity = before[c]
        /\ kind[c] = "connect" => pc[c] \notin EnrollSteps \cup {"enrolled"}

\* What holds while nothing has overlapped.
Clean ==
    ~raced =>
        /\ (\A c \in Calls : pc[c] # "delete") => Settled
        /\ protectedApi # Nil => protectedApi = Current
        /\ (\A c \in Calls : pc[c] # "save") =>
              cachedClientChain \in {Nil, prefs.client_cert_pem}

-----------------------------------------------------------------------------
(* The Connect button, and a process that may be killed                    *)

\* The slot that preferences p make the active one.
Active(p) == IF p.active_alias = Nil THEN "a" ELSE p.active_alias

\* The preferences p agree with the key store.
Consistent(p) == slots[Active(p)] # Nil => p.client_cert_pem = slots[Active(p)]

\* With nothing but the button calls do not overlap and never enrol over a
\* key, so that the preferences in memory and those on disk, to which a kill
\* returns, both agree with the key store at every moment.
ButtonOK ==
    scenario.kinds = {"connect"} =>
        /\ ~raced
        /\ uiState \notin Loading => AtRest
        /\ Consistent(prefs) /\ Consistent(onDisk)
        /\ (\E c \in Calls : pc[c] \in EnrollSteps) =>
              slots[Active(prefs)] = Nil /\ Active(onDisk) = Active(prefs)
        /\ Active(onDisk) # Active(prefs) => isEnrolled /\ slots[Active(onDisk)] = Nil

CInv ==
    /\ TInv
    /\ AloneOK
    /\ \A c \in alone : Solo(c) /\ Kept(c)
    /\ Clean
    /\ ButtonOK

\* The scenarios in which the client keeps its promises: nothing but the
\* button, or no kill and a key store that deletes what it is told to.
Dependable ==
    \A s \in Scenarios :
        s.kinds = {"connect"} \/ (~s.canBeKilled /\ ~s.keystoreCanFail)

\* A fresh installation is consistent: nothing is enrolled.
LEMMA CInvInit == Init => CInv
<1> SUFFICES ASSUME Init PROVE CInv
  OBVIOUS
<1>1. Settled /\ ButtonOK
  BY DEF Init, KeystoreInit, RepositoryInit, Settled, isEnrolled, hasKey, getKeyAlias,
         ButtonOK, AtRest, Consistent, Active, Aliases, EnrollSteps
<1> QED BY <1>1, TInvInit
        DEF Init, RepositoryInit, CInv, AloneOK, Solo, Kept, Clean

\* A call that takes a step is not idle, and moves nobody else.
LEMMA CallMoves ==
  ASSUME TInv, NEW c \in Calls, CallStep(c)
  PROVE  pc[c] # "idle" /\ \A d \in Calls \ {c} : pc'[d] = pc[d]
<1>1. pc \in [Calls -> {"idle"} \cup EnrollSteps \cup PingSteps \cup Returned]
  BY DEF TInv, TypeOK, RepositoryTypeOK
<1>2. CASE OnEnrolled(c) \/ OnPinged(c) \/ OnFailed(c)
  BY <1>1, <1>2 DEF OnEnrolled, OnPinged, OnFailed, Resume, At
<1>3. CASE RepositoryStep(c) \/ DeletePreviousFails(c)
  BY <1>1, <1>3
     DEF RepositoryStep, Invalidate, GetChallenge, ChooseSlot, GenerateKey,
         GenerateKeyFails, BuildRequest, EnrollSucceeds, EnrollFails, SaveCertificate,
         DeletePrevious, DeletePreviousFails, SwapSlots, DiscardPendingKey,
         UseCachedClient, StartBuildingClient, BuildClient, BuildClientFails, Ping,
         Goto, At
<1> QED BY <1>2, <1>3 DEF CallStep

\* A call that is not alone has been raced, and alone is empty.
LEMMA Crowded ==
  ASSUME CInv, NEW c \in Calls, c \notin alone, CallStep(c)
  PROVE  raced /\ alone = {} /\ raced' = raced /\ alone' = alone /\ scenario' = scenario
<1>1. pc[c] # "idle"
  BY CallMoves DEF CInv
<1>2. alone \subseteq Calls
  BY DEF CInv, TInv, TypeOK
<1>3. raced /\ alone = {}
  BY <1>1, <1>2 DEF CInv, AloneOK
<1>4. raced' = raced /\ alone' = alone /\ scenario' = scenario
  BY <1>3 DEF CallStep, historyVars, OnEnrolled, OnPinged, OnFailed, Resume, CInv, TInv,
              TypeOK
<1> QED BY <1>3, <1>4

\* What is known when the call c, which is alone, takes a step.
LEMMA OnlyOne ==
  ASSUME CInv, NEW c \in alone
  PROVE  /\ c \in Calls /\ \A d \in Calls \ {c} : pc[d] = "idle"
         /\ Solo(c) /\ Kept(c)
         /\ KeystoreTypeOK /\ RepositoryTypeOK
BY DEF CInv, AloneOK, TInv, TypeOK

\* A step of a call that is alone.
LEMMA SoloStep ==
  ASSUME CInv, NEW c \in alone, RepositoryStep(c),
         UNCHANGED <<scenario, uiState, kind, historyVars>>
  PROVE  (Solo(c) /\ Kept(c) /\ Clean /\ ButtonOK)'
<1>0. /\ c \in Calls /\ \A d \in Calls \ {c} : pc[d] = "idle"
      /\ Solo(c) /\ Kept(c) /\ Clean /\ ButtonOK
      /\ KeystoreTypeOK /\ RepositoryTypeOK
  BY OnlyOne DEF CInv
<1>a. UNCHANGED <<scenario, uiState, kind, before, raced>>
  BY DEF historyVars
<1> USE <1>0, <1>a, AliasTypes, KeystoreAssumption
    DEF Solo, Kept, Clean, ButtonOK, AtRest, Settled, Current, UsableIdentity,
        Consistent, Active, isEnrolled, hasKey, getKeyAlias, inactiveAlias, Aliases,
        KeystoreTypeOK, RepositoryTypeOK, Preferences, Goto, At, keystoreVars,
        EnrollSteps, Harmless
<1>2. CASE Invalidate(c)
  BY <1>2 DEF Invalidate
<1>3. CASE GetChallenge(c)
  BY <1>3 DEF GetChallenge
<1>4. CASE ChooseSlot(c)
  BY <1>4 DEF ChooseSlot
<1>5. CASE GenerateKey(c)
  <2>1. FreshKey \in DeviceKeys
    BY <1>5, FreshKeyIsNew DEF GenerateKey
  <2> QED BY <1>5, <2>1 DEF GenerateKey, GenerateInSlot
<1>6. CASE GenerateKeyFails(c) \/ DiscardPendingKey(c)
  BY <1>6 DEF GenerateKeyFails, DiscardPendingKey, deleteEntry
<1>7. CASE BuildRequest(c) \/ EnrollFails(c)
  BY <1>7 DEF BuildRequest, EnrollFails
<1>8. CASE EnrollSucceeds(c)
  BY <1>8 DEF EnrollSucceeds
<1>9. CASE SaveCertificate(c)
  BY <1>9 DEF SaveCertificate, saveClientCertificatePem
<1>10. CASE DeletePrevious(c)
  BY <1>10 DEF DeletePrevious, deleteEntry
<1>11. CASE SwapSlots(c)
  <2>1. /\ prefs' = [prefs EXCEPT !.active_alias = alias[c]]
        /\ pc[c] = "swap" /\ pc' = [pc EXCEPT ![c] = "enrolled"]
        /\ UNCHANGED <<slots, onDisk, minted, alias, key, protectedApi,
                       cachedClientChain, clientLock>>
    BY <1>11 DEF SwapSlots, saveActiveAlias
  <2>2. /\ alias[c] = inactiveAlias /\ alias[c] # Nil
        /\ slots[alias[c]] = key[c] /\ key[c] # Nil
        /\ prefs.client_cert_pem = key[c] /\ cachedClientChain = key[c]
    BY <2>1
  <2>3. prefs'.active_alias = alias[c] /\ prefs'.client_cert_pem = key[c]
    BY <2>1, <2>2
  <2>4. Settled' /\ isEnrolled'
    BY <2>1, <2>2, <2>3
  <2>5. Solo(c)' /\ Kept(c)'
    BY <2>1, <2>2, <2>3
  <2>6. Clean'
    BY <2>1, <2>2, <2>3, <2>4
  <2>7. ButtonOK'
    BY <2>1, <2>2, <2>3, <2>4
  <2> QED BY <2>5, <2>6, <2>7
<1>12. CASE UseCachedClient(c)
  BY <1>12 DEF UseCachedClient
<1>13. CASE StartBuildingClient(c)
  BY <1>13 DEF StartBuildingClient
<1>14. CASE BuildClient(c) \/ BuildClientFails(c)
  BY <1>14 DEF BuildClient, BuildClientFails, ResolvedChain
<1>15. CASE Ping(c)
  BY <1>15 DEF Ping
<1> QED BY <1>2, <1>3, <1>4, <1>5, <1>6, <1>7, <1>8, <1>9, <1>10, <1>11, <1>12,
           <1>13, <1>14, <1>15 DEF RepositoryStep

\* A call that is alone returns to the view model.
LEMMA SoloResume ==
  ASSUME CInv, NEW c \in alone, OnEnrolled(c) \/ OnPinged(c) \/ OnFailed(c)
  PROVE  (Solo(c) /\ Kept(c) /\ Clean /\ ButtonOK)'
<1>0. /\ c \in Calls /\ \A d \in Calls \ {c} : pc[d] = "idle"
      /\ Solo(c) /\ Kept(c) /\ Clean /\ ButtonOK
      /\ KeystoreTypeOK /\ RepositoryTypeOK
  BY OnlyOne DEF CInv
<1> USE <1>0
    DEF Solo, Kept, Clean, ButtonOK, AtRest, Settled, Current, UsableIdentity,
        Consistent, Active, isEnrolled, hasKey, getKeyAlias, KeystoreTypeOK,
        RepositoryTypeOK, Resume, At, keystoreVars, EnrollSteps, Harmless, Loading
<1>1. CASE OnEnrolled(c)
  <2>1. \E step \in {"client", "idle"} :
          /\ pc' = [pc EXCEPT ![c] = step]
          /\ step = "client" <=> kind[c] = "connect"
          /\ step = "client" => uiState' = "Authenticating"
    BY <1>1 DEF OnEnrolled
  <2>2. /\ UNCHANGED <<slots, prefs, onDisk, minted, protectedApi, cachedClientChain,
                       scenario, kind, before, alone>>
        /\ raced' = FALSE /\ pc[c] = "enrolled"
    BY <1>1 DEF OnEnrolled
  <2>3. Settled /\ protectedApi = Nil /\ cachedClientChain = prefs.client_cert_pem
    BY <2>2
  <2>4. Solo(c)' /\ Kept(c)'
    BY <2>1, <2>2
  <2>5. Clean'
    BY <2>2, <2>3
  <2>6. ButtonOK'
    BY <2>1, <2>2
  <2> QED BY <2>4, <2>5, <2>6
<1>2. CASE OnPinged(c)
  BY <1>2 DEF OnPinged
<1>3. CASE OnFailed(c)
  BY <1>3 DEF OnFailed
<1> QED BY <1>1, <1>2, <1>3

\* A call begins, at rest or beside another one.
LEMMA LaunchStep ==
  ASSUME CInv, NEW c \in Calls, Enroll(c) \/ PingProtected(c) \/ Connect(c)
  PROVE  CInv'
<1>0. TInv'
  BY TInvStep DEF CInv, Next
<1>1. PICK entry \in EntryPoints, step \in {"invalidate", "client"}, shown \in Loading :
        /\ Launch(c, entry, step, shown)
        /\ entry = "connect" => uiState \notin Loading /\ (isEnrolled <=> step = "client")
        /\ entry = "ping" => step = "client"
  BY DEF Enroll, PingProtected, Connect, EntryPoints, Loading
<1>2. /\ pc[c] = "idle" /\ pc' = [pc EXCEPT ![c] = step]
      /\ kind' = [kind EXCEPT ![c] = entry]
      /\ before' = [before EXCEPT ![c] = UsableIdentity]
      /\ alone' = IF AtRest THEN {c} ELSE {}
      /\ raced' = (raced \/ ~AtRest)
      /\ uiState' = shown
      /\ entry \in scenario.kinds
      /\ UNCHANGED <<slots, prefs, onDisk, alias, key, protectedApi, cachedClientChain,
                     scenario>>
  BY <1>1 DEF Launch, Goto, At, keystoreVars
<1>3. /\ pc \in [Calls -> {"idle"} \cup EnrollSteps \cup PingSteps \cup Returned]
      /\ DOMAIN kind = Calls /\ DOMAIN before = Calls
  BY DEF CInv, TInv, TypeOK, RepositoryTypeOK
<1>4. AloneOK'
  BY <1>2, <1>3 DEF AloneOK, AtRest
<1>5. ASSUME AtRest
      PROVE  Solo(c)' /\ Kept(c)'
  <2>1. UsableIdentity' = UsableIdentity
    BY <1>2 DEF UsableIdentity, isEnrolled, hasKey, getKeyAlias
  <2>2. UsableIdentity # Nil => isEnrolled
    BY DEF UsableIdentity
  <2>3. pc'[c] = step /\ kind'[c] = entry /\ before'[c] = UsableIdentity
    BY <1>2, <1>3
  <2>4. Solo(c)'
    BY <2>3 DEF Solo, EnrollSteps
  <2>5. Kept(c)'
    BY <1>1, <2>1, <2>2, <2>3 DEF Kept, EnrollSteps
  <2> QED BY <2>4, <2>5
<1>6. Clean'
  <2>1. AtRest => \A d \in Calls : pc[d] \notin {"delete", "save"}
    BY DEF AtRest
  <2> QED BY <1>2, <2>1 DEF CInv, Clean, Settled, Current, isEnrolled, hasKey, getKeyAlias
<1>7. ButtonOK'
  <2> SUFFICES ASSUME scenario.kinds = {"connect"}
               PROVE  ButtonOK'
    BY <1>2 DEF ButtonOK
  <2>1. entry = "connect" /\ AtRest /\ ~raced
    BY <1>1, <1>2 DEF CInv, ButtonOK
  <2>2. step = "client" \/ ~isEnrolled
    BY <1>1, <2>1
  <2>3. ~isEnrolled => slots[Active(prefs)] = Nil /\ Active(onDisk) = Active(prefs)
    BY DEF CInv, ButtonOK, Consistent, isEnrolled, hasKey, getKeyAlias, Active
  <2>4. step = "client" => \A d \in Calls : pc'[d] \notin EnrollSteps
    BY <1>2, <1>3, <2>1 DEF AtRest, EnrollSteps
  <2> QED BY <1>1, <1>2, <2>1, <2>2, <2>3, <2>4
          DEF CInv, ButtonOK, Consistent, Active, isEnrolled, hasKey, getKeyAlias
<1> QED BY <1>0, <1>2, <1>4, <1>5, <1>6, <1>7 DEF CInv

\* A step of one call.
LEMMA CallKeeps ==
  ASSUME CInv, Dependable, NEW c \in Calls, CallStep(c)
  PROVE  CInv'
<1>0. TInv'
  BY TInvStep DEF CInv, Next
<1>1. CASE c \notin alone
  BY <1>0, <1>1, Crowded DEF CInv, AloneOK, Clean, ButtonOK
<1>2. CASE c \in alone
  <2>0. \A d \in Calls \ {c} : pc[d] = "idle"
    BY <1>2, OnlyOne
  <2>1. alone = {c}
    BY <1>2, CallMoves DEF CInv, AloneOK, TInv, TypeOK
  <2>2. ~(scenario.keystoreCanFail /\ DeletePreviousFails(c))
    <3>1. scenario \in Scenarios
      BY DEF CInv, TInv, TypeOK
    <3>2. CASE ~scenario.keystoreCanFail
      BY <3>2
    <3>3. CASE scenario.kinds = {"connect"}
      BY <3>3 DEF CInv, ButtonOK, DeletePreviousFails, At, hasKey, getKeyAlias, Active,
                  EnrollSteps
    <3> QED BY <3>1, <3>2, <3>3 DEF Dependable
  <2>3. (Solo(c) /\ Kept(c) /\ Clean /\ ButtonOK)'
    BY <1>2, <2>2, SoloStep, SoloResume DEF CallStep
  <2>4. alone' = alone
    BY DEF CallStep, historyVars, OnEnrolled, OnPinged, OnFailed, Resume
  <2>5. \A d \in Calls \ {c} : pc'[d] = "idle"
    BY <2>0, CallMoves DEF CInv
  <2>6. AloneOK'
    BY <2>1, <2>4, <2>5 DEF AloneOK
  <2> QED BY <1>0, <2>1, <2>3, <2>4, <2>6 DEF CInv
<1> QED BY <1>1, <1>2

\* The process is killed, in a scenario that allows it.
LEMMA RestartKeeps == ASSUME CInv, Dependable, KillAndRestart PROVE CInv'
<1>0. TInv'
  BY TInvStep DEF CInv, Next
<1>1. scenario.kinds = {"connect"}
  BY DEF Dependable, KillAndRestart, CInv, TInv, TypeOK
<1>2. /\ ~raced /\ Consistent(prefs) /\ Consistent(onDisk)
  BY <1>1 DEF CInv, ButtonOK
<1>3. /\ prefs' = onDisk /\ UNCHANGED <<slots, onDisk, scenario, raced>>
      /\ \A c \in Calls : pc'[c] = "idle"
      /\ alone' = {} /\ protectedApi' = Nil /\ cachedClientChain' = Nil
  BY DEF KillAndRestart, KeystoreRestart, RepositoryRestart
<1>4. AloneOK'
  BY <1>3 DEF AloneOK
<1>5. Consistent(prefs)' /\ Consistent(onDisk)'
  BY <1>2, <1>3 DEF Consistent, Active
<1>6. Clean'
  BY <1>3, <1>5 DEF Clean, Settled, isEnrolled, hasKey, getKeyAlias, Consistent, Active
<1>7. ButtonOK'
  BY <1>2, <1>3, <1>5 DEF ButtonOK, AtRest, EnrollSteps, Active
<1> QED BY <1>0, <1>3, <1>4, <1>6, <1>7 DEF CInv

\* Every step keeps the strengthened invariant, given Dependable.
LEMMA CInvStep == ASSUME CInv, Dependable, [Next]_vars PROVE CInv'
<1>0. TInv'
  BY TInvStep DEF CInv
<1> DEFINE frame == <<scenario, slots, prefs, pc, alias, key, protectedApi,
                      cachedClientChain, kind, before, alone, raced>>
<1>1. CASE OnLocalNetworkPermissionDenied
  <2>1. UNCHANGED frame /\ UNCHANGED onDisk /\ uiState \notin Loading
    BY <1>1 DEF OnLocalNetworkPermissionDenied, keystoreVars, repositoryVars, historyVars
  <2> QED BY <1>0, <2>1
          DEF CInv, AloneOK, Solo, Kept, Clean, ButtonOK, AtRest, Settled, Current,
              UsableIdentity, Consistent, Active, isEnrolled, hasKey, getKeyAlias,
              inactiveAlias
<1>2. CASE WriteBehind /\ UNCHANGED <<repositoryVars, scenario, uiState, kind, historyVars>>
  <2>1. UNCHANGED frame /\ onDisk' = prefs /\ UNCHANGED uiState
    BY <1>2 DEF WriteBehind, repositoryVars, historyVars
  <2> QED BY <1>0, <2>1
          DEF CInv, AloneOK, Solo, Kept, Clean, ButtonOK, AtRest, Settled, Current,
              UsableIdentity, Consistent, Active, isEnrolled, hasKey, getKeyAlias,
              inactiveAlias
<1>3. CASE UNCHANGED vars
  <2>1. UNCHANGED frame /\ UNCHANGED onDisk /\ UNCHANGED uiState
    BY <1>3 DEF vars, keystoreVars, repositoryVars, historyVars
  <2> QED BY <1>0, <2>1
          DEF CInv, AloneOK, Solo, Kept, Clean, ButtonOK, AtRest, Settled, Current,
              UsableIdentity, Consistent, Active, isEnrolled, hasKey, getKeyAlias,
              inactiveAlias
<1> QED BY <1>1, <1>2, <1>3, LaunchStep, CallKeeps, RestartKeeps DEF Next

\* Hence it always holds.
LEMMA CInvAlways == Dependable => (Spec => []CInv)
<1> SUFFICES ASSUME Dependable PROVE Spec => []CInv
  OBVIOUS
<1>1. CInv /\ [Next]_vars => CInv'
  BY CInvStep
<1> QED BY <1>1, CInvInit, PTL DEF Spec

\* README.md:354, MainViewModel.kt:80.  Wherever the process is killed, the
\* Connect button never leaves an identity that it would not repair; nor does
\* any entry point while the process lives, unless calls overlapped.
THEOREM EnrolledUsable == Dependable => (Spec => []EnrolledIsUsable)
<1>1. CInv => EnrolledIsUsable
  BY DEF CInv, Clean, Settled, EnrolledIsUsable, AtRest, UsableIdentity, isEnrolled, hasKey
<1> QED BY <1>1, CInvAlways, PTL

\* SecurityRepository.kt:60-62.  The cached client is never behind the
\* enrolment that has just ended.
THEOREM CachedClientCurrent == Dependable => (Spec => []CachedClientIsCurrentUnlessRaced)
<1>1. CInv => CachedClientIsCurrentUnlessRaced
  BY DEF CInv, Clean, Current, CachedClientIsCurrentUnlessRaced
<1> QED BY <1>1, CInvAlways, PTL

\* SecurityRepository.kt:63-64.  A call that fails has cost nothing.
THEOREM FailureKeepsIdentity == Dependable => (Spec => []FailedCallKeepsIdentity)
<1>1. CInv => FailedCallKeepsIdentity
  BY DEF CInv, Kept, Harmless, FailedCallKeepsIdentity
<1> QED BY <1>1, CInvAlways, PTL
=============================================================================
