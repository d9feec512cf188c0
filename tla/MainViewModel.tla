--------------------------- MODULE MainViewModel ---------------------------
(***************************************************************************)
(* The Android client: android/.../ui/MainViewModel.kt on the main thread  *)
(* over one SecurityRepository, the Connect button of MainView, process    *)
(* death and restart.  An activity finished and opened again in the same   *)
(* process, which gets another view model and another repository, is left  *)
(* out.                                                                    *)
(*                                                                         *)
(* The three entry points launch a coroutine each.  None waits for         *)
(* another; only the button looks at the state, and it starts connect.     *)
(*                                                                         *)
(* A behaviour is of one scenario: the calls that may overlap, the entry   *)
(* points in use, and what may go wrong.                                   *)
(***************************************************************************)
EXTENDS SecurityRepository

CONSTANT Scenarios

EntryPoints == {"enroll", "ping", "connect"}

ASSUME ClientAssumption ==
    \A s \in Scenarios : /\ s.calls \subseteq Calls
                         /\ s.kinds \subseteq EntryPoints
                         /\ s.canBeKilled \in BOOLEAN
                         /\ s.keystoreCanFail \in BOOLEAN

VARIABLES
    scenario,
    uiState,  \* the state shown
    kind,     \* the entry point each call came through
    before,   \* history: the usable identity when the call began, or Nil
    alone,    \* history: the calls no other call has overlapped with
    raced     \* history: calls have overlapped since the last enrolment that
              \* succeeded alone

historyVars == <<before, alone, raced>>

vars == <<keystoreVars, repositoryVars, scenario, uiState, kind, historyVars>>

Loading == {"Enrolling", "Authenticating"}

TypeOK ==
    /\ KeystoreTypeOK
    /\ RepositoryTypeOK
    /\ uiState \in Loading \cup {"Idle", "Enrolled", "Authenticated", "Error"}
    /\ scenario \in Scenarios
    /\ kind \in [Calls -> EntryPoints]
    /\ before \in [Calls -> DeviceKeys \cup {Nil}]
    /\ alone \subseteq Calls
    /\ raced \in BOOLEAN

\* The identity the device can authenticate with: a key in the active slot
\* and the certificate of that very key.
UsableIdentity ==
    IF isEnrolled /\ prefs.client_cert_pem = slots[getKeyAlias]
    THEN slots[getKeyAlias]
    ELSE Nil

checkEnrollmentStatus == IF isEnrolled THEN "Enrolled" ELSE "Idle"

Init ==
    /\ KeystoreInit
    /\ RepositoryInit
    /\ scenario \in Scenarios
    /\ uiState = checkEnrollmentStatus
    /\ kind = [c \in Calls |-> "connect"]
    /\ before = [c \in Calls |-> Nil]
    /\ alone = {}
    /\ raced = FALSE

AtRest == \A c \in Calls : pc[c] = "idle"

-----------------------------------------------------------------------------

Launch(c, entry, step, shown) ==
    /\ c \in scenario.calls /\ entry \in scenario.kinds
    /\ At(c, "idle")
    /\ Goto(c, step)
    /\ kind' = [kind EXCEPT ![c] = entry]
    /\ before' = [before EXCEPT ![c] = UsableIdentity]
    /\ alone' = IF AtRest THEN {c} ELSE {}
    /\ raced' = (raced \/ ~AtRest)
    /\ uiState' = shown
    /\ UNCHANGED <<keystoreVars, alias, key, protectedApi, cachedClientChain,
                   clientLock, scenario>>

Enroll(c) == Launch(c, "enroll", "invalidate", "Enrolling")

PingProtected(c) == Launch(c, "ping", "client", "Authenticating")

\* The button, which is disabled while uiState is loading: enrol if needed,
\* then ping.
Connect(c) ==
    /\ uiState \notin Loading
    /\ IF isEnrolled
       THEN Launch(c, "connect", "client", "Authenticating")
       ELSE Launch(c, "connect", "invalidate", "Enrolling")

\* ACCESS_LOCAL_NETWORK was denied when the button asked for it.
OnLocalNetworkPermissionDenied ==
    /\ uiState \notin Loading
    /\ uiState' = "Error"
    /\ UNCHANGED <<keystoreVars, repositoryVars, scenario, kind, historyVars>>

\* The repository has returned, and the coroutine resumes on the main thread.
Resume(c, outcome, step, shown) ==
    /\ At(c, outcome)
    /\ pc' = [pc EXCEPT ![c] = step]
    /\ alias' = [alias EXCEPT ![c] = Nil]
    /\ key' = [key EXCEPT ![c] = Nil]
    /\ uiState' = shown
    /\ UNCHANGED <<keystoreVars, protectedApi, cachedClientChain, clientLock,
                   scenario, kind, before, alone>>

OnEnrolled(c) ==
    /\ IF kind[c] = "connect"
       THEN Resume(c, "enrolled", "client", "Authenticating")
       ELSE Resume(c, "enrolled", "idle", "Enrolled")
    /\ raced' = (raced /\ c \notin alone)

OnPinged(c) == Resume(c, "pinged", "idle", "Authenticated") /\ UNCHANGED raced

OnFailedSilently(c) ==  \* mutant: the state shown stays
    Resume(c, "failed", "idle", uiState) /\ UNCHANGED raced

OnFailed(c) == Resume(c, "failed", "idle", "Error") /\ UNCHANGED raced

\* The process is killed, and started again with a new ViewModel, whose init
\* block shows the enrolment status.
KillAndRestart ==
    /\ scenario.canBeKilled
    /\ KeystoreRestart
    /\ RepositoryRestart
    /\ uiState' = checkEnrollmentStatus'
    /\ before' = [c \in Calls |-> Nil]
    /\ alone' = {}
    /\ UNCHANGED <<scenario, kind, raced>>

CallStep(c) ==
    \/ /\ \/ RepositoryStep(c)
          \/ scenario.keystoreCanFail /\ DeletePreviousFails(c)
       /\ UNCHANGED <<scenario, uiState, kind, historyVars>>
    \/ OnEnrolled(c)
    \/ OnPinged(c)
    \/ OnFailed(c)

Next ==
    \/ \E c \in Calls :
         \/ Enroll(c)
         \/ PingProtected(c)
         \/ Connect(c)
         \/ CallStep(c)
    \/ OnLocalNetworkPermissionDenied
    \/ /\ WriteBehind
       /\ UNCHANGED <<repositoryVars, scenario, uiState, kind, historyVars>>
    \/ KillAndRestart

\* The dispatcher runs every coroutine, and OkHttp's timeouts (10 s each by
\* default) end every request.
Spec == Init /\ [][Next]_vars /\ \A c \in Calls : WF_vars(CallStep(c))

-----------------------------------------------------------------------------

\* README.md:354, MainViewModel.kt:80.  connect enrols only when isEnrolled is
\* false, so whenever nothing is in progress isEnrolled must be true only of
\* a device that can authenticate: its certificate is that of the key in the
\* active slot.  Otherwise no further tap would ever repair it.  Overlapping
\* calls may break it, but one enrolment that succeeds alone repairs whatever
\* they left.
EnrolledIsUsable ==
    AtRest /\ isEnrolled /\ ~raced => UsableIdentity # Nil

\* SecurityRepository.kt:60-62, 191-193.  Once an enrolment is over, the
\* cached client never presents a superseded certificate or key slot, unless
\* calls have overlapped since an enrolment last succeeded alone ...
CachedClientIsCurrentUnlessRaced ==
    AtRest /\ isEnrolled /\ protectedApi # Nil /\ ~raced =>
        protectedApi = [alias |-> getKeyAlias, chain |-> prefs.client_cert_pem]

\* ... and without the exception, as the comment has it.
CachedClientIsCurrent ==
    AtRest /\ isEnrolled /\ protectedApi # Nil =>
        protectedApi = [alias |-> getKeyAlias, chain |-> prefs.client_cert_pem]

\* SecurityRepository.kt:63-64.  On any failure of a call that nothing
\* overlapped, the identity the device could use before is still the one it
\* can use.
FailedCallKeepsIdentity ==
    \A c \in alone :
        pc[c] = "failed" /\ before[c] # Nil => UsableIdentity = before[c]

\* MainView.kt:56, 99-100.  The button is not disabled for ever.
LoadingEnds == uiState \in Loading ~> uiState \notin Loading
=============================================================================
