# mtls-authentication-poc in TLA+

A formal model of the hardware-backed mTLS enrolment system: the Go backend
(`src/backend`) that verifies Android key attestation and issues client
certificates, and the Android app (`src/android`) that enrols and then
authenticates. Every definition is translated from the source; `PROJECT.json`
maps each one to its lines.

## The system

A device asks the backend for a single-use **challenge**, generates a hardware
key whose attestation contains it, and **enrols**: the backend consumes the
challenge, verifies the attestation chain, refuses revoked identities, signs a
certificate for the identity it derives from the key, and records it. From then
on the device **pings** over mTLS, and a middleware compares the presented
certificate with the registry.

| Component | State | Operations | Talks to |
|---|---|---|---|
| Challenge store (`storage/challenge_store.go`) | map nonce → expiry, under a mutex | generate and store, verify and consume, cleanup worker | challenge and enrolment handlers |
| Device registry (`storage/device_repo.go`) | identity → record, revoked serials, under one RWMutex | register, get, revoke device, revoke serial, two queries | enrolment handler, middleware, operator |
| Enrolment handler (`handlers/enroll_handler.go`) | one goroutine per request | POST /api/v1/enroll | store, verifier, registry, CA |
| CA (`ca/signer.go`) | CA key | sign a CSR | enrolment handler |
| Attestation verifier (`attestation/verifier.go`, `types.go`) | policy, root pool | a verdict on a chain | revocation client |
| Revocation client (`attestation/revocation.go`) | cached status list and its age, mutex held across the fetch | is a key revoked | the list's HTTP server |
| mTLS middleware (`middleware/mtls_auth.go`) and ping handler | one goroutine per request | GET /api/v1/protected/ping | registry |
| Server (`cmd/server/main.go`) | certificates read at start, two listeners, the quit and error channels | load, listen, wait, shut down both servers under one deadline | all of the above |
| Configuration (`config/config.go`) | none after start | `LoadConfig` | server, verifier's policy |
| Bootstrap (`ca/bootstrap.go`, `cmd/certgen`) | four certificate files, the Android project's copy of the CA | create if all are missing, refuse a partial set, delete and recreate, copy | file system |
| Keystore manager (`KeystoreManager.kt`) | two key slots, preferences | generate, activate, discard | AndroidKeyStore, SharedPreferences |
| Security repository (`SecurityRepository.kt`, the two APIs) | cached mTLS client and chain, under `clientLock` | enroll, pingProtected | keystore manager, backend |
| View model and view (`MainViewModel.kt`, `MainView.kt`) | `uiState` | connect, enroll, pingProtected | repository |

What is hard to test here, and what the properties are for: requests that
interleave between two critical sections of the registry or the store; the time
between a check and the write it justifies; a process killed between two steps,
on the server (all state in memory, certificates survive) and on the phone
(keystore durable at once, preferences written behind); a failing step after a
certificate was signed; a cache that outlives what it was built from; a mutex
held across a network request; a directory of files that two programs write
without a lock; an answer that is lost, or a request that arrives after the
client has given it up, so that client and backend could disagree for good.
`PROJECT.json` lists each at its line under `hazards`.

## Modules

| Module | Models | Correspondence |
|---|---|---|
| `GoMap` | a Go map | a function over the present keys |
| `ChallengeStore` | store and challenge endpoint | one step per critical section; drawing the nonce (before the lock) and storing it are two steps |
| `NonceLedger` | *abstract*: what the store promises | fresh → drawn → valid → spent (a lifetime of zero is over at once) |
| `ChallengeSystem` | the store closed with its callers | refinement mapping `NonceStatus` to `NonceLedger` |
| `DeviceRepo` | the registry | one operator per method |
| `AttestationVerifier` | the verdict | a pure operator of policy and chain, in the order of the code's steps |
| `Config` | the variables that decide who may enrol | `LoadConfig` as an operator of the environment, and the policy `main` makes of it |
| `ConfiguredVerifier` | one verdict of a server started in some environment | the verdict under the configured policy, for any set of environments and chains |
| `EnrollHandler` | the enrolment handler with `SignCSR` | program counter per request, named for the next shared-state call |
| `MtlsAuth` | the middleware and the ping handler | the three registry reads are three steps; the record is a local copy |
| `Backend` | the process: all of the above, an operator who revokes, restarts | composition over shared state |
| `CertificateLedger` | *abstract*: what the backend promises of its certificates | one current certificate per identity, each current once; refined by `Backend` and by the backend of `EndToEnd` |
| `RevocationStatusClient` | the cached list and the verification loop | lock, fetch, answer, timeout are steps; time as capped ages |
| `KeystoreManager` | key slots and preferences | `prefs` in memory, `onDisk` as last written |
| `SecurityRepository` | enroll and pingProtected | program counter per call |
| `MainViewModel` | the client: entry points, button, process death | composition over one repository, one view model per process; a behaviour is of one *scenario*: which calls, which entry points, which faults |
| `EndToEnd` | one device and the backend | `MainViewModel` with `DeviceRepo` at the other end; a client step whose outcome is the backend's takes the backend's outcome; `client` is the mTLS client a call took from the cache, which it keeps when another call invalidates the cache (`SecurityRepository.kt:147-152`) |
| `CertificateFiles` | the four files, bootstrap and certgen | one step per file operation, truncation and content apart; program counter per process |
| `ServerProcess` | the server from start to graceful shutdown | `CertificateFiles` plus file-by-file loading, a goroutine per listener, `main`'s select and its two `Shutdown` calls, kills |
| `StoreTheorems`, `BackendProofs`, `LedgerProofs`, `RevocationProofs`, `ServerProofs`, `ClientProofs`, `EndToEndProofs`, `VerifierProofs` | proofs | see below |
| `MC*` | instances for TLC | bodies, policies, chains of the instance |

Operators marked `\* mutant` are deliberate mistakes, used to show that a
property notices them. No specification refers to them.

### Abstractions

- SHA-256 is injective, so an identity is its key. Nonces and serials are
  random and never repeat: a draw takes an unused value. An instance with *n*
  serials therefore sees at most *n* certificates signed.
- ASN.1 and X.509 are reduced to "absent, malformed or a value" and to whether
  a chain verifies. A request body is a record of what the handler can tell
  about it (`wellFormed` stands for method, JSON, label and CSR syntax).
- Requests answered with an error before they touch shared state are not
  steps; nor is a request for a challenge whose random draw fails.
- Certificate expiry is checked in the TLS handshake only, and a connection
  may outlive it, so the middleware may see any certificate ever signed.
  `OtherCerts` adds certificates of the CA that no enrolment issued.
- Within `Backend` the revocation list's answer is nondeterministic;
  `RevocationStatusClient` models how it comes about. Listed statuses other
  than REVOKED count as not listed, as in the code.
- The writes of the in-memory registry never fail; the handler has code for a
  registry whose writes do. `RepoWritesCanFail = TRUE` exercises it:
  `RegisterDevice` and the `RevokeSerial` that follows may each return an error,
  independently.
- The operator calls `RevokeDevice` and `RevokeSerial` at any time. In this
  repository only tests call them; the interface is there for it.
- Restart keeps what survives a process: certificates (`issued`), drawn nonces
  (as randomness) and the clock.
- On the client a certificate is named by the key it certifies. The CA's
  certificate and the security level, which no decision depends on, are left
  out. `deleteKey` has no caller. `edit { }` is `apply()`: memory at once, disk
  later (`WriteBehind`). Cancelling a coroutine has the effect of a failed POST.
- A key the key store generates is one it never held before, and the pool of
  keys is finite: an enrolment with no key left fails at generation.
- `Ping` may succeed with a superseded client, because a kept-alive connection
  needs no handshake. In `EndToEnd` it succeeds exactly when the handshake and
  the registry agree.
- Building the mTLS client may throw at any time, for whatever reason
  (`BuildClientFails`). That it must throw when what is stored does not parse is
  left out: only certificates that have parsed are saved.
- There is one view model, over one repository, in a process. Neither is scoped
  in `AppGraph.kt:15-19`: an activity that is finished and opened again in the
  same process gets new ones, with a lock, a cached client and an enabled button
  of their own, while a cancelled call of the old one may still be blocked in a
  request. That overlap is not modelled, and what is said of the Connect button
  is said of one view model.
- In `EndToEnd` an enrolment is one step of the backend, and so is the
  middleware's decision. For the decision this rests on
  `AuthenticationIsAtomic`. For the enrolment it is an abstraction that nothing
  here proves sound: `Backend` and `EndToEnd` both implement
  `CertificateLedger`, but the ledger promises only that a certificate is
  current once, so this is a check that the one-step enrolment is sane and not
  that it stands for the other. A revocation between an enrolment's check and
  its write (`backend_race`) and a registry whose writes fail do not occur in
  `EndToEnd`; a key is enrolled once only, so no enrolment repeats. A challenge
  is known by the call that holds it; its expiry and the revocation
  list are among the backend's reasons to refuse. `lapsed` stands for a
  certificate that has expired as well as for a replaced CA.
- The operator of `CertificateFiles` deletes files between runs only, as the
  error message asks. The server's check of the four files is one step: no
  property tells apart the four `Stat` calls, because what can come between
  them can come between the check and the first write.
- A generation is what one bootstrap makes. A file of it either parses or is
  empty (a write killed after the truncation); a certificate and a key match
  if they are of one generation. Two reads do not parse what they read and take
  an empty file: the third of the server's (`main.go:45-49`, the CA it sends
  out with every certificate) and that of certgen's copy.
- `ServerProcess` has at most one request in flight per port, and a listener
  may fail at any time. `net/http` is external: `Shutdown` closes the listener,
  waits for the requests in flight, and returns at the deadline.
- The package name a server expects defaults to the app's own, so an
  environment cannot turn the package check off; the parameters of
  `ServerPolicy` are what `main` passes.

## Runs

| Run | Question | Bounds | Result |
|---|---|---|---|
| `challenge_system` | does the store implement the ledger, and drain? | 2 nonces, 2 requests, 2 verifiers, TTL 2, time to 4 | holds, 2,677 states |
| `backend_strict` | the backend's promises under the strict policy, and does it implement the certificate ledger? | 2 nonces, 2 serials, 2 keys, 2 enrolments, 1 protected request, TTL 1, time to 2; genuine bodies and bodies faulty in one respect | holds, 669,085 states (symmetry) |
| `backend_dev` | ... under the development policy, where a body may carry no challenge | 1 nonce, 1 key, 2 serials, 2 enrolments, time to 1; emulator bodies | holds, 1,132,146 states (symmetry) |
| `backend_race` | does a revoked identity stay revoked? | as `backend_strict`, genuine bodies | **violated** |
| `attestation_verifier` | what may sway the verdict? | every key description over small lists, under servers configured by 72 environments | holds, 997,272 states |
| `patch_level` | does a YYYYMMDD floor admit patched devices? | 60 months by 60 floors | **violated** |
| `revocation_client` | bounded staleness, no regress, termination | 2 keys, 2 verifications with chains of up to 2 keys, TTL 2, timeout 1 | holds, 16,742 states |
| `client` | the app's promises: the button, killed at any point on a failing keystore; every entry point, one call at a time; two overlapping calls and what repairs them | 3 keys, 2 calls | holds, 1,260,021 states |
| `client_keystore_fails` | ... on a keystore whose deletion may fail | 3 keys, 1 call | **violated** |
| `client_concurrent` | a ping during an enrolment | 3 keys, 2 calls | **violated** |
| `end_to_end` | do device and backend ever disagree, at rest or in between, and does the device get in again once the faults stop? | 4 keys, 1 call, 3 faults | holds, 465,303 states |
| `server` | whose certificates does a server serve with, and does it stop as it should? | 1 server, 1 certgen, 2 bootstraps, 2 ports | holds, 1,244,878 states |

Why the bounds are enough: each hazard involves at most two enrolments (the
one that overtakes and the one overtaken) and one observer, one identity with
two certificates, and one nonce used twice; the third device key is the one
generated after a re-enrolment over an existing identity. TTL and time are long
enough for a challenge to expire and be cleaned up while requests are in
progress. `end_to_end` has one key more than faults, so that the device can
always enrol once more; three faults are enough for a lost answer, a crash on
one side and a crash on the other to meet in one enrolment. `server` has two
bootstraps, the least with which generations can mix, and one process of each
program, the least that can overlap. The clock's end (`MaxTime`), the pools of
keys and serials, `MaxFaults` and `MaxGenerations` are the only bounds in
guards. Deadlock is checked where the system cannot stop
(`revocation_client`); elsewhere the clock, serials, keys or
bootstraps run out.

Properties worth a reader's time:

- `ImplementsLedger`: a challenge is accepted at most once, never at or after
  expiry or after a restart, and never refused while it is live.
- `AuthenticationIsAtomic`: the middleware's three reads, the last comparing a
  stale copy, still amount to one decision taken at one moment.
- `UntrackedOnlyIfBothWritesFail`, `OneCertificatePerChallenge`: what has been
  signed is recorded, revoked or about to be, unless the registry refused both
  to record and to revoke it, and then it still lets nobody in; and a challenge
  yields one certificate.
- `RevocationHoldsUnlessRaced`: the exact condition under which a revocation
  sticks; without the exception it is `RevokedIdentityStaysRevoked`, violated.
- `ImplementsCertificateLedger`: seen from outside there are only the
  identities and the one certificate each is let in with. None returns once it
  was superseded, revoked (even between `SignCSR` and `RegisterDevice`), given
  up or forgotten in a restart, although a restart empties the very list that
  kept it out.
- `SoftwareListCannotSway`, `StricterAcceptsLess`: non-interference of the
  software-enforced list, and monotonicity of the verdict in the policy.
- `OverdueKeyNeverCleared`, `CacheNeverRegresses`, `VerificationEnds`.
- `EnrolledIsUsable`: connect enrols only if `isEnrolled` is false, so a torn
  identity would never be repaired; the Connect button of one view model cannot
  tear it, wherever the process is killed.
  Overlapping calls can, and the next enrolment that succeeds alone repairs
  whatever they left.
- `FailedCallKeepsIdentity`, `CachedClientIsCurrentUnlessRaced`: the contract
  in the comments of `SecurityRepository`, for calls that do not overlap.
- `EnrolledIsRegistered`: lost 201s, requests handled late and crashes never
  make device and registry disagree about the key in the active slot.
- `HeldIsRegistered`: the same of every certificate anywhere in the app, at
  every moment and whatever overlaps: in the preferences, as they are on disk,
  in the cache, in the mTLS client a call has taken. None is one the registry
  was not made to stand for.
- `AuthenticatesOrTurnedAway`: when the faults stop, tapping the button gets
  the device authenticated again and again, except in one state. `connect`
  enrols only when `isEnrolled` is false (`MainViewModel.kt:80`), so a device
  whose certificate has expired, or that the backend has revoked or forgotten
  in a restart, is refused on every tap; the app has no other button. The
  property says that this is the only dead end.
- `ServesOneGeneration`: CA certificate, CA key and TLS pair a server serves
  with are of one bootstrap, whatever was killed between two writes before.
  `LoadCA` does not compare key and certificate, so nothing at load would
  notice; what protects the set is that a partial one is refused and an empty
  file does not parse. Two bootstraps that overlap do mix their files, because
  nothing locks the directory: the exception `overlapped` in the property.
- `ExistingFilesAreKept`: a bootstrap overwrites nothing it did not find
  missing, not even a file a killed bootstrap left empty.
- `DebugCAIsCurrent`: once certgen has reported success, the debug build
  trusts the CA in the directory, although the copy is made from what is read
  back from it. A certgen killed before the copy leaves the old one, and the next
  run without `-force` finds the four files and does nothing; `make certgen`
  always forces. The property speaks of runs that ended and says nothing of
  killed ones.
- `NoRequestCutEarly`, `StopsWhenToldOrBroken`: the graceful shutdown of two
  servers under one 5 s context, one after the other, with signals that come
  before a listener's goroutine has run and listeners that fail.
- `BarWithoutDevMode`: however the variables are misspelt, unparsable or
  missing, without `DEV_MODE` an accepted key is in secure hardware, of a locked
  and verified device, under a trusted root, for the configured app, and not
  revoked unless the check was switched off by name; and it meets the OS and
  patch floors *that parse*. A misspelt floor is silently none
  (`config.go:90-97`), so misspelling does lower that part of the bar.

### Fairness

- `ChallengeSystem`: weak fairness of the cleanup worker, a ticker goroutine
  that lives as long as the process, and of the clock. Nothing is assumed of
  requests.
- `RevocationStatusClient`: weak fairness of the clock and of the HTTP client's
  timeout; strong fairness of a goroutine waiting for the mutex, because
  `sync.Mutex` hands itself to a starved waiter. The list server may be silent.
- `MainViewModel`: weak fairness of each call's steps: the dispatcher runs
  every coroutine, and OkHttp's default timeouts end every request.
- `EndToEnd`: the same; weak fairness of the backend for each request it has
  received; and of the tap on the button, for a user who keeps trying. Faults
  are bounded by `MaxFaults`, which is how "once the faults stop" is said.
- `ServerProcess`: weak fairness of the main goroutine and of the timer of its
  shutdown context. Nothing is assumed of requests, listeners or signals.
- `Backend` states safety only and assumes none.

### Disagreements found

1. `backend_race`: a revocation between the check (`enroll_handler.go:188`) and
   the write (`:214`) is undone by the write, contrary to the comment at
   `:186-187`.
2. `patch_level`: tag 706 is YYYYMM, the floor is documented as YYYYMMDD
   (`types.go:117-118`, `config.go:29-30`); such a floor refuses every device.
3. `client_keystore_fails`: if `deleteEntry` throws in `activatePendingKey`,
   the certificate in the preferences is already the new one; the previous
   identity does not remain active (`SecurityRepository.kt:63-64`).
4. `client_concurrent`: a ping that overlaps an enrolment caches a client that
   presents the superseded slot from then on (`SecurityRepository.kt:60-62`,
   `192-193`). The Connect button, disabled while loading, does not overlap
   them; the repository and the view model allow it.

Two more have no run of their own: they are the exceptions that properties of
the passing runs make.

- `UntrackedOnlyIfBothWritesFail`: the error of `RevokeSerial` is discarded
  (`enroll_handler.go:215`), so a registry that refuses both writes leaves a
  signed certificate neither recorded nor revoked, contrary to the comment at
  `:203-205`; the log says it was revoked. The in-memory registry never fails.
- `ExistingFilesAreKept`, `ServesOneGeneration`: the bootstrap looks for the
  files (`bootstrap.go:51-56`) and then writes them (from `:85`); of two
  processes that found the directory empty, the second overwrites the files of
  the first, although it "refuses to overwrite any existing file" (`:36-37`).

## Proofs

`BackendProofs` proves, for any sets of requests, keys, nonces and serials,
any bodies, any policy and any TTL, from `TimeAssumption` and
`EnrollAssumption` alone:

- `TypeCorrect`: `Spec => []TypeOK`. `TypeOK` is inductive; one lemma per
  module shows that its operations keep its part, from the facts about maps in
  `StoreTheorems`.
- `AuthenticationAtomic`: `Spec => []AuthenticationIsAtomic`. Not inductive as
  it stands. The strengthening adds `RevokedListed` (a flagged record's serial
  is listed, because `RevokeDevice` does both in one critical section),
  `CopyWasAuthorized` (a request between its reads whose copy of the record
  matches its certificate, and whose serial is unlisted, was authorized when
  `GetDevice` made the copy) and `KeyBound` (an accepted identity is the
  fingerprint of the certificate's key). Serials are never unlisted while the
  process lives, so what was authorized at the copy and later revoked is caught
  by the last read.
- `ChallengeSingleUse`: `Spec => []OneCertificatePerChallenge`. The
  strengthening assigns each consumed nonce an owner: a nonce is stored, held
  by one enrolment past its consumption, or bound in one certificate, and never
  two of these; a nonce that is spent stays spent (`SpentStable`), even when
  its challenge request has yet to take the store's lock.

- `CertificatesTracked`: `Spec => []UntrackedOnlyIfBothWritesFail`. The
  strengthening: a request that holds a serial is at `register` or `revoke`
  (`SerialsHeld`); those two steps are left by
  writing the record, by revoking the serial or by giving it up, which
  `abandoned` remembers (`SignedAccountedFor`); and every record's serial was
  handed out (`RecordsGranted`), so that one given up is nobody's current one.
- `RevocationHolds`: `Spec => []RevocationHoldsUnlessRaced`, strengthened to
  "a revoked identity without a race has a flagged record and no enrolment past
  its check". The flag refuses every later enrolment at the check, so nothing
  can overwrite the record.
- `BackendImplementsLedger`: `Spec => ImplementsCertificateLedger`, one lemma
  per operation that says which step of the ledger it is, or none. The
  invariant is `InOnePlace`: a serial is held by one enrolment or is in one
  identity's record, never both, so registering it or listing it concerns no
  other certificate. `NoCertificateReturns` spells out what the refinement is
  for, as an action property: a used certificate that lets no one in never
  lets anyone in again.

`LedgerProofs`, from `TimeAssumption` alone:

- `TypeCorrect`, and `StoreImplementsLedger`: `Spec => ImplementsLedger`, the
  refinement the run `challenge_system` checks, for any number of nonces,
  requests and verifiers. Each step of the store is shown to be a step of the
  ledger or a stutter under `NonceStatus`. It needs `Separate`: a nonce that a
  request has drawn is neither stored nor in another request's hands, so that
  storing one nonce changes the status of no other.

`RevocationProofs`, from `RevocationAssumption`:

- `TypeCorrect`.
- `OverdueNeverCleared`: `Spec => []OverdueKeyNeverCleared`. The strengthening
  bounds what the list in each place may lack: an answer on its way, only what
  was listed since its request was sent (`AnswerIsRecent`); a cache within its
  lifetime, only what was listed since it was filled and a fetch before that
  (`CacheIsRecent`); and a key is passed only if it was not overdue when the
  verification began (`PassedNotOverdue`, `OverdueStays`).
- `CacheMonotone`: `Spec => CacheNeverRegresses`, from `Exclusive`: the mutex
  is held across the fetch, so the cache an answer replaces is the one its
  request saw, and the published list only grows.

`ServerProofs`, from `FilesAssumption`, for any number of servers and certgens:

- `TypeCorrect`, from `TInv`, which says what a process holds at each point of
  its program (`ControlOK`): a loop index within its loop, seven files read
  before it serves, of which all but the third have parsed.
- `ShutdownGraceful`: `Spec => []NoRequestCutEarly`. A server past the first
  `Shutdown` without the deadline has no request on that port, and a closed
  listener receives none; a goroutine that comes late finds the server closed.
- `ServedGenerationIsOne`: `Spec => []ServesOneGeneration`, and `FilesKept`:
  `Spec => ExistingFilesAreKept`. While no two processes have overlapped, all
  files with content are of one generation, which is that of the process
  writing or loading them (`OneSet`), and a bootstrap finds what it has yet to
  write absent and what it is writing empty (`NothingInTheWay`). `overlapped`
  is never reset.
- `DebugBuildTrustsCA`: `OneCertgen => (Spec => []DebugCAIsCurrent)`, with any
  number of servers bootstrapping beside the one certgen, overlapping or not.
  The invariant: generations are numbered and each has one author
  (`OwnGenerations`); a CA not yet in `ca.crt` has been seen by nobody
  (`FreshCA`); and from certgen's removal of `ca.crt` on, what is there is no
  CA that a certgen has reported (`Superseded`). `OneCertgen` says that there
  is one certgen slot, restarted at will: of two that overlap, the slower may
  put the older CA back, and the promise is false.

`ClientProofs`, from the assumptions that `Nil` is no key, alias or call, for
any keys, calls and scenarios:

- `TypeCorrect`.
- `EnrolledUsable`, `CachedClientCurrent`, `FailureKeepsIdentity`: the three
  promises of the run `client`, each of the form `Dependable => (Spec => []P)`.
  `Dependable` says of each scenario that only the button is used, or that the
  process is not killed and the keystore deletes what it is told to. Without it
  the promises are false: `client_keystore_fails` shows one way. The invariant
  has four parts: what an undisturbed call holds at each step, whatever mess it
  started from (`Solo`), and that it keeps the identity it began with unless it
  replaces it (`Kept`); what is true while nothing has overlapped (`Clean`);
  and that with the button alone the preferences in memory *and* on disk, to
  which a kill returns, agree with the key store at every moment (`ButtonOK`).

`EndToEndProofs`, from `ClientProofs`' assumptions and `EndToEndAssumption`, for
any keys, calls, scenarios and number of faults. Every step of the system is a
step of the client or none of the client's, so `ClientProofs`' invariants hold
here too.

- `SystemTypeCorrect`, and `HeldRegistered`: `SystemSpec => []HeldIsRegistered`,
  with no hypothesis. The invariant `EInv` says: a call past key generation has
  a key no other call has (`OwnKeys`); a key is sent once, and its certificate
  saved only when granted (`AnswersOK`); every certificate the app holds was
  granted (`HeldGranted`); a granted key is in the registry unless a restart
  dropped it (`GrantsKept`); and a device there has its own key's certificate
  and is flagged only if that is listed (`RegistryOK`).
- `EnrolledRegisteredUnlessRaced`: `Dependable => (SystemSpec => [](~raced =>
  EnrolledIsRegistered))`. What `ClientProofs` knows of a client at rest
  (slot, key and certificate agree) meets what `HeldRegistered` knows of the
  certificate. `raced` says that calls have overlapped since an enrolment last
  succeeded alone: then the active slot may be empty, which `client` shows too.
- `EnrolledRegistered`: `EnrolledIsRegistered` without that exception, under
  `OneAtATime` (of each scenario: the button alone, which is disabled while a
  call is in progress, or one call). The instance of `end_to_end` satisfies
  both hypotheses.
- `SystemImplementsLedger`: the one-step backend of `EndToEnd` refines
  `CertificateLedger`, from `EInv` and "whoever is in the registry was granted
  its certificate".

`VerifierProofs`, from `UnreadableAssumption` (a value is told from one that is
absent or does not parse) and `VerifierAssumption` (environments and chains
have their shapes, and the expected package is not empty), for any environments
and any chains:

- `SoftwareListIgnored`, `StricterLess`, `BarHolds`: `Spec => []P` of the three
  properties of `attestation_verifier`, the floors of the last included
  (`FloorEnforced`). The state machine is one verdict; the
  work is in the lemmas about the verdict's parts: what each of `findRootOfTrust`,
  `extractOSInfo` and `verifyApplicationID` reads, and when the stricter of two
  policies failing to find a tag makes no difference to the lenient one.
  `PolicyOf` says what any environment can make of a policy: strict in every
  field but the revocation check, or lenient in every field.

Only model-checked: liveness (`StoreDrains`, `VerificationEnds`, `LoadingEnds`,
`AuthenticatesOrTurnedAway`, `StopsWhenToldOrBroken`) and the fairness it needs,
which are out of the proof system's reach. Every other property of a passing
run is the subject of a theorem. The client's and `EnrolledIsRegistered` carry
the hypotheses named above, because without them they are false.

## Not modelled, and the plan

Left out for good: logging and TLS inspectors (no state), the embedded roots
(data), PEM and BouncyCastle plumbing, the fields and SAN addresses of the
generated certificates, Compose layout, dependency injection. Of the
configuration, ports, paths, lifetimes and the list's URL: no decision modelled
depends on them. `deleteKey` has no caller.

What could follow:

1. A middleware that appears in `CertificateLedger`: an abstract request that
   is let in exactly when its certificate was current at a moment of it, so
   that `AuthenticationIsAtomic` becomes part of the refinement.
2. The client as a refinement of what `EndToEnd` needs of it, so that its own
   proofs no longer look into the steps of a call.
3. Two certgens over one directory, and the exact condition under which
   `DebugCAIsCurrent` survives them.
4. A second view model in the same process, with a repository of its own.
