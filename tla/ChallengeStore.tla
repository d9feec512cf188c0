--------------------------- MODULE ChallengeStore ---------------------------
(***************************************************************************)
(* backend/internal/storage/challenge_store.go and the handler of          *)
(* GET /api/v1/enroll/challenge in front of it.                            *)
(*                                                                         *)
(* The store is a mutex and a map from challenge to expiry.  Each critical *)
(* section is one step here.  GenerateAndStoreChallenge is two: the nonce  *)
(* is drawn and its expiry computed before the lock is taken (lines 34-39),*)
(* so other requests, the clock and the cleanup worker may run in between. *)
(*                                                                         *)
(* Time is a counter.  time.Now() carries Go's monotonic reading, so it    *)
(* never runs backwards within one process.                                *)
(***************************************************************************)
EXTENDS Naturals, GoMap

CONSTANTS
    Nonces,             \* values crypto/rand may return
    ChallengeRequests,  \* slots for concurrent challenge requests
    ChallengeTTL,       \* cfg.ChallengeTTL, in ticks
    MaxTime             \* bound: the clock stops here

ASSUME TimeAssumption == ChallengeTTL \in Nat /\ MaxTime \in Nat

VARIABLES
    now,         \* the clock
    challenges,  \* memoryChallengeStore.challenges: nonce -> expiry
    drawn,       \* nonces crypto/rand has returned so far
    pending      \* GenerateAndStoreChallenge calls that have yet to take the lock

storeVars == <<now, challenges, drawn, pending>>

StoreTypeOK ==
    /\ now \in Nat
    /\ IsMapOf(challenges, Nonces, Nat)
    /\ drawn \subseteq Nonces
    /\ IsMapOf(pending, ChallengeRequests, [nonce : drawn, expiresAt : Nat])

StoreInit ==
    /\ now = 0
    /\ challenges = EmptyMap
    /\ drawn = {}
    /\ pending = EmptyMap

-----------------------------------------------------------------------------
(* Operations of the store                                                 *)

\* The answer VerifyAndConsumeChallenge gives.
ChallengeValidAtExpiry(n) == n \in DOMAIN challenges /\ now <= challenges[n]  \* mutant
ChallengeValid(n) == n \in DOMAIN challenges /\ now < challenges[n]

\* ... and what it does to the map, whatever the answer.
ConsumeChallenge(n) == challenges' = Delete(challenges, {n})

\* One tick of cleanupWorker.
CleanupWorkerReversed ==  \* mutant: keeps the dead ones
    /\ challenges' =
         Delete(challenges, {n \in DOMAIN challenges : now < challenges[n]})
    /\ UNCHANGED <<now, drawn, pending>>

CleanupWorker ==
    /\ challenges' =
         Delete(challenges, {n \in DOMAIN challenges : now > challenges[n]})
    /\ UNCHANGED <<now, drawn, pending>>

-----------------------------------------------------------------------------
(* GET /api/v1/enroll/challenge                                            *)

GenerateChallengeNegativeTTL(h, n) ==  \* mutant: the expiry lies in the past
    /\ h \notin DOMAIN pending
    /\ n \notin drawn
    /\ drawn' = drawn \cup {n}
    /\ pending' = Put(pending, h, [nonce |-> n, expiresAt |-> now - ChallengeTTL])
    /\ UNCHANGED <<now, challenges>>

\* Draw 32 random bytes, which never repeat, and compute the expiry.  When
\* rand.Read fails nothing is stored and the handler answers 500: a stutter.
GenerateChallenge(h, n) ==
    /\ h \notin DOMAIN pending
    /\ n \notin drawn
    /\ drawn' = drawn \cup {n}
    /\ pending' = Put(pending, h, [nonce |-> n, expiresAt |-> now + ChallengeTTL])
    /\ UNCHANGED <<now, challenges>>

\* Take the lock, store, unlock, answer 200.
StoreChallenge(h) ==
    /\ h \in DOMAIN pending
    /\ challenges' = Put(challenges, pending[h].nonce, pending[h].expiresAt)
    /\ pending' = Delete(pending, {h})
    /\ UNCHANGED <<now, drawn>>

-----------------------------------------------------------------------------

Tick ==
    /\ now < MaxTime
    /\ now' = now + 1
    /\ UNCHANGED <<challenges, drawn, pending>>

\* The process dies and a new one starts: the map and every request in
\* progress are gone.  Nothing of the store is persisted.
StoreRestart ==
    /\ challenges' = EmptyMap
    /\ pending' = EmptyMap
    /\ UNCHANGED <<now, drawn>>
=============================================================================
