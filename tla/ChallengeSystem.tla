-------------------------- MODULE ChallengeSystem --------------------------
(***************************************************************************)
(* The challenge store with its callers: challenge handlers that fill it,  *)
(* enrolment handlers that verify and consume, the cleanup worker, the     *)
(* clock and restarts of the process.  It is shown to implement            *)
(* NonceLedger.                                                            *)
(***************************************************************************)
EXTENDS ChallengeStore

CONSTANT Verifiers  \* concurrent callers of VerifyAndConsumeChallenge

VARIABLE answer  \* the last answer each verifier got, and for which nonce

vars == <<storeVars, answer>>

NoAnswer == [nonce |-> {}, ok |-> FALSE]

TypeOK ==
    /\ StoreTypeOK
    /\ answer \in [Verifiers ->
                     [nonce : {{}} \cup {{n} : n \in Nonces}, ok : BOOLEAN]]

Init == StoreInit /\ answer = [v \in Verifiers |-> NoAnswer]

\* VerifyAndConsumeChallenge, called by an enrolment handler with the nonce
\* of an attestation chain.
VerifyAndConsumeChallenge(v, n) ==
    /\ answer' = [answer EXCEPT
                    ![v] = [nonce |-> {n}, ok |-> ChallengeValid(n)]]
    /\ ConsumeChallenge(n)
    /\ UNCHANGED <<now, drawn, pending>>

\* Bound: challenges are drawn only while their expiry lies before MaxTime,
\* so that every one of them can expire.
Generate(h, n) == now + ChallengeTTL < MaxTime /\ GenerateChallenge(h, n)

Next ==
    \/ \E h \in ChallengeRequests, n \in Nonces :
         Generate(h, n) /\ UNCHANGED answer
    \/ \E h \in ChallengeRequests : StoreChallenge(h) /\ UNCHANGED answer
    \/ \E v \in Verifiers, n \in Nonces : VerifyAndConsumeChallenge(v, n)
    \/ CleanupWorker /\ UNCHANGED answer
    \/ Tick /\ UNCHANGED answer
    \/ StoreRestart /\ UNCHANGED answer

\* The ticker goroutine runs for the life of the process and time passes.
Fairness ==
    /\ WF_vars(CleanupWorker /\ UNCHANGED answer)
    /\ WF_vars(Tick /\ UNCHANGED answer)

Spec == Init /\ [][Next]_vars /\ Fairness

-----------------------------------------------------------------------------

\* The abstract status of a nonce.  A nonce whose deadline has passed is
\* spent whether or not the cleanup worker has reached it, and even if the
\* challenge handler has yet to store it.
NonceStatus(n) ==
    IF n \notin drawn THEN "fresh"
    ELSE IF \E h \in DOMAIN pending :
              pending[h].nonce = n /\ now < pending[h].expiresAt
         THEN "drawn"
    ELSE IF ChallengeValid(n) THEN "valid"
    ELSE "spent"

Ledger == INSTANCE NonceLedger
            WITH status <- [n \in Nonces |-> NonceStatus(n)]

\* The store implements the ledger: a challenge is accepted once at most, by
\* one of any number of concurrent enrolments, never at or after its expiry,
\* never again after a restart, and never refused while it is live (so the
\* cleanup worker takes only dead ones).
ImplementsLedger == Ledger!Spec

\* The store does not leak: whatever is stored leaves it again, consumed or
\* removed by the cleanup worker after its expiry.
StoreDrains ==
    \A n \in Nonces : n \in DOMAIN challenges ~> n \notin DOMAIN challenges
=============================================================================
