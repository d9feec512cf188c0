---------------------------- MODULE LedgerProofs ----------------------------
(***************************************************************************)
(* The challenge store implements NonceLedger, for any sets of nonces,     *)
(* requests and verifiers, any lifetime of a challenge and any bound on    *)
(* the clock.                                                              *)
(***************************************************************************)
EXTENDS ChallengeSystem, StoreTheorems

\* Every verdict is about one nonce.
LEMMA AnswerType ==
  ASSUME TypeOK, NEW v \in Verifiers, NEW n \in Nonces,
         VerifyAndConsumeChallenge(v, n)
  PROVE  TypeOK'
<1>1. StoreTypeOK'
  BY StoreTypes DEF VerifyAndConsumeChallenge, TypeOK
<1>2. ChallengeValid(n) \in BOOLEAN
  BY DEF ChallengeValid
<1> QED BY <1>1, <1>2 DEF VerifyAndConsumeChallenge, TypeOK

\* The store's types, closed with its callers, hold for ever.
THEOREM TypeCorrect == Spec => []TypeOK
<1>1. Init => TypeOK
  BY EmptyMapType, TimeAssumption DEF Init, StoreInit, NoAnswer, TypeOK, StoreTypeOK
<1>2. TypeOK /\ [Next]_vars => TypeOK'
  <2> SUFFICES ASSUME TypeOK, [Next]_vars PROVE TypeOK'
    OBVIOUS
  <2> USE StoreTypes DEF TypeOK
  <2>1. ASSUME NEW h \in ChallengeRequests, NEW n \in Nonces,
               Generate(h, n), UNCHANGED answer
        PROVE  TypeOK'
    BY <2>1 DEF Generate
  <2>2. ASSUME NEW h \in ChallengeRequests, StoreChallenge(h), UNCHANGED answer
        PROVE  TypeOK'
    BY <2>2
  <2>3. ASSUME NEW v \in Verifiers, NEW n \in Nonces, VerifyAndConsumeChallenge(v, n)
        PROVE  TypeOK'
    BY <2>3, AnswerType
  <2>4. CASE (CleanupWorker \/ Tick \/ StoreRestart) /\ UNCHANGED answer
    BY <2>4
  <2>5. CASE UNCHANGED vars
    BY <2>5 DEF vars
  <2> QED BY <2>1, <2>2, <2>3, <2>4, <2>5 DEF Next
<1> QED BY <1>1, <1>2, PTL DEF Spec

-----------------------------------------------------------------------------
(* The refinement                                                          *)

\* What is pending or stored was drawn, a nonce is pending in one request at
\* most, and what is pending is not stored.
Separate ==
    /\ DOMAIN challenges \subseteq drawn
    /\ \A h \in DOMAIN pending :
         /\ pending[h].nonce \notin DOMAIN challenges
         /\ \A g \in DOMAIN pending \ {h} : pending[g].nonce # pending[h].nonce

LInv == TypeOK /\ Separate

\* Nonces never repeat, so every operation keeps them apart.
LEMMA SeparateStep == ASSUME LInv, [Next]_vars PROVE Separate'
<1> USE DEF LInv, TypeOK, StoreTypeOK, IsMapOf, Separate
<1>1. ASSUME NEW h \in ChallengeRequests, NEW n \in Nonces, Generate(h, n)
      PROVE  Separate'
  <2>1. /\ DOMAIN pending' = DOMAIN pending \cup {h}
        /\ pending'[h].nonce = n
        /\ \A g \in DOMAIN pending : pending'[g] = pending[g]
    BY <1>1 DEF Generate, GenerateChallenge, Put
  <2>2. n \notin drawn /\ drawn' = drawn \cup {n} /\ UNCHANGED challenges
    BY <1>1 DEF Generate, GenerateChallenge
  <2>3. \A g \in DOMAIN pending : pending[g].nonce \in drawn
    OBVIOUS
  <2> QED BY <2>1, <2>2, <2>3
<1>2. ASSUME NEW h \in ChallengeRequests, StoreChallenge(h)
      PROVE  Separate'
  <2>1. /\ DOMAIN challenges' = DOMAIN challenges \cup {pending[h].nonce}
        /\ DOMAIN pending' = DOMAIN pending \ {h}
        /\ \A g \in DOMAIN pending' : pending'[g] = pending[g]
        /\ h \in DOMAIN pending /\ drawn' = drawn
    BY <1>2 DEF StoreChallenge, Put, Delete
  <2>2. pending[h].nonce \in drawn
    BY <2>1
  <2> QED BY <2>1, <2>2
<1>3. ASSUME NEW v \in Verifiers, NEW n \in Nonces, VerifyAndConsumeChallenge(v, n)
      PROVE  Separate'
  BY <1>3 DEF VerifyAndConsumeChallenge, ConsumeChallenge, Delete
<1>4. CleanupWorker => Separate'
  BY DEF CleanupWorker, Delete
<1>5. Tick \/ StoreRestart => Separate'
  BY DEF Tick, StoreRestart, EmptyMap
<1>6. UNCHANGED vars => Separate'
  BY DEF vars, storeVars
<1> QED BY <1>1, <1>2, <1>3, <1>4, <1>5, <1>6 DEF Next

\* Drawing a nonce is the ledger's Draw, and leaves the others as they are.
LEMMA DrawStep ==
  ASSUME LInv, NEW h \in ChallengeRequests, NEW n \in Nonces,
         Generate(h, n), UNCHANGED answer
  PROVE  Ledger!Draw(n)
<1> USE DEF LInv, TypeOK, StoreTypeOK, IsMapOf, Separate, NonceStatus, ChallengeValid
<1>1. /\ DOMAIN pending' = DOMAIN pending \cup {h}
      /\ pending'[h].nonce = n
      /\ \A g \in DOMAIN pending : pending'[g] = pending[g]
      /\ h \notin DOMAIN pending
  BY DEF Generate, GenerateChallenge, Put
<1>2. n \notin drawn /\ drawn' = drawn \cup {n} /\ UNCHANGED <<now, challenges>>
  BY DEF Generate, GenerateChallenge
<1>3. NonceStatus(n) = "fresh"
  BY <1>2
<1>4. NonceStatus(n)' \in {"drawn", "spent"}
  BY <1>2
<1>5. ASSUME NEW m \in Nonces \ {n} PROVE NonceStatus(m)' = NonceStatus(m)
  BY <1>1, <1>2, <1>5
<1> HIDE DEF NonceStatus
<1> QED BY <1>3, <1>4, <1>5 DEF Ledger!Draw

\* Storing a live challenge is Issue; a dead one changes no status.
LEMMA IssueStep ==
  ASSUME LInv, NEW h \in ChallengeRequests, StoreChallenge(h), UNCHANGED answer
  PROVE  Ledger!Issue(pending[h].nonce) \/ UNCHANGED Ledger!vars
<1> USE DEF LInv, TypeOK, StoreTypeOK, IsMapOf, Separate, NonceStatus, ChallengeValid
<1>0. PICK n \in Nonces : n = pending[h].nonce
  BY DEF StoreChallenge
<1>1. /\ h \in DOMAIN pending /\ n \in drawn
      /\ DOMAIN challenges' = DOMAIN challenges \cup {n}
      /\ challenges'[n] = pending[h].expiresAt
      /\ \A m \in DOMAIN challenges \ {n} : challenges'[m] = challenges[m]
      /\ UNCHANGED <<now, drawn>>
  BY <1>0 DEF StoreChallenge, Put
<1>2. /\ DOMAIN pending' = DOMAIN pending \ {h}
      /\ \A g \in DOMAIN pending' : pending'[g] = pending[g]
  BY DEF StoreChallenge, Delete
<1>3. ASSUME NEW m \in Nonces \ {n} PROVE NonceStatus(m)' = NonceStatus(m)
  BY <1>0, <1>1, <1>2, <1>3
<1>4. \A g \in DOMAIN pending' : pending'[g].nonce # n
  BY <1>0, <1>1, <1>2
<1>5. CASE now < pending[h].expiresAt
  <2>1. NonceStatus(n) = "drawn" /\ NonceStatus(n)' = "valid"
    BY <1>0, <1>1, <1>4, <1>5
  <2> HIDE DEF NonceStatus
  <2> QED BY <1>0, <1>3, <2>1 DEF Ledger!Issue
<1>6. CASE ~(now < pending[h].expiresAt)
  <2>1. NonceStatus(n) = "spent" /\ NonceStatus(n)' = "spent"
    BY <1>0, <1>1, <1>4, <1>6
  <2> HIDE DEF NonceStatus
  <2>2. \A m \in Nonces : NonceStatus(m)' = NonceStatus(m)
    BY <1>3, <2>1
  <2> QED BY <2>2 DEF Ledger!vars
<1> QED BY <1>5, <1>6

\* A verification accepts what the ledger would accept, and spends it.
LEMMA RedeemStep ==
  ASSUME LInv, NEW v \in Verifiers, NEW n \in Nonces,
         VerifyAndConsumeChallenge(v, n)
  PROVE  Ledger!Redeem(v, n)
<1> USE DEF LInv, TypeOK, StoreTypeOK, IsMapOf, Separate, NonceStatus, ChallengeValid
<1>1. /\ DOMAIN challenges' = DOMAIN challenges \ {n}
      /\ \A m \in DOMAIN challenges' : challenges'[m] = challenges[m]
      /\ UNCHANGED <<now, drawn, pending>>
  BY DEF VerifyAndConsumeChallenge, ConsumeChallenge, Delete
<1>2. ChallengeValid(n) <=> NonceStatus(n) = "valid"
  OBVIOUS
<1>3. ASSUME NEW m \in Nonces \ {n} PROVE NonceStatus(m)' = NonceStatus(m)
  BY <1>1, <1>3
<1>4. NonceStatus(n)' = IF NonceStatus(n) = "valid" THEN "spent" ELSE NonceStatus(n)
  BY <1>1
<1>5. answer' = [answer EXCEPT ![v] = [nonce |-> {n}, ok |-> NonceStatus(n) = "valid"]]
  <2> HIDE DEF NonceStatus
  <2> QED BY <1>2 DEF VerifyAndConsumeChallenge
<1> HIDE DEF NonceStatus
<1> QED BY <1>3, <1>4, <1>5 DEF Ledger!Redeem

\* When a step only spends nonces that are drawn or valid, it is Expire.
LEMMA ExpireStep ==
  ASSUME UNCHANGED answer,
         \A n \in Nonces : \/ NonceStatus(n)' = NonceStatus(n)
                           \/ /\ NonceStatus(n)' = "spent"
                              /\ NonceStatus(n) \in {"drawn", "valid"}
  PROVE  Ledger!Expire
<1> DEFINE status == [n \in Nonces |-> NonceStatus(n)]
           E == {n \in Nonces : /\ NonceStatus(n) \in {"drawn", "valid"}
                                /\ NonceStatus(n)' = "spent"}
<1>1. E \in SUBSET {n \in Nonces : status[n] \in {"drawn", "valid"}}
  OBVIOUS
<1>2. [n \in Nonces |-> NonceStatus(n)'] =
        [n \in Nonces |-> IF n \in E THEN "spent" ELSE status[n]]
  OBVIOUS
<1> QED BY <1>1, <1>2 DEF Ledger!Expire

\* The cleanup worker, the clock and a restart are expiries.
LEMMA BackgroundStep ==
  ASSUME LInv, CleanupWorker \/ Tick \/ StoreRestart, UNCHANGED answer
  PROVE  Ledger!Expire
<1> USE DEF LInv, TypeOK, StoreTypeOK, IsMapOf, Separate, NonceStatus, ChallengeValid
<1>1. ASSUME CleanupWorker, NEW n \in Nonces
      PROVE  NonceStatus(n)' = NonceStatus(n)
  <2>1. /\ DOMAIN challenges' \subseteq DOMAIN challenges
        /\ \A m \in DOMAIN challenges' : challenges'[m] = challenges[m]
        /\ \A m \in DOMAIN challenges : now < challenges[m] => m \in DOMAIN challenges'
        /\ UNCHANGED <<now, drawn, pending>>
    BY <1>1 DEF CleanupWorker, Delete
  <2> QED BY <2>1
<1>2. ASSUME Tick, NEW n \in Nonces
      PROVE  \/ NonceStatus(n)' = NonceStatus(n)
             \/ NonceStatus(n)' = "spent" /\ NonceStatus(n) \in {"drawn", "valid"}
  BY <1>2 DEF Tick
<1>3. ASSUME StoreRestart, NEW n \in Nonces
      PROVE  \/ NonceStatus(n)' = NonceStatus(n)
             \/ NonceStatus(n)' = "spent" /\ NonceStatus(n) \in {"drawn", "valid"}
  BY <1>3 DEF StoreRestart, EmptyMap
<1> HIDE DEF NonceStatus
<1> QED BY <1>1, <1>2, <1>3, ExpireStep

\* challenge_store.go:33-78.  The store implements the ledger: a challenge is
\* accepted once at most, before its expiry, by the process that issued it,
\* and is not refused while it is live.
THEOREM StoreImplementsLedger == Spec => ImplementsLedger
<1>1. Init => LInv /\ Ledger!Init
  <2>1. Init => TypeOK
    BY EmptyMapType, TimeAssumption DEF Init, StoreInit, NoAnswer, TypeOK, StoreTypeOK
  <2> QED BY <2>1 DEF Init, StoreInit, LInv, Separate, EmptyMap, NonceStatus,
                      Ledger!Init, NoAnswer, Ledger!NoAnswer
<1>2. LInv /\ TypeOK' /\ [Next]_vars => LInv'
  BY SeparateStep DEF LInv
<1>3. LInv /\ [Next]_vars => [Ledger!Next]_(Ledger!vars)
  <2> SUFFICES ASSUME LInv, [Next]_vars PROVE [Ledger!Next]_(Ledger!vars)
    OBVIOUS
  <2>1. ASSUME NEW h \in ChallengeRequests, NEW n \in Nonces,
               Generate(h, n), UNCHANGED answer
        PROVE  Ledger!Next
    BY <2>1, DrawStep DEF Ledger!Next
  <2>2. ASSUME NEW h \in ChallengeRequests, StoreChallenge(h), UNCHANGED answer
        PROVE  [Ledger!Next]_(Ledger!vars)
    <3>1. pending[h].nonce \in Nonces
      BY <2>2 DEF StoreChallenge, LInv, TypeOK, StoreTypeOK, IsMapOf
    <3> QED BY <2>2, <3>1, IssueStep DEF Ledger!Next
  <2>3. ASSUME NEW v \in Verifiers, NEW n \in Nonces, VerifyAndConsumeChallenge(v, n)
        PROVE  Ledger!Next
    BY <2>3, RedeemStep DEF Ledger!Next
  <2>4. CASE (CleanupWorker \/ Tick \/ StoreRestart) /\ UNCHANGED answer
    BY <2>4, BackgroundStep DEF Ledger!Next
  <2>5. CASE UNCHANGED vars
    BY <2>5 DEF vars, storeVars, Ledger!vars, NonceStatus, ChallengeValid
  <2> QED BY <2>1, <2>2, <2>3, <2>4, <2>5 DEF Next
<1> QED BY <1>1, <1>2, <1>3, TypeCorrect, PTL DEF Spec, ImplementsLedger, Ledger!Spec
=============================================================================
