--------------------------- MODULE StoreTheorems ---------------------------
(***************************************************************************)
(* What the updates of a Go map return and preserve, and the operations of *)
(* the challenge store, for every system that has one.                     *)
(***************************************************************************)
EXTENDS ChallengeStore, TLAPS

\* The empty map has every map type.
LEMMA EmptyMapType == \A K, V : IsMapOf(EmptyMap, K, V) /\ DOMAIN EmptyMap = {}
  BY DEF IsMapOf, EmptyMap

\* m[k] = v adds k to the keys, changes no other entry and keeps the type.
LEMMA PutType ==
  ASSUME NEW K, NEW V, NEW m, IsMapOf(m, K, V), NEW k \in K, NEW v \in V
  PROVE  /\ IsMapOf(Put(m, k, v), K, V)
         /\ DOMAIN Put(m, k, v) = DOMAIN m \cup {k}
         /\ Put(m, k, v)[k] = v
         /\ \A x \in DOMAIN m \ {k} : Put(m, k, v)[x] = m[x]
  BY DEF IsMapOf, Put

\* Deleting removes the given keys, changes no other entry and keeps the type.
LEMMA DeleteType ==
  ASSUME NEW K, NEW V, NEW m, IsMapOf(m, K, V), NEW D
  PROVE  /\ IsMapOf(Delete(m, D), K, V)
         /\ DOMAIN Delete(m, D) = DOMAIN m \ D
         /\ \A x \in DOMAIN m \ D : Delete(m, D)[x] = m[x]
  BY DEF IsMapOf, Delete

-----------------------------------------------------------------------------

\* Every step of the challenge store keeps its types.
LEMMA StoreTypes ==
  ASSUME StoreTypeOK
  PROVE  /\ \A h \in ChallengeRequests, n \in Nonces :
               GenerateChallenge(h, n) => StoreTypeOK'
         /\ \A h \in ChallengeRequests : StoreChallenge(h) => StoreTypeOK'
         /\ CleanupWorker => StoreTypeOK'
         /\ Tick => StoreTypeOK'
         /\ StoreRestart => StoreTypeOK'
         /\ \A n : ConsumeChallenge(n) /\ UNCHANGED <<now, drawn, pending>> => StoreTypeOK'
         /\ UNCHANGED storeVars => StoreTypeOK'
<1> USE TimeAssumption DEF StoreTypeOK
<1>1. ASSUME NEW h \in ChallengeRequests, NEW n \in Nonces, GenerateChallenge(h, n)
      PROVE  StoreTypeOK'
  <2>0. \A g \in DOMAIN pending : pending[g] \in [nonce : drawn', expiresAt : Nat]
    BY <1>1 DEF GenerateChallenge, IsMapOf
  <2>1. IsMapOf(pending, ChallengeRequests, [nonce : drawn', expiresAt : Nat])
    BY <2>0 DEF IsMapOf
  <2>2. [nonce |-> n, expiresAt |-> now + ChallengeTTL] \in [nonce : drawn', expiresAt : Nat]
    BY <1>1 DEF GenerateChallenge
  <2>3. IsMapOf(pending', ChallengeRequests, [nonce : drawn', expiresAt : Nat])
    BY <1>1, <2>1, <2>2, PutType DEF GenerateChallenge
  <2> QED BY <1>1, <2>3 DEF GenerateChallenge
<1>2. ASSUME NEW h \in ChallengeRequests, StoreChallenge(h)
      PROVE  StoreTypeOK'
  <2>1. pending[h].nonce \in Nonces /\ pending[h].expiresAt \in Nat
    BY <1>2 DEF StoreChallenge, IsMapOf
  <2> QED BY <1>2, <2>1, PutType, DeleteType DEF StoreChallenge
<1>3. CleanupWorker => StoreTypeOK'
  <2> DEFINE D == {n \in DOMAIN challenges : now > challenges[n]}
  <2>1. IsMapOf(Delete(challenges, D), Nonces, Nat)
    BY DeleteType
  <2> QED BY <2>1 DEF CleanupWorker
<1>4. Tick => StoreTypeOK'
  BY DEF Tick
<1>5. StoreRestart => StoreTypeOK'
  BY EmptyMapType DEF StoreRestart
<1>6. \A n : ConsumeChallenge(n) /\ UNCHANGED <<now, drawn, pending>> => StoreTypeOK'
  <2>1. \A n : IsMapOf(Delete(challenges, {n}), Nonces, Nat)
    BY DeleteType
  <2> QED BY <2>1 DEF ConsumeChallenge
<1>7. UNCHANGED storeVars => StoreTypeOK'
  BY DEF storeVars
<1> QED BY <1>1, <1>2, <1>3, <1>4, <1>5, <1>6, <1>7

=============================================================================
