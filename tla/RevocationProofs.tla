-------------------------- MODULE RevocationProofs --------------------------
(***************************************************************************)
(* Theorems about RevocationStatusClient, for any number of concurrent     *)
(* verifications, any chains, any lifetime of the cache and any timeout.   *)
(***************************************************************************)
EXTENDS RevocationStatusClient, TLAPS

\* The position of a caller is one of its chain.
LEMMA Positions ==
  ASSUME NEW r \in Callers
  PROVE  /\ Len(Chain[r]) \in Nat \ {0}
         /\ DOMAIN Chain[r] = 1 .. Len(Chain[r])
BY RevocationAssumption

\* Where NextKey leads, and what it says of the key it has looked up.
LEMMA NextKeyGoes ==
  ASSUME TypeOK, NEW r \in Callers, NEW list, NextKey(r, list)
  PROVE  /\ rpc' \in [Callers -> AtRest \cup {"lock", "fetch"}]
         /\ DOMAIN rindex' = Callers
         /\ \A q \in Callers : rindex'[q] \in DOMAIN Chain[q]
         /\ \A q \in Callers \ {r} : rpc'[q] = rpc[q] /\ rindex'[q] = rindex[q]
         /\ \/ rpc'[r] = "rejected"
            \/ /\ Chain[r][rindex[r]] \notin list
               /\ \/ /\ rpc'[r] = "cleared"
                     /\ rindex[r] = Len(Chain[r]) /\ rindex'[r] = rindex[r]
                  \/ rpc'[r] = "lock" /\ rindex'[r] = rindex[r] + 1
<1>1. rindex[r] \in 1 .. Len(Chain[r]) /\ Len(Chain[r]) \in Nat \ {0}
  BY Positions DEF TypeOK
<1>2. CASE Chain[r][rindex[r]] \in list
  BY <1>2 DEF NextKey, TypeOK, AtRest
<1>3. CASE Chain[r][rindex[r]] \notin list /\ rindex[r] = Len(Chain[r])
  BY <1>3 DEF NextKey, TypeOK, AtRest
<1>4. CASE Chain[r][rindex[r]] \notin list /\ rindex[r] # Len(Chain[r])
  <2>1. /\ rpc' = [rpc EXCEPT ![r] = "lock"]
        /\ rindex' = [rindex EXCEPT ![r] = @ + 1]
    BY <1>4 DEF NextKey
  <2>2. rindex[r] + 1 \in DOMAIN Chain[r]
    BY <1>1, <1>4, Positions
  <2> QED BY <2>1, <2>2, <1>4 DEF TypeOK
<1> QED BY <1>2, <1>3, <1>4

\* Every step keeps the types.
LEMMA TypeStep == ASSUME TypeOK, [Next]_vars PROVE TypeOK'
<1> USE RevocationAssumption DEF TypeOK, AtRest, Staleness
<1>1. ASSUME NEW k \in ListKeys, Publish(k) PROVE TypeOK'
  <2>0. 0 \in 0 .. Staleness + 1
    OBVIOUS
  <2>1. IsMapOf(Put(listedFor, k, 0), ListKeys, 0 .. Staleness + 1)
    <3> HIDE DEF Staleness
    <3> QED BY <2>0 DEF IsMapOf, Put
  <2> QED BY <1>1, <2>1 DEF Publish
<1>2. CASE Tick
  <2>1. \A k \in DOMAIN listedFor :
          OneMore(listedFor[k], Staleness + 1) \in 0 .. Staleness + 1
    BY DEF OneMore, IsMapOf
  <2>2. IsMapOf(listedFor', ListKeys, 0 .. Staleness + 1)
    BY <1>2, <2>1 DEF Tick, IsMapOf
  <2>3. age' \in 0 .. TTL + 1
    BY <1>2 DEF Tick, OneMore
  <2>4. elapsed' \in [Callers -> 0 .. FetchTimeout]
    BY <1>2 DEF Tick
  <2> QED BY <1>2, <2>2, <2>3, <2>4 DEF Tick
<1>3. ASSUME NEW r \in Callers, ListServerAnswers(r) PROVE TypeOK'
  <2>1. DOMAIN listedFor \subseteq ListKeys
    BY DEF IsMapOf
  <2> QED BY <1>3, <2>1 DEF ListServerAnswers
<1>4. ASSUME NEW r \in Callers, Begin(r) PROVE TypeOK'
  <2>1. 1 \in DOMAIN Chain[r]
    BY Positions
  <2>2. {k \in DOMAIN listedFor : listedFor[k] > Staleness} \in SUBSET ListKeys
    BY DEF IsMapOf
  <2> QED BY <1>4, <2>1, <2>2 DEF Begin
<1>5. ASSUME NEW r \in Callers, LookUp(r) PROVE TypeOK'
  <2>1. /\ rpc' \in [Callers -> AtRest \cup {"lock", "fetch"}]
        /\ DOMAIN rindex' = Callers
        /\ \A q \in Callers : rindex'[q] \in DOMAIN Chain[q]
    BY <1>5, NextKeyGoes DEF LookUp
  <2> QED BY <1>5, <2>1 DEF LookUp
<1>6. ASSUME NEW r \in Callers, StartFetch(r) PROVE TypeOK'
  BY <1>6 DEF StartFetch
<1>7. ASSUME NEW r \in Callers, FetchSucceeds(r) PROVE TypeOK'
  <2>1. /\ rpc' \in [Callers -> AtRest \cup {"lock", "fetch"}]
        /\ DOMAIN rindex' = Callers
        /\ \A q \in Callers : rindex'[q] \in DOMAIN Chain[q]
    BY <1>7, NextKeyGoes DEF FetchSucceeds
  <2>2. 0 \in 0 .. TTL + 1 /\ 0 \in 0 .. FetchTimeout
    OBVIOUS
  <2>3. /\ entries' \subseteq ListKeys /\ age' \in 0 .. TTL + 1
        /\ elapsed' \in [Callers -> 0 .. FetchTimeout]
        /\ DOMAIN body' = Callers
        /\ \A q \in Callers : body'[q] = Nil \/ body'[q] \subseteq ListKeys
    BY <1>7, <2>2 DEF FetchSucceeds, EndFetch
  <2>4. holder' = Nil /\ UNCHANGED <<listedFor, overdue>>
    BY <1>7 DEF FetchSucceeds, EndFetch
  <2> QED BY <2>1, <2>3, <2>4
<1>8. ASSUME NEW r \in Callers, FetchFails(r) PROVE TypeOK'
  BY <1>8 DEF FetchFails, EndFetch
<1>9. CASE UNCHANGED vars
  BY <1>9 DEF vars
<1> QED BY <1>1, <1>2, <1>3, <1>4, <1>5, <1>6, <1>7, <1>8, <1>9 DEF Next, FetchTimesOut

\* TypeOK holds at the start.
LEMMA TypeInit == Init => TypeOK
BY RevocationAssumption, Positions
   DEF Init, TypeOK, AtRest, Staleness, EmptyMap, IsMapOf

\* The types hold for ever.
THEOREM TypeCorrect == Spec => []TypeOK
BY TypeInit, TypeStep, PTL DEF Spec

-----------------------------------------------------------------------------
(* Staleness                                                               *)

\* An answer under way lacks only what was listed since its request was sent.
AnswerIsRecent ==
    \A r \in Callers : rpc[r] = "fetch" /\ body[r] # Nil =>
        \A k \in DOMAIN listedFor \ body[r] : listedFor[k] <= elapsed[r]

\* A cache that may be used lacks only what was listed since the request that
\* filled it was sent.
CacheIsRecent ==
    entries # Nil /\ age <= TTL =>
        \A k \in DOMAIN listedFor \ entries : listedFor[k] <= age + FetchTimeout

\* A listing that was overdue stays so.
OverdueStays ==
    \A r \in Callers : \A k \in overdue[r] :
        k \in DOMAIN listedFor /\ listedFor[k] > Staleness

\* The keys a verification has asked about are not overdue.
PassedNotOverdue ==
    \A r \in Callers :
        /\ rpc[r] \in {"lock", "fetch"} =>
              \A i \in 1 .. rindex[r] - 1 : Chain[r][i] \notin overdue[r]
        /\ rpc[r] = "cleared" =>
              \A i \in DOMAIN Chain[r] : Chain[r][i] \notin overdue[r]

SInv ==
    /\ TypeOK
    /\ AnswerIsRecent
    /\ CacheIsRecent
    /\ OverdueStays
    /\ PassedNotOverdue

\* The clock keeps all bounds: every age that grows is compared with one that
\* grows as well.
LEMMA TickKeepsBounds ==
  ASSUME SInv, Tick
  PROVE  AnswerIsRecent' /\ CacheIsRecent' /\ OverdueStays' /\ PassedNotOverdue'
<1> USE RevocationAssumption DEF SInv, TypeOK, IsMapOf, Staleness
<1>1. /\ DOMAIN listedFor' = DOMAIN listedFor
      /\ \A k \in DOMAIN listedFor :
           /\ listedFor'[k] <= listedFor[k] + 1
           /\ listedFor[k] > Staleness => listedFor'[k] > Staleness
  BY DEF Tick, OneMore
<1>2. AnswerIsRecent'
  <2> SUFFICES ASSUME NEW r \in Callers, rpc[r] = "fetch", body[r] # Nil,
                      NEW k \in DOMAIN listedFor \ body[r]
               PROVE  listedFor'[k] <= elapsed'[r]
    BY <1>1 DEF Tick, AnswerIsRecent
  <2>1. elapsed'[r] = elapsed[r] + 1 /\ elapsed[r] \in Nat
    BY DEF Tick
  <2>2. listedFor[k] <= elapsed[r]
    BY DEF AnswerIsRecent
  <2>3. listedFor[k] \in Nat /\ listedFor'[k] \in Nat
    BY DEF Tick, OneMore
  <2> QED BY <1>1, <2>1, <2>2, <2>3
<1>3. CacheIsRecent'
  <2> SUFFICES ASSUME entries # Nil, age' <= TTL,
                      NEW k \in DOMAIN listedFor \ entries
               PROVE  listedFor'[k] <= age' + FetchTimeout
    BY <1>1 DEF Tick, CacheIsRecent
  <2>1. age' = age + 1 /\ age <= TTL
    BY DEF Tick, OneMore
  <2>2. listedFor[k] <= age + FetchTimeout
    BY <2>1 DEF CacheIsRecent, Tick
  <2>3. listedFor[k] \in Nat /\ listedFor'[k] \in Nat
    BY DEF Tick, OneMore
  <2> QED BY <1>1, <2>1, <2>2, <2>3
<1>4. OverdueStays'
  BY <1>1 DEF Tick, OverdueStays
<1>5. PassedNotOverdue'
  BY DEF Tick, PassedNotOverdue
<1> QED BY <1>2, <1>3, <1>4, <1>5

\* A key that NextKey lets pass is not overdue, when the list it was looked
\* up in holds every overdue listing.
LEMMA NextKeyPasses ==
  ASSUME SInv, NEW r \in Callers, rpc[r] \in {"lock", "fetch"},
         NEW list, NextKey(r, list), overdue[r] \subseteq list,
         UNCHANGED overdue
  PROVE  PassedNotOverdue'
<1> SUFFICES ASSUME NEW q \in Callers
             PROVE  /\ rpc'[q] \in {"lock", "fetch"} =>
                         \A i \in 1 .. rindex'[q] - 1 : Chain[q][i] \notin overdue[q]
                    /\ rpc'[q] = "cleared" =>
                         \A i \in DOMAIN Chain[q] : Chain[q][i] \notin overdue[q]
  BY DEF PassedNotOverdue
<1>0. TypeOK /\ PassedNotOverdue
  BY DEF SInv
<1>1. CASE q # r
  BY <1>0, <1>1, NextKeyGoes DEF PassedNotOverdue
<1>2. CASE q = r
  <2>1. \A i \in 1 .. rindex[r] - 1 : Chain[r][i] \notin overdue[r]
    BY <1>0 DEF PassedNotOverdue
  <2>2. rindex[r] \in 1 .. Len(Chain[r]) /\ Len(Chain[r]) \in Nat
    BY <1>0, Positions DEF TypeOK
  <2>3. CASE rpc'[r] = "rejected"
    BY <1>2, <2>3
  <2>4. CASE rpc'[r] # "rejected"
    <3>1. /\ Chain[r][rindex[r]] \notin overdue[r]
          /\ \/ rpc'[r] = "cleared" /\ rindex[r] = Len(Chain[r])
             \/ rpc'[r] = "lock" /\ rindex'[r] = rindex[r] + 1
      BY <1>0, <2>4, NextKeyGoes
    <3>2. \A i \in 1 .. rindex[r] : Chain[r][i] \notin overdue[r]
      BY <2>1, <2>2, <3>1
    <3> QED BY <1>2, <2>2, <3>1, <3>2, Positions
  <2> QED BY <2>3, <2>4
<1> QED BY <1>1, <1>2

\* Every step keeps the bounds.
LEMMA StalenessStep == ASSUME SInv, [Next]_vars PROVE SInv'
<1>0. TypeOK /\ TypeOK'
  BY TypeStep DEF SInv
<1> USE RevocationAssumption, <1>0 DEF SInv
<1>1. ASSUME NEW k \in ListKeys, Publish(k) PROVE SInv'
  <2>1. /\ DOMAIN listedFor' = DOMAIN listedFor \cup {k}
        /\ listedFor'[k] = 0 /\ k \notin DOMAIN listedFor
        /\ \A j \in DOMAIN listedFor : listedFor'[j] = listedFor[j]
    BY <1>1 DEF Publish, Put
  <2>2. UNCHANGED <<entries, age, holder, rpc, rindex, elapsed, body, overdue>>
    BY <1>1 DEF Publish
  <2>3. AnswerIsRecent'
    BY <2>1, <2>2 DEF AnswerIsRecent, TypeOK
  <2>4. CacheIsRecent'
    BY <2>1, <2>2 DEF CacheIsRecent, TypeOK
  <2>5. OverdueStays' /\ PassedNotOverdue'
    BY <2>1, <2>2 DEF OverdueStays, PassedNotOverdue
  <2> QED BY <2>3, <2>4, <2>5
<1>2. CASE Tick
  BY <1>2, TickKeepsBounds
<1>3. ASSUME NEW r \in Callers, ListServerAnswers(r) PROVE SInv'
  <2>1. AnswerIsRecent'
    BY <1>3 DEF ListServerAnswers, AnswerIsRecent, TypeOK
  <2> QED BY <1>3, <2>1
          DEF ListServerAnswers, CacheIsRecent, OverdueStays, PassedNotOverdue
<1>4. ASSUME NEW r \in Callers, Begin(r) PROVE SInv'
  <2>1. AnswerIsRecent' /\ CacheIsRecent'
    BY <1>4 DEF Begin, AnswerIsRecent, CacheIsRecent, TypeOK
  <2>2. OverdueStays' /\ PassedNotOverdue'
    BY <1>4 DEF Begin, OverdueStays, PassedNotOverdue, TypeOK
  <2> QED BY <2>1, <2>2
<1>5. ASSUME NEW r \in Callers, LookUp(r) PROVE SInv'
  <2>1. overdue[r] \subseteq entries
    BY <1>5 DEF LookUp, Stale, CacheIsRecent, OverdueStays, TypeOK, Staleness, IsMapOf
  <2>2. PassedNotOverdue'
    BY <1>5, <2>1, NextKeyPasses DEF LookUp
  <2>3. AnswerIsRecent'
    BY <1>5, NextKeyGoes DEF LookUp, AnswerIsRecent
  <2> QED BY <1>5, <2>2, <2>3 DEF LookUp, CacheIsRecent, OverdueStays
<1>6. ASSUME NEW r \in Callers, StartFetch(r) PROVE SInv'
  <2>1. AnswerIsRecent'
    BY <1>6 DEF StartFetch, AnswerIsRecent, TypeOK
  <2>2. PassedNotOverdue'
    BY <1>6 DEF StartFetch, PassedNotOverdue, TypeOK
  <2> QED BY <1>6, <2>1, <2>2 DEF StartFetch, CacheIsRecent, OverdueStays
<1>7. ASSUME NEW r \in Callers, FetchSucceeds(r) PROVE SInv'
  <2>1. \A k \in DOMAIN listedFor \ body[r] : listedFor[k] <= elapsed[r]
    BY <1>7 DEF FetchSucceeds, EndFetch, AnswerIsRecent
  <2>2. overdue[r] \subseteq body[r]
    BY <2>1 DEF OverdueStays, TypeOK, Staleness, IsMapOf
  <2>3. PassedNotOverdue'
    BY <1>7, <2>2, NextKeyPasses DEF FetchSucceeds, EndFetch
  <2>4. AnswerIsRecent'
    BY <1>7, NextKeyGoes DEF FetchSucceeds, EndFetch, AnswerIsRecent, TypeOK
  <2>5. CacheIsRecent'
    BY <1>7, <2>1 DEF FetchSucceeds, EndFetch, CacheIsRecent, TypeOK, IsMapOf
  <2> QED BY <1>7, <2>3, <2>4, <2>5 DEF FetchSucceeds, EndFetch, OverdueStays
<1>8. ASSUME NEW r \in Callers, FetchFails(r) PROVE SInv'
  <2>1. AnswerIsRecent'
    BY <1>8 DEF FetchFails, EndFetch, AnswerIsRecent, TypeOK
  <2>2. PassedNotOverdue'
    BY <1>8 DEF FetchFails, EndFetch, PassedNotOverdue, TypeOK
  <2> QED BY <1>8, <2>1, <2>2
          DEF FetchFails, EndFetch, CacheIsRecent, OverdueStays
<1>9. CASE UNCHANGED vars
  BY <1>9 DEF vars, AnswerIsRecent, CacheIsRecent, OverdueStays, PassedNotOverdue
<1> QED BY <1>1, <1>2, <1>3, <1>4, <1>5, <1>6, <1>7, <1>8, <1>9 DEF Next, FetchTimesOut

\* revocation.go:69-85.  No fetch that fails, hangs or is shared lets a key
\* pass that has been listed for longer than the TTL and the timeout.
THEOREM OverdueNeverCleared == Spec => []OverdueKeyNeverCleared
<1>1. Init => SInv
  BY TypeInit DEF Init, SInv, AnswerIsRecent, CacheIsRecent, OverdueStays, PassedNotOverdue
<1>2. SInv => OverdueKeyNeverCleared
  BY DEF SInv, PassedNotOverdue, OverdueKeyNeverCleared
<1> QED BY <1>1, <1>2, StalenessStep, PTL DEF Spec

-----------------------------------------------------------------------------
(* Concurrent refreshes                                                    *)

\* Only the holder of the mutex fetches, and neither the cache nor an answer
\* under way holds what was never listed, or less than the cache does.
Exclusive ==
    /\ \A r \in Callers : rpc[r] = "fetch" => holder = r
    /\ entries # Nil => entries \subseteq DOMAIN listedFor
    /\ \A r \in Callers : rpc[r] = "fetch" /\ body[r] # Nil =>
         /\ body[r] \subseteq DOMAIN listedFor
         /\ entries # Nil => entries \subseteq body[r]

CInv == TypeOK /\ Exclusive

\* The mutex is held across the fetch, so that nobody else replaces the cache.
LEMMA ExclusiveStep ==
  ASSUME CInv, [Next]_vars
  PROVE  CInv' /\ (entries # Nil => entries \subseteq entries')
<1>0. TypeOK /\ TypeOK'
  BY TypeStep DEF CInv
<1> USE RevocationAssumption, <1>0 DEF CInv, Exclusive
<1>1. ASSUME NEW k \in ListKeys, Publish(k)
      PROVE  Exclusive' /\ entries' = entries
  <2>1. DOMAIN listedFor' = DOMAIN listedFor \cup {k}
    BY <1>1 DEF Publish, Put
  <2> QED BY <1>1, <2>1 DEF Publish
<1>2. CASE Tick
  BY <1>2 DEF Tick
<1>3. ASSUME NEW r \in Callers, ListServerAnswers(r)
      PROVE  Exclusive' /\ entries' = entries
  BY <1>3 DEF ListServerAnswers, TypeOK
<1>4. ASSUME NEW r \in Callers, Begin(r)
      PROVE  Exclusive' /\ entries' = entries
  BY <1>4 DEF Begin, TypeOK
<1>5. ASSUME NEW r \in Callers, LookUp(r)
      PROVE  Exclusive' /\ entries' = entries
  BY <1>5, NextKeyGoes DEF LookUp
<1>6. ASSUME NEW r \in Callers, StartFetch(r)
      PROVE  Exclusive' /\ entries' = entries
  BY <1>6 DEF StartFetch, TypeOK
<1>7. ASSUME NEW r \in Callers, FetchSucceeds(r)
      PROVE  Exclusive' /\ (entries # Nil => entries \subseteq entries')
  <2>1. entries' = body[r] /\ body[r] # Nil /\ rpc[r] = "fetch" /\ listedFor' = listedFor
    BY <1>7 DEF FetchSucceeds, EndFetch
  <2>2. NextKey(r, body[r])
    BY <1>7 DEF FetchSucceeds
  <2>3. /\ \A q \in Callers \ {r} : rpc'[q] = rpc[q]
        /\ rpc'[r] \in {"rejected", "cleared", "lock"}
    <3> HIDE DEF CInv, Exclusive
    <3> QED BY <1>0, <2>2, NextKeyGoes
  <2>4. \A q \in Callers : rpc'[q] # "fetch"
    BY <2>1, <2>3
  <2> QED BY <2>1, <2>4
<1>8. ASSUME NEW r \in Callers, FetchFails(r)
      PROVE  Exclusive' /\ entries' = entries
  BY <1>8 DEF FetchFails, EndFetch, TypeOK
<1>9. CASE UNCHANGED vars
  BY <1>9 DEF vars
<1> QED BY <1>1, <1>2, <1>3, <1>4, <1>5, <1>6, <1>7, <1>8, <1>9 DEF Next, FetchTimesOut, Tick

\* revocation.go:64-67.  The mutex held across the fetch keeps an older list
\* from replacing a newer one.
THEOREM CacheMonotone == Spec => CacheNeverRegresses
<1>1. Init => CInv
  BY TypeInit DEF Init, CInv, Exclusive
<1>2. CInv /\ [Next]_vars => CInv' /\ [entries # Nil => entries \subseteq entries']_vars
  BY ExclusiveStep
<1> QED BY <1>1, <1>2, PTL DEF Spec, CacheNeverRegresses
=============================================================================
