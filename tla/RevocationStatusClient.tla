----------------------- MODULE RevocationStatusClient -----------------------
(***************************************************************************)
(* backend/internal/attestation/revocation.go with the loop of             *)
(* VerifyAttestation that calls it for every key of a chain                *)
(* (verifier.go:126-137), run by concurrent enrolments.                    *)
(*                                                                         *)
(* The status list is an HTTP resource that grows while the backend runs.  *)
(* Its cache is one mutex, a set of entries and the time of the fetch; the *)
(* mutex is held across the fetch.  Of the entries those with status       *)
(* REVOKED are kept, by key.                                               *)
(*                                                                         *)
(* Time is kept as ages, each capped just above the largest value the code *)
(* or a property compares it with.                                         *)
(***************************************************************************)
EXTENDS Naturals, Sequences, GoMap

CONSTANTS
    ListKeys,     \* public keys that may be listed
    Callers,      \* concurrent verifications
    Chain,        \* the keys of the chain each caller verifies
    TTL,          \* RevocationStatusClient.ttl
    FetchTimeout  \* http.Client.Timeout

ASSUME RevocationAssumption ==
    /\ TTL \in Nat
    /\ FetchTimeout \in Nat
    /\ Chain \in [Callers -> Seq(ListKeys) \ {<<>>}]
    /\ Nil \notin Callers

VARIABLES
    listedFor,  \* the published list: revoked key -> ticks since its listing
    entries,    \* the cached entries, or Nil
    age,        \* time.Since(fetched)
    holder,     \* the caller that holds the mutex, or Nil
    rpc,        \* where each caller is
    rindex,     \* the position in its chain of the key it asks about
    elapsed,    \* ticks since its HTTP request was sent
    body,       \* the list the server has sent in answer, or Nil
    overdue     \* history: keys listed for longer than the permitted
                \* staleness when the verification began

vars == <<listedFor, entries, age, holder, rpc, rindex, elapsed, body, overdue>>

\* How long a listing may go unnoticed: a list as old as its TTL, sent by
\* the server at the start of a fetch that took as long as it may.
Staleness == TTL + FetchTimeout

AtRest == {"idle", "rejected", "cleared"}

TypeOK ==
    /\ IsMapOf(listedFor, ListKeys, 0 .. Staleness + 1)
    /\ entries = Nil \/ entries \subseteq ListKeys
    /\ age \in 0 .. TTL + 1
    /\ holder \in Callers \cup {Nil}
    /\ rpc \in [Callers -> AtRest \cup {"lock", "fetch"}]
    /\ DOMAIN rindex = Callers
    /\ \A r \in Callers : rindex[r] \in DOMAIN Chain[r]
    /\ elapsed \in [Callers -> 0 .. FetchTimeout]
    /\ DOMAIN body = Callers
    /\ \A r \in Callers : body[r] = Nil \/ body[r] \subseteq ListKeys
    /\ overdue \in [Callers -> SUBSET ListKeys]

Init ==
    /\ listedFor = EmptyMap
    /\ entries = Nil
    /\ age = 0
    /\ holder = Nil
    /\ rpc = [r \in Callers |-> "idle"]
    /\ rindex = [r \in Callers |-> 1]
    /\ elapsed = [r \in Callers |-> 0]
    /\ body = [r \in Callers |-> Nil]
    /\ overdue = [r \in Callers |-> {}]

-----------------------------------------------------------------------------
(* The list and the clock                                                  *)

\* A key is listed as REVOKED.
Publish(k) ==
    /\ k \notin DOMAIN listedFor
    /\ listedFor' = Put(listedFor, k, 0)
    /\ UNCHANGED <<entries, age, holder, rpc, rindex, elapsed, body, overdue>>

OneMore(n, cap) == IF n < cap THEN n + 1 ELSE cap

\* A fetch does not outlast the client's timeout.
Tick ==
    /\ \A r \in Callers : rpc[r] = "fetch" => elapsed[r] < FetchTimeout
    /\ listedFor' = [k \in DOMAIN listedFor |-> OneMore(listedFor[k], Staleness + 1)]
    /\ age' = IF entries = Nil THEN age ELSE OneMore(age, TTL + 1)
    /\ elapsed' = [r \in Callers |->
                     IF rpc[r] = "fetch" THEN elapsed[r] + 1 ELSE elapsed[r]]
    /\ UNCHANGED <<entries, holder, rpc, rindex, body, overdue>>

\* The server answers a request with the list of that moment; it may also
\* never answer.
ListServerAnswers(r) ==
    /\ rpc[r] = "fetch" /\ body[r] = Nil
    /\ body' = [body EXCEPT ![r] = DOMAIN listedFor]
    /\ UNCHANGED <<listedFor, entries, age, holder, rpc, rindex, elapsed, overdue>>

-----------------------------------------------------------------------------
(* The verifications                                                       *)

\* VerifyAttestation reaches the revocation loop.
Begin(r) ==
    /\ rpc[r] \in AtRest
    /\ rpc' = [rpc EXCEPT ![r] = "lock"]
    /\ rindex' = [rindex EXCEPT ![r] = 1]
    /\ overdue' = [overdue EXCEPT
                     ![r] = {k \in DOMAIN listedFor : listedFor[k] > Staleness}]
    /\ UNCHANGED <<listedFor, entries, age, holder, elapsed, body>>

NextKeyRunsOver(r, list) ==  \* mutant: off by one at the end of the chain
    IF Chain[r][rindex[r]] \in list
    THEN rpc' = [rpc EXCEPT ![r] = "rejected"] /\ UNCHANGED rindex
    ELSE IF rindex[r] > Len(Chain[r])
    THEN rpc' = [rpc EXCEPT ![r] = "cleared"] /\ UNCHANGED rindex
    ELSE /\ rpc' = [rpc EXCEPT ![r] = "lock"]
         /\ rindex' = [rindex EXCEPT ![r] = @ + 1]

\* IsKeyRevoked returns what list says, and the loop goes on, or ends.
NextKey(r, list) ==
    IF Chain[r][rindex[r]] \in list
    THEN rpc' = [rpc EXCEPT ![r] = "rejected"] /\ UNCHANGED rindex
    ELSE IF rindex[r] = Len(Chain[r])
    THEN rpc' = [rpc EXCEPT ![r] = "cleared"] /\ UNCHANGED rindex
    ELSE /\ rpc' = [rpc EXCEPT ![r] = "lock"]
         /\ rindex' = [rindex EXCEPT ![r] = @ + 1]

Stale == entries = Nil \/ age > TTL

\* The mutex is free and the cache fresh: lock, look up, unlock.
LookUp(r) ==
    /\ rpc[r] = "lock" /\ holder = Nil /\ ~Stale
    /\ NextKey(r, entries)
    /\ UNCHANGED <<listedFor, entries, age, holder, elapsed, body, overdue>>

StartFetchUnlocked(r) ==  \* mutant: the fetch runs outside the mutex
    /\ rpc[r] = "lock" /\ holder = Nil /\ Stale
    /\ rpc' = [rpc EXCEPT ![r] = "fetch"]
    /\ elapsed' = [elapsed EXCEPT ![r] = 0]
    /\ body' = [body EXCEPT ![r] = Nil]
    /\ UNCHANGED <<listedFor, entries, age, holder, rindex, overdue>>

\* The mutex is free and the cache stale: lock and send the request.
StartFetch(r) ==
    /\ rpc[r] = "lock" /\ holder = Nil /\ Stale
    /\ holder' = r
    /\ rpc' = [rpc EXCEPT ![r] = "fetch"]
    /\ elapsed' = [elapsed EXCEPT ![r] = 0]
    /\ body' = [body EXCEPT ![r] = Nil]
    /\ UNCHANGED <<listedFor, entries, age, rindex, overdue>>

\* The request is over, and the mutex is released on return.
EndFetch(r) ==
    /\ rpc[r] = "fetch"
    /\ holder' = Nil
    /\ elapsed' = [elapsed EXCEPT ![r] = 0]
    /\ body' = [body EXCEPT ![r] = Nil]
    /\ UNCHANGED <<listedFor, overdue>>

\* The answer has arrived and parses: replace the cache, stamp it with the
\* time of arrival, look up.
FetchSucceeds(r) ==
    /\ EndFetch(r)
    /\ body[r] # Nil
    /\ entries' = body[r]
    /\ age' = 0
    /\ NextKey(r, body[r])

FetchFailsOpen(r) ==  \* mutant: falls back on the stale cache
    /\ EndFetch(r)
    /\ NextKey(r, IF entries = Nil THEN {} ELSE entries)
    /\ UNCHANGED <<entries, age>>

\* Connection, HTTP status, read or parse error: the verification fails, even
\* though an older list is at hand.
FetchFails(r) ==
    /\ EndFetch(r)
    /\ rpc' = [rpc EXCEPT ![r] = "rejected"]
    /\ UNCHANGED <<entries, age, rindex>>

FetchNeverTimesOut(r) == FALSE /\ FetchFails(r)  \* mutant: no client timeout

FetchTimesOut(r) == elapsed[r] = FetchTimeout /\ FetchFails(r)

-----------------------------------------------------------------------------

Next ==
    \/ \E k \in ListKeys : Publish(k)
    \/ Tick
    \/ \E r \in Callers :
         \/ ListServerAnswers(r)
         \/ Begin(r)
         \/ LookUp(r)
         \/ StartFetch(r)
         \/ FetchSucceeds(r)
         \/ FetchFails(r)
         \/ FetchTimesOut(r)

\* Time passes and the timer of the HTTP client fires.  A goroutine waiting
\* for a sync.Mutex gets it in the end although others keep taking it (the
\* mutex goes into starvation mode after 1 ms), hence strong fairness.  The
\* server need not answer.
Fairness ==
    /\ WF_vars(Tick)
    /\ \A r \in Callers :
         /\ SF_vars(LookUp(r) \/ StartFetch(r))
         /\ WF_vars(FetchTimesOut(r))

Spec == Init /\ [][Next]_vars /\ Fairness

-----------------------------------------------------------------------------

\* revocation.go:69-85.  Fail closed and bounded staleness together: a chain
\* holding a key that had been listed as revoked for longer than the TTL and
\* the fetch timeout when its verification began is never cleared, whatever
\* fetches fail, hang, or are shared with other enrolments.
OverdueKeyNeverCleared ==
    \A r \in Callers : rpc[r] = "cleared" =>
        \A i \in DOMAIN Chain[r] : Chain[r][i] \notin overdue[r]

\* Concurrent refreshes never put an older list in the place of a newer one.
CacheNeverRegresses == [][entries # Nil => entries \subseteq entries']_vars

\* However the list server behaves, every verification comes to an end.
VerificationEnds ==
    \A r \in Callers : rpc[r] = "lock" ~> rpc[r] \in AtRest
=============================================================================
