---------------------------- MODULE NonceLedger ----------------------------
(***************************************************************************)
(* What the challenge store promises its callers, with no map, clock or    *)
(* cleanup worker.  A nonce moves one way,                                 *)
(*     fresh -> drawn -> valid -> spent                                    *)
(* and is accepted by at most one verification, which is the one that      *)
(* finds it valid and spends it.  A nonce may expire at any time, a valid  *)
(* one is never refused.                                                   *)
(***************************************************************************)
CONSTANTS Nonces, Verifiers

VARIABLES status, answer

vars == <<status, answer>>

NoAnswer == [nonce |-> {}, ok |-> FALSE]

Init ==
    /\ status = [n \in Nonces |-> "fresh"]
    /\ answer = [v \in Verifiers |-> NoAnswer]

\* A lifetime of zero is over at once.
Draw(n) ==
    /\ status[n] = "fresh"
    /\ \E s \in {"drawn", "spent"} : status' = [status EXCEPT ![n] = s]
    /\ UNCHANGED answer

Issue(n) ==
    /\ status[n] = "drawn"
    /\ status' = [status EXCEPT ![n] = "valid"]
    /\ UNCHANGED answer

Expire ==
    /\ \E E \in SUBSET {n \in Nonces : status[n] \in {"drawn", "valid"}} :
         status' = [n \in Nonces |-> IF n \in E THEN "spent" ELSE status[n]]
    /\ UNCHANGED answer

Redeem(v, n) ==
    /\ answer' = [answer EXCEPT
                    ![v] = [nonce |-> {n}, ok |-> status[n] = "valid"]]
    /\ status' = IF status[n] = "valid"
                 THEN [status EXCEPT ![n] = "spent"]
                 ELSE status

Next ==
    \/ \E n \in Nonces : Draw(n) \/ Issue(n)
    \/ \E n \in Nonces, v \in Verifiers : Redeem(v, n)
    \/ Expire

Spec == Init /\ [][Next]_vars
=============================================================================
