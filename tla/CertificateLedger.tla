-------------------------- MODULE CertificateLedger --------------------------
(***************************************************************************)
(* What the backend promises of the certificates it signs, with no         *)
(* registry record, no list of revoked serials and no request in progress. *)
(* An identity has one current certificate at most.  A certificate becomes *)
(* current once, in place of the one before it, and whatever ends that (a  *)
(* successor, a revocation, a restart of the server, a failure before it   *)
(* even began) ends it for good.                                           *)
(***************************************************************************)
CONSTANTS Serials, Identities, Nil

VARIABLES
    current,  \* the serial an identity is let in with, or Nil
    used      \* serials that are or were current, or never will be

vars == <<current, used>>

Init ==
    /\ current = [id \in Identities |-> Nil]
    /\ used = {}

\* An enrolment of id succeeds.
Grant(id, serial) ==
    /\ serial \notin used
    /\ current' = [current EXCEPT ![id] = serial]
    /\ used' = used \cup {serial}

Withdraw(id) ==
    /\ current' = [current EXCEPT ![id] = Nil]
    /\ UNCHANGED used

\* A certificate is given up before it was current.
Discard(serial) ==
    /\ used' = used \cup {serial}
    /\ UNCHANGED current

\* Everyone has to enrol again, with another certificate.
Forget ==
    /\ current' = [id \in Identities |-> Nil]
    /\ \E S \in SUBSET Serials : used' = used \cup S

Next ==
    \/ \E id \in Identities, serial \in Serials : Grant(id, serial)
    \/ \E id \in Identities : Withdraw(id)
    \/ \E serial \in Serials : Discard(serial)
    \/ Forget

Spec == Init /\ [][Next]_vars
=============================================================================
