------------------------- MODULE MCChallengeSystem -------------------------
(***************************************************************************)
(* Two challenge handlers and two enrolments over two nonces: a nonce can  *)
(* be verified twice, verified before it is stored, verified at its expiry *)
(* and lost in a restart, while another one is drawn beside it.            *)
(***************************************************************************)
EXTENDS ChallengeSystem
=============================================================================
