---------------------- MODULE MCRevocationStatusClient ----------------------
(***************************************************************************)
(* Two verifications: a chain of two keys and one of a single key, which   *)
(* overlap in the key they share.                                          *)
(***************************************************************************)
EXTENDS RevocationStatusClient

CONSTANTS r1, r2, k1, k2

MCChain == [r \in {r1, r2} |-> IF r = r1 THEN <<k1, k2>> ELSE <<k2>>]
=============================================================================
