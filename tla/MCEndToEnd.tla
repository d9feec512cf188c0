----------------------------- MODULE MCEndToEnd -----------------------------
(***************************************************************************)
(* One device with the backend, for TLC: the app as released, where only   *)
(* the Connect button starts a call, and the repository's interface with   *)
(* every entry point.                                                      *)
(***************************************************************************)
EXTENDS EndToEnd

Released ==
    [calls |-> Calls, kinds |-> {"connect"},
     canBeKilled |-> TRUE, keystoreCanFail |-> TRUE]

Interface ==
    [calls |-> Calls, kinds |-> EntryPoints,
     canBeKilled |-> FALSE, keystoreCanFail |-> FALSE]

AllScenarios == {Released, Interface}
=============================================================================
