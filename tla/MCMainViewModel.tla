-------------------------- MODULE MCMainViewModel --------------------------
(***************************************************************************)
(* The Android client for TLC: the scenarios of its configurations.        *)
(***************************************************************************)
EXTENDS MainViewModel

\* The button, on a device where everything may go wrong.
ConnectScenario(c) ==
    [calls |-> {c}, kinds |-> {"connect"},
     canBeKilled |-> TRUE, keystoreCanFail |-> TRUE]

\* Every entry point, one call after another, and overlapping.
SequentialScenario(c) ==
    [calls |-> {c}, kinds |-> EntryPoints,
     canBeKilled |-> FALSE, keystoreCanFail |-> FALSE]

OverlappingScenario ==
    [calls |-> Calls, kinds |-> {"enroll", "ping"},
     canBeKilled |-> FALSE, keystoreCanFail |-> FALSE]

AnyCall == CHOOSE c \in Calls : TRUE

AllScenarios ==
    {ConnectScenario(AnyCall), SequentialScenario(AnyCall), OverlappingScenario}

OverlappingScenarios == {OverlappingScenario}

KeystoreFailsScenarios ==
    {[SequentialScenario(AnyCall) EXCEPT !.keystoreCanFail = TRUE]}
=============================================================================
