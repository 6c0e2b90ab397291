------------------------------ MODULE MCDisplay ------------------------------
(* Display on small instances: scripts that are alike beside a setup session *)
(* and a few inbound events.                                                 *)
EXTENDS Display

LOCAL INSTANCE TLC

CONSTANTS a, b

TwoScripts == {a, b}
MCCallers == {a, b, Launcher}
AnyScript == Permutations(TwoScripts)
=============================================================================
