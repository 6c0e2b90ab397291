---------------------------- MODULE MCEventRouter ----------------------------
(* EventRouter on small instances: three published events and one that a rule *)
(* of the first emits; the second event has no rule, the third is the          *)
(* router's own.                                                               *)
EXTENDS EventRouter

CONSTANTS e1, e2, e3, e4

Plain      == [emit |-> NoEvent, fail_open |-> FALSE]
EmitAction == [emit |-> e4, fail_open |-> TRUE]

MCEvents == {e1, e2, e3, e4}
MCRules  == [e \in MCEvents |->
               IF e = e1 THEN <<<<EmitAction, Plain>>, <<Plain>>>> ELSE <<>>]

\* e2 is published, and e4 emitted, in one millisecond.
Twins    == [e \in MCEvents |-> IF e = e4 THEN e2 ELSE e]
\* e1 and e2 are published, and e4 emitted, in one millisecond.
SameMs   == [e \in MCEvents |-> IF e = e3 THEN e3 ELSE e1]
=============================================================================
