---------------------------- MODULE AgentService ----------------------------
(***************************************************************************)
(* What claw_core promises its callers: requests are accepted up to a      *)
(* bound, processed one at a time in the order of acceptance, each gets    *)
(* one result, and a result is "cancelled" only when a cancel was asked    *)
(* while that very request was being processed.                            *)
(***************************************************************************)
EXTENDS Naturals, Sequences

CONSTANTS Requests, Capacity

VARIABLES
    accepted,   \* ids in the order they were accepted
    results,    \* one [id, outcome] per processed request, in order
    busy,       \* the next accepted request is being processed
    asked       \* its cancellation was asked

svars == <<accepted, results, busy, asked>>

Outcomes == {"answered", "failed", "cancelled"}

Waiting == Len(accepted) - Len(results) - (IF busy THEN 1 ELSE 0)

Init == accepted = <<>> /\ results = <<>> /\ busy = FALSE /\ asked = FALSE

Accept(r) ==
    /\ Waiting < Capacity
    /\ accepted' = Append(accepted, r)
    /\ UNCHANGED <<results, busy, asked>>

Start ==
    /\ ~busy /\ Waiting > 0
    /\ busy' = TRUE
    /\ UNCHANGED <<accepted, results, asked>>

AskCancel ==
    /\ busy
    /\ asked' = TRUE
    /\ UNCHANGED <<accepted, results, busy>>

Finish(outcome) ==
    /\ busy
    /\ outcome = "cancelled" => asked
    /\ results' = Append(results, [id |-> accepted[Len(results) + 1],
                                   outcome |-> outcome])
    /\ busy' = FALSE /\ asked' = FALSE
    /\ UNCHANGED accepted

Next == \/ \E r \in Requests : Accept(r)
        \/ Start
        \/ AskCancel
        \/ \E outcome \in Outcomes : Finish(outcome)

Spec == Init /\ [][Next]_svars
=============================================================================
