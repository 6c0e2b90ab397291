--------------------------- MODULE CancelableQueue ---------------------------
(***************************************************************************)
(* What the event router promises: an event is announced, then queued or   *)
(* withdrawn, events leave the queue in order, a cancel may mark any event *)
(* announced or queued, and on leaving exactly the marked events are       *)
(* skipped.  An event can be lost to cancels, and then may be processed    *)
(* although it is marked: when it is announced while another of its id is  *)
(* there, or the other is announced, and when an event is announced while  *)
(* there are events of as many ids as there is room for, which loses those *)
(* of one id.                                                              *)
(***************************************************************************)
EXTENDS Naturals, Sequences, SequencesExt

CONSTANTS Events, IdOf, Capacity, Room

VARIABLES
    announced,  \* events whose publish call has not yet queued them
    waiting,    \* events in the queue, the one just being taken first
    marked,     \* the cancelled ones among them
    lost,       \* those that a cancel may miss
    outcome     \* "none", "processed", "skipped" or "withdrawn" per event

qvars == <<announced, waiting, marked, lost, outcome>>

Init == announced = {} /\ waiting = <<>> /\ marked = {} /\ lost = {}
        /\ outcome = [e \in Events |-> "none"]

Inside      == announced \cup ToSet(waiting)
Sharing(id) == {f \in Inside : IdOf[f] = id}

\* Events of Room ids are there.
Full ==
    \E one \in [1..Room -> Inside] :
        \A i, j \in 1..Room : IdOf[one[i]] = IdOf[one[j]] => i = j

Evicts(gone) == gone = {} \/ (Full /\ \E f \in Inside : gone = Sharing(IdOf[f]))

Announce(e) ==
    /\ outcome[e] = "none" /\ e \notin Inside
    /\ announced' = announced \cup {e}
    /\ LET twins == Sharing(IdOf[e])
       IN  \E gone \in SUBSET Inside :
             /\ Evicts(gone)
             /\ lost' = lost \cup gone \cup twins \cup (IF twins = {} THEN {} ELSE {e})
    /\ UNCHANGED <<waiting, marked, outcome>>

Enqueue(e) ==
    /\ e \in announced /\ Len(waiting) <= Capacity
    /\ announced' = announced \ {e}
    /\ waiting' = Append(waiting, e)
    /\ UNCHANGED <<marked, lost, outcome>>

Withdraw(e) ==
    /\ e \in announced
    /\ announced' = announced \ {e}
    /\ marked' = marked \ {e}
    /\ outcome' = [outcome EXCEPT ![e] = "withdrawn"]
    /\ UNCHANGED <<waiting, lost>>

Cancel(S) ==
    /\ S \subseteq Inside
    /\ marked' = marked \cup S
    /\ UNCHANGED <<announced, waiting, lost, outcome>>

Leave ==
    /\ waiting # <<>>
    /\ LET e == Head(waiting) IN
         /\ \/ e \in marked /\ outcome' = [outcome EXCEPT ![e] = "skipped"]
            \/ (e \notin marked \/ e \in lost) /\ outcome' = [outcome EXCEPT ![e] = "processed"]
         /\ marked' = marked \ {e}
    /\ waiting' = Tail(waiting)
    /\ UNCHANGED <<announced, lost>>

Next == \/ \E e \in Events : Announce(e) \/ Enqueue(e) \/ Withdraw(e)
        \/ \E S \in SUBSET Events : Cancel(S)
        \/ Leave

Spec == Init /\ [][Next]_qvars
=============================================================================
