--------------------------- MODULE ServicesProofs ---------------------------
(***************************************************************************)
(* Proofs about what carries requests and messages between tasks, for any  *)
(* number of tasks, requests, clients and messages and any limits.         *)
(*                                                                         *)
(* EventRouter: any assignment of ids and any size of queue and table.     *)
(* First that nothing is skipped that was not cancelled; then that the     *)
(* router implements CancelableQueue, where an event that shares its id or *)
(* is evicted loses its slot, and what it loses is its own (OwnSlots).     *)
(*                                                                         *)
(* HttpReuse (PoolInv): what a pool, the clients and the leases say of     *)
(* each other, as one relation between values, which each step keeps for   *)
(* the client it is about.                                                 *)
(*                                                                         *)
(* LuaHttpServer (AppInv): a request is in one queue or in one script's    *)
(* hands, and open there.                                                  *)
(*                                                                         *)
(* WechatGateway (ChatInv): what is remembered and what is to be           *)
(* processed are runs of numbers around the position that is asked from.   *)
(***************************************************************************)
EXTENDS MCServices, FiniteSetTheorems, SequenceTheorems, WellFoundedInduction, TLAPS

\* The event a rule's emit_event is about.
Emitted == Head(Head(left)).emit

\* Each pending event is in one place: with its publisher, in the queue, at the
\* router task or in a rule's emit_event.
Busy(p) == publisher[p].at # "idle"
PublisherHasEvent ==
    \A p \in Publishers :
        /\ Busy(p) => /\ publisher[p].event \in Events
                      /\ fate[publisher[p].event] = "tracked"
                      /\ pc = "emit" => publisher[p].event # Emitted
        /\ publisher[p].event = NoEvent <=> ~ Busy(p)
        /\ \A q \in Publishers :
             Busy(p) /\ Busy(q) /\ publisher[q].event = publisher[p].event => q = p

QueueHasEvents ==
    /\ \A i \in DOMAIN queue : fate[queue[i]] = "queued"
    /\ \A i, j \in DOMAIN queue : queue[i] = queue[j] => i = j

TaskHasEvent ==
    /\ cur = NoEvent <=> pc = "idle"
    /\ pc = "taken" => fate[cur] = "taken"
    /\ \A e \in Events : fate[e] = "taken" => pc = "taken" /\ cur = e
    /\ pc = "emit" => /\ left # <<>> /\ Head(left) # <<>>
                      /\ Emitted \in Events /\ fate[Emitted] = "tracked"
    /\ mutex <=> pc \in {"rules", "emit"}

\* An id has one slot.
OneSlotPerId ==
    \A s, t \in Slots :
        pending[s].used /\ pending[t].used /\ pending[s].id = pending[t].id => s = t

\* Whatever a cancelled slot would drop was addressed.
CancelledIsAddressed ==
    \A s \in Slots, e \in Events :
        pending[s].used /\ pending[s].cancelled /\ IsPending(e) /\ pending[s].id = IdOf[e]
        => e \in addressed

IInv == /\ TypeOK /\ PublisherHasEvent /\ QueueHasEvents /\ TaskHasEvent
        /\ OneSlotPerId /\ CancelledIsAddressed
        /\ NoStaleSlot /\ SkippedOnlyIfCancelled
-----------------------------------------------------------------------------
(* The table.                                                                *)

\* A nonempty set of numbers has a least one.
LEMMA LeastExists ==
    ASSUME NEW S, S \subseteq Nat, S # {}
    PROVE  \E x \in S : \A y \in S : x <= y
  <1>1. \A x, y \in Nat : <<y, x>> \in OpToRel(<, Nat) <=> y < x
    BY DEF OpToRel
  <1>2. PICK R : R = OpToRel(<, Nat)
    OBVIOUS
  <1>3. IsWellFoundedOn(R, Nat)
    BY <1>2, NatLessThanWellFounded
  <1>4. PICK x \in S : \A y \in S : ~ (<<y, x>> \in R)
    BY <1>3, WFMin
  <1>5. \A y \in S : ~ (y < x)
    BY <1>1, <1>2, <1>4
  <1>6. \A y \in S : x <= y
    BY <1>5
  <1> QED BY <1>6

LEMMA LowestIsMember ==
    ASSUME NEW S, S \subseteq Slots, S # {}
    PROVE  Lowest(S) \in S
  <1>1. Slots \subseteq Nat
    BY ConstantsOK, SMT DEF Slots
  <1>2. \E s \in S : \A t \in S : s <= t
    BY <1>1, LeastExists
  <1> QED BY <1>2 DEF Lowest

\* The slot of an id is its own if it has one.
LEMMA SlotForId ==
    ASSUME NEW id
    PROVE  /\ SlotFor(id) \in Slots
           /\ SlotsOf(id) # {} => SlotFor(id) \in SlotsOf(id)
  <1>1. SlotsOf(id) # {} => Lowest(SlotsOf(id)) \in SlotsOf(id)
    BY LowestIsMember DEF SlotsOf
  <1>2. AllocSlot \in Slots
    <2>1. {s \in Slots : ~pending[s].used} # {} =>
            Lowest({s \in Slots : ~pending[s].used}) \in Slots
      BY LowestIsMember
    <2>2. {s \in Slots : ~pending[s].cancelled} # {} =>
            Lowest({s \in Slots : ~pending[s].cancelled}) \in Slots
      BY LowestIsMember
    <2>3. 1 \in Slots
      BY ConstantsOK DEF Slots
    <2> QED BY <2>1, <2>2, <2>3 DEF AllocSlot
  <1>3. SlotsOf(id) \subseteq Slots
    BY DEF SlotsOf
  <1> QED BY <1>1, <1>2, <1>3 DEF SlotFor

\* The three parts of the invariant that are about the table.
TableInv == OneSlotPerId /\ CancelledIsAddressed /\ NoStaleSlot

\* Tracking an event can lose only events.
LEMMA DisplacesEvents ==
    ASSUME NEW e \in Events, Displaces(e), displaced \subseteq Events
    PROVE  displaced' \subseteq Events
  <1>1. \A id : PendingWith(id) \subseteq Events
    BY DEF PendingWith
  <1>2. (IF PendingWith(IdOf[e]) = {} THEN {} ELSE {e}) \subseteq Events
    OBVIOUS
  <1> QED BY <1>1, <1>2 DEF Displaces

\* What a tracked event finds: its own slot, not cancelled, and the others.
LEMMA TrackTable ==
    ASSUME TypeOK, TableInv, NEW e \in Events, Track(e),
           fate' = [fate EXCEPT ![e] = "tracked"], fate[e] = "new", addressed' = addressed
    PROVE  pending' \in [Slots -> Slot] /\ TableInv'
  <1> DEFINE t == SlotFor(IdOf[e])
             new == [used |-> TRUE, cancelled |-> FALSE, id |-> IdOf[e]]
  <1>1. t \in Slots /\ (SlotsOf(IdOf[e]) # {} => t \in SlotsOf(IdOf[e])) /\ IdOf[e] \in Ids
    BY SlotForId, ConstantsOK
  <1>2. pending' = [pending EXCEPT ![t] = new]
    BY DEF Track
  <1> HIDE DEF t
  <1>3. pending' \in [Slots -> Slot]
    BY <1>1, <1>2 DEF TypeOK, Slot
  <1>4. /\ pending'[t] = new
        /\ \A s \in Slots : s # t => pending'[s] = pending[s]
    BY <1>1, <1>2 DEF TypeOK
  <1>5. \A s \in Slots : s # t /\ pending[s].used => pending[s].id # IdOf[e]
    BY <1>1 DEF TableInv, OneSlotPerId, SlotsOf
  <1>6. \A f \in Events : IsPending(f) /\ f # e <=> IsPending(f)' /\ f # e
    BY DEF IsPending, TypeOK
  <1>7. IsPending(e)' /\ ~ IsPending(e)
    BY DEF IsPending, TypeOK
  <1>8. OneSlotPerId'
    BY <1>4, <1>5 DEF TableInv, OneSlotPerId
  <1>9. CancelledIsAddressed'
    BY <1>4, <1>5, <1>6 DEF TableInv, CancelledIsAddressed
  <1>10. NoStaleSlot'
    <2>1. ASSUME NEW s \in Slots, pending'[s].used
          PROVE  \E f \in Events : IsPending(f)' /\ IdOf[f] = pending'[s].id
      <3>1. CASE s = t
        BY <1>4, <1>7, <3>1
      <3>2. CASE s # t
        <4>1. PICK f \in Events : IsPending(f) /\ IdOf[f] = pending[s].id
          BY <1>4, <2>1, <3>2 DEF TableInv, NoStaleSlot
        <4>2. IsPending(f)'
          BY <1>6, <1>7, <4>1
        <4> QED BY <1>4, <3>2, <4>1, <4>2
      <3> QED BY <3>1, <3>2
    <2> QED BY <2>1 DEF NoStaleSlot
  <1> QED BY <1>3, <1>8, <1>9, <1>10 DEF TableInv

\* What an event that leaves the table does to it.
LEMMA TakeTable ==
    ASSUME TypeOK, TableInv, NEW e \in Events, Take(e), NEW verdict \in Fates,
           fate' = [fate EXCEPT ![e] = verdict], verdict \notin {"tracked", "queued", "taken"},
           addressed' = addressed
    PROVE  pending' \in [Slots -> Slot] /\ TableInv'
  <1>1. \A s \in Slots : pending'[s] = IF s \in SlotsOf(IdOf[e]) THEN FreeSlot ELSE pending[s]
    BY DEF Take
  <1>2. pending' \in [Slots -> Slot]
    <2>1. FreeSlot \in Slot
      BY DEF FreeSlot, Slot
    <2> QED BY <2>1 DEF Take, TypeOK
  <1>3. \A s \in Slots : pending'[s].used => pending'[s] = pending[s] /\ pending[s].id # IdOf[e]
    BY <1>1 DEF FreeSlot, SlotsOf
  <1>4. \A f \in Events : f # e => (IsPending(f)' <=> IsPending(f))
    BY DEF IsPending, TypeOK
  <1>5. ~ IsPending(e)'
    BY DEF IsPending, TypeOK
  <1>6. OneSlotPerId'
    BY <1>3 DEF TableInv, OneSlotPerId
  <1>7. CancelledIsAddressed'
    BY <1>3, <1>4, <1>5 DEF TableInv, CancelledIsAddressed
  <1>8. NoStaleSlot'
    <2>1. ASSUME NEW s \in Slots, pending'[s].used
          PROVE  \E f \in Events : IsPending(f)' /\ IdOf[f] = pending'[s].id
      <3>1. PICK f \in Events : IsPending(f) /\ IdOf[f] = pending[s].id
        BY <1>3, <2>1 DEF TableInv, NoStaleSlot
      <3> QED BY <1>3, <1>4, <2>1, <3>1
    <2> QED BY <2>1 DEF NoStaleSlot
  <1> QED BY <1>2, <1>6, <1>7, <1>8 DEF TableInv

\* What a step that leaves the table alone, and every event pending or not.
LEMMA SameTable ==
    ASSUME TableInv, UNCHANGED <<pending, addressed>>,
           \A e \in Events : IsPending(e)' <=> IsPending(e)
    PROVE  TableInv'
  BY DEF TableInv, OneSlotPerId, CancelledIsAddressed, NoStaleSlot

LEMMA MarkTable ==
    ASSUME TypeOK, TableInv, NEW S \in SUBSET Slots, Mark(S)
    PROVE  /\ pending' \in [Slots -> Slot] /\ addressed' \subseteq Events
           /\ addressed \subseteq addressed' /\ TableInv'
  <1>1. pending' = [s \in Slots |-> [pending[s] EXCEPT !.cancelled = @ \/ s \in S]]
    BY DEF Mark
  <1>2. \A s \in Slots : /\ pending'[s].used = pending[s].used /\ pending'[s].id = pending[s].id
                         /\ pending'[s].cancelled = (pending[s].cancelled \/ s \in S)
    BY <1>1 DEF TypeOK, Slot
  <1>3. pending' \in [Slots -> Slot]
    <2>1. \A s \in Slots : [pending[s] EXCEPT !.cancelled = @ \/ s \in S] \in Slot
      BY DEF TypeOK, Slot
    <2> QED BY <1>1, <2>1
  <1>4. \A e \in Events : IsPending(e)' <=> IsPending(e)
    BY DEF Mark, IsPending
  <1>5. addressed' = addressed \cup
          {e \in Events : IsPending(e) /\ \E s \in S : pending[s].id = IdOf[e]}
    BY DEF Mark
  <1>6. OneSlotPerId' /\ NoStaleSlot'
    BY <1>2, <1>4 DEF TableInv, OneSlotPerId, NoStaleSlot
  <1>7. CancelledIsAddressed'
    BY <1>2, <1>4, <1>5 DEF TableInv, CancelledIsAddressed
  <1> QED BY <1>3, <1>5, <1>6, <1>7 DEF TableInv, TypeOK

-----------------------------------------------------------------------------
(* Publishers.                                                               *)

\* A publisher's steps change its own record.
LEMMA OnePublisher ==
    ASSUME TypeOK, NEW p \in Publishers, NEW w, publisher' = [publisher EXCEPT ![p] = w]
    PROVE  publisher'[p] = w /\ \A q \in Publishers \ {p} : publisher'[q] = publisher[q]
  BY DEF TypeOK

LEMMA PublishTrackKeeps ==
    ASSUME IInv, NEW p \in Publishers, NEW e \in Events, PublishTrack(p, e)
    PROVE  IInv'
  <1> USE DEF IInv
  <1>1. pending' \in [Slots -> Slot] /\ TableInv'
    BY TrackTable DEF PublishTrack, TableInv
  <1>2. /\ publisher'[p] = [event |-> e, at |-> "send"]
        /\ \A q \in Publishers \ {p} : publisher'[q] = publisher[q]
    BY OnePublisher DEF PublishTrack
  <1>3. fate'[e] = "tracked" /\ fate[e] = "new" /\ \A f \in Events \ {e} : fate'[f] = fate[f]
    BY DEF PublishTrack, TypeOK
  <1>4. TypeOK'
    <2>1. displaced' \subseteq Events
      BY DisplacesEvents DEF PublishTrack, TypeOK
    <2> QED BY <1>1, <2>1 DEF PublishTrack, TypeOK, Fates, taskVars
  <1>5. PublisherHasEvent'
    <2>1. UNCHANGED <<pc, Emitted>> /\ e # NoEvent /\ (pc = "emit" => e # Emitted)
      BY <1>3, ConstantsOK DEF PublishTrack, taskVars, Emitted, TaskHasEvent
    <2> QED BY <1>2, <1>3, <2>1 DEF PublisherHasEvent, Busy
  <1>6. QueueHasEvents'
    BY <1>3 DEF PublishTrack, QueueHasEvents, TypeOK
  <1>7. TaskHasEvent'
    BY <1>3, ConstantsOK DEF PublishTrack, TaskHasEvent, taskVars, Emitted, TypeOK
  <1>8. SkippedOnlyIfCancelled'
    BY <1>3 DEF PublishTrack, SkippedOnlyIfCancelled
  <1> QED BY <1>1, <1>4, <1>5, <1>6, <1>7, <1>8 DEF TableInv

LEMMA PublishSendKeeps ==
    ASSUME IInv, NEW p \in Publishers, PublishSend(p)
    PROVE  IInv'
  <1> USE DEF IInv
  <1>0. PICK e \in Events : e = publisher[p].event /\ fate[e] = "tracked" /\ Busy(p)
    BY DEF PublishSend, PublisherHasEvent, Busy
  <1>1. /\ publisher'[p] = Idle
        /\ \A q \in Publishers \ {p} : publisher'[q] = publisher[q]
    BY OnePublisher DEF PublishSend
  <1>2. fate'[e] = "queued" /\ \A f \in Events \ {e} : fate'[f] = fate[f]
    BY <1>0 DEF PublishSend, TypeOK
  <1>3. TableInv'
    BY <1>0, <1>2, SameTable DEF PublishSend, TableInv, IsPending
  <1>4. /\ queue' = Append(queue, e) /\ Len(queue) < QueueLen /\ queue \in Seq(Events)
        /\ UNCHANGED <<pending, pc, cur, left, mutex, addressed, displaced>>
    BY <1>0 DEF PublishSend, HasRoom, AtBack, TypeOK, taskVars
  <1>5. TypeOK'
    <2>1. queue' \in Seq(Events) /\ Len(queue') <= QueueLen
      BY <1>4, ConstantsOK
    <2>2. fate' \in [Events -> Fates]
      BY <1>0 DEF PublishSend, TypeOK, Fates
    <2>3. publisher' \in [Publishers -> [event : Events \cup {NoEvent},
                                         at : {"idle", "send", "untrack"}]]
      BY DEF PublishSend, TypeOK, Idle
    <2> QED BY <1>4, <2>1, <2>2, <2>3 DEF TypeOK
  <1>6. PublisherHasEvent'
    BY <1>0, <1>1, <1>2, <1>4 DEF PublisherHasEvent, Busy, Idle, Emitted
  <1>7. QueueHasEvents'
    <2>1. \A i \in DOMAIN queue : queue[i] # e /\ queue[i] \in Events
      BY <1>0, <1>4 DEF QueueHasEvents
    <2>2. /\ DOMAIN queue' = DOMAIN queue \cup {Len(queue) + 1}
          /\ queue'[Len(queue) + 1] = e
          /\ \A i \in DOMAIN queue : queue'[i] = queue[i] /\ i # Len(queue) + 1
      BY <1>4
    <2> QED BY <1>2, <2>1, <2>2 DEF QueueHasEvents
  <1>8. TaskHasEvent'
    BY <1>0, <1>2, <1>4 DEF TaskHasEvent, PublisherHasEvent, Emitted, TypeOK
  <1>9. SkippedOnlyIfCancelled'
    BY <1>2, <1>4 DEF SkippedOnlyIfCancelled
  <1> QED BY <1>3, <1>5, <1>6, <1>7, <1>8, <1>9 DEF TableInv

LEMMA PublishTimeoutKeeps ==
    ASSUME IInv, NEW p \in Publishers, PublishTimeout(p)
    PROVE  IInv'
  <1> USE DEF IInv
  <1>1. UNCHANGED <<queue, pending, pc, cur, left, mutex, fate, addressed, displaced>>
    BY DEF PublishTimeout, taskVars
  <1>2. /\ publisher'[p].event = publisher[p].event /\ publisher'[p].at = "untrack" /\ Busy(p)
        /\ \A q \in Publishers \ {p} : publisher'[q] = publisher[q]
    BY DEF PublishTimeout, TypeOK, Busy
  <1>3. TypeOK'
    BY <1>1 DEF PublishTimeout, TypeOK
  <1>4. PublisherHasEvent'
    BY <1>1, <1>2 DEF PublisherHasEvent, Busy, Emitted
  <1>5. TableInv'
    BY <1>1, SameTable DEF TableInv, IsPending
  <1> QED BY <1>1, <1>3, <1>4, <1>5
      DEF TableInv, QueueHasEvents, TaskHasEvent, Emitted, SkippedOnlyIfCancelled

LEMMA PublishUntrackKeeps ==
    ASSUME IInv, NEW p \in Publishers, PublishUntrack(p)
    PROVE  IInv'
  <1> USE DEF IInv
  <1>0. PICK e \in Events : e = publisher[p].event /\ fate[e] = "tracked" /\ Busy(p)
    BY DEF PublishUntrack, PublisherHasEvent, Busy
  <1>1. /\ publisher'[p] = Idle
        /\ \A q \in Publishers \ {p} : publisher'[q] = publisher[q]
    BY OnePublisher DEF PublishUntrack
  <1>2. fate'[e] = "rejected" /\ \A f \in Events \ {e} : fate'[f] = fate[f]
    BY <1>0 DEF PublishUntrack, TypeOK
  <1>3. pending' \in [Slots -> Slot] /\ TableInv'
    BY <1>0, TakeTable DEF PublishUntrack, TableInv, Fates
  <1>4. UNCHANGED <<queue, pc, cur, left, mutex, addressed, displaced>>
    BY DEF PublishUntrack, taskVars
  <1>5. TypeOK'
    BY <1>0, <1>3, <1>4 DEF PublishUntrack, TypeOK, Idle, Fates
  <1>6. PublisherHasEvent'
    BY <1>0, <1>1, <1>2, <1>4 DEF PublisherHasEvent, Busy, Idle, Emitted
  <1>7. QueueHasEvents'
    BY <1>0, <1>2, <1>4 DEF QueueHasEvents, TypeOK
  <1>8. TaskHasEvent'
    BY <1>0, <1>2, <1>4 DEF TaskHasEvent, PublisherHasEvent, Emitted, TypeOK
  <1>9. SkippedOnlyIfCancelled'
    BY <1>2, <1>4 DEF SkippedOnlyIfCancelled
  <1> QED BY <1>3, <1>5, <1>6, <1>7, <1>8, <1>9 DEF TableInv

\* Cancels and purges.
LEMMA MarkKeeps ==
    ASSUME IInv, NEW S \in SUBSET Slots, Mark(S)
    PROVE  IInv'
  <1> USE DEF IInv
  <1>1. /\ pending' \in [Slots -> Slot] /\ addressed' \subseteq Events
        /\ addressed \subseteq addressed' /\ TableInv'
    BY MarkTable DEF TableInv
  <1>2. UNCHANGED <<queue, publisher, pc, cur, left, mutex, fate, displaced>>
    BY DEF Mark, taskVars
  <1> QED BY <1>1, <1>2 DEF TableInv, TypeOK, PublisherHasEvent, Busy, QueueHasEvents,
             TaskHasEvent, Emitted, SkippedOnlyIfCancelled

-----------------------------------------------------------------------------
(* The router task.                                                          *)

LEMMA ReceiveKeeps == IInv /\ Receive => IInv'
  <1> SUFFICES ASSUME IInv, Receive PROVE IInv'
    OBVIOUS
  <1> USE DEF IInv
  <1>0. /\ queue \in Seq(Events) /\ queue # <<>> /\ Len(queue) <= QueueLen
        /\ cur' = Head(queue) /\ queue' = Tail(queue) /\ pc' = "taken" /\ pc = "idle"
        /\ UNCHANGED <<pending, publisher, left, mutex, addressed, displaced>>
    BY DEF Receive, TypeOK
  <1>1. PICK e \in Events : e = queue[1] /\ e = Head(queue) /\ fate[e] = "queued"
    <2>1. 1 \in DOMAIN queue /\ Head(queue) = queue[1] /\ queue[1] \in Events
      BY <1>0
    <2> QED BY <2>1 DEF QueueHasEvents
  <1>2. fate'[e] = "taken" /\ \A f \in Events \ {e} : fate'[f] = fate[f]
    BY <1>1 DEF Receive, TypeOK
  <1>3. TableInv'
    BY <1>0, <1>1, <1>2, SameTable DEF TableInv, IsPending
  <1>4. TypeOK'
    <2>1. queue' \in Seq(Events) /\ Len(queue') <= QueueLen
      BY <1>0, ConstantsOK
    <2>2. fate' \in [Events -> Fates]
      BY <1>1 DEF Receive, TypeOK, Fates
    <2> QED BY <1>0, <1>1, <2>1, <2>2 DEF TypeOK, TaskPcs
  <1>5. PublisherHasEvent'
    BY <1>0, <1>1, <1>2 DEF PublisherHasEvent, Busy
  <1>6. QueueHasEvents'
    <2>1. \A i \in DOMAIN queue' : i + 1 \in DOMAIN queue /\ i + 1 # 1 /\ queue'[i] = queue[i + 1]
      BY <1>0
    <2>2. 1 \in DOMAIN queue /\ \A i \in DOMAIN queue' : queue'[i] \in Events
      BY <1>0
    <2>3. \A i, j \in DOMAIN queue' : i + 1 = j + 1 => i = j
      BY <1>0
    <2> QED BY <1>1, <1>2, <2>1, <2>2, <2>3 DEF QueueHasEvents
  <1>7. TaskHasEvent'
    BY <1>0, <1>1, <1>2, ConstantsOK DEF TaskHasEvent
  <1>8. SkippedOnlyIfCancelled'
    BY <1>0, <1>2 DEF SkippedOnlyIfCancelled
  <1> QED BY <1>3, <1>4, <1>5, <1>6, <1>7, <1>8 DEF TableInv

\* The verdict on the event just taken: skipped only if it was addressed.
LEMMA CheckCancelledKeeps == IInv /\ CheckCancelled => IInv'
  <1> SUFFICES ASSUME IInv, CheckCancelled PROVE IInv'
    OBVIOUS
  <1> USE DEF IInv
  <1>0. cur \in Events /\ pc = "taken" /\ fate[cur] = "taken" /\ Take(cur)
    BY DEF CheckCancelled, TaskHasEvent, TypeOK
  <1>1. PICK verdict \in {"skipped", "processed"} :
          /\ fate' = [fate EXCEPT ![cur] = verdict]
          /\ verdict = "skipped" => WasCancelled(cur) /\ pc' = "idle" /\ cur' = NoEvent
          /\ verdict = "processed" => pc' = "process" /\ cur' = cur
    BY DEF CheckCancelled
  <1>2. UNCHANGED <<queue, publisher, left, mutex, addressed, displaced>>
    BY DEF CheckCancelled
  <1>3. fate'[cur] = verdict /\ \A f \in Events \ {cur} : fate'[f] = fate[f]
    BY <1>0, <1>1 DEF TypeOK
  <1>4. pending' \in [Slots -> Slot] /\ TableInv'
    BY <1>0, <1>1, <1>2, TakeTable DEF TableInv, Fates
  <1>5. TypeOK'
    BY <1>0, <1>1, <1>2, <1>4 DEF TypeOK, Fates, TaskPcs
  <1>6. PublisherHasEvent'
    BY <1>0, <1>1, <1>2, <1>3 DEF PublisherHasEvent, Busy
  <1>7. QueueHasEvents'
    BY <1>0, <1>2, <1>3 DEF QueueHasEvents, TypeOK
  <1>8. TaskHasEvent'
    BY <1>0, <1>1, <1>2, <1>3, ConstantsOK DEF TaskHasEvent
  <1>9. SkippedOnlyIfCancelled'
    <2>1. verdict = "skipped" => cur \in addressed
      BY <1>0, <1>1 DEF WasCancelled, SlotsOf, CancelledIsAddressed, IsPending
    <2> QED BY <1>2, <1>3, <2>1 DEF SkippedOnlyIfCancelled
  <1> QED BY <1>4, <1>5, <1>6, <1>7, <1>8, <1>9 DEF TableInv

\* What is left of the rules stays a list of rules.
LEMMA AfterActionType ==
    ASSUME left \in Seq(Seq(Action)), left # <<>>, Head(left) # <<>>,
           NEW ok \in BOOLEAN, AfterAction(ok)
    PROVE  left' \in Seq(Seq(Action))
  <1>1. Head(left) \in Seq(Action) /\ Tail(left) \in Seq(Seq(Action))
    OBVIOUS
  <1>2. Tail(Head(left)) \in Seq(Action)
    BY <1>1
  <1>3. <<Tail(Head(left))>> \o Tail(left) \in Seq(Seq(Action))
    BY <1>1, <1>2
  <1> QED BY <1>1, <1>3 DEF AfterAction

\* Steps that concern only the rules and the mutex.
LEMMA RulesKeep ==
    ASSUME IInv, ProcessEvent \/ DefaultAgent \/ RunAction \/ FinishRules
    PROVE  IInv'
  <1> USE DEF IInv
  <1>1. UNCHANGED <<queue, pending, publisher, fate, addressed, displaced>>
    BY DEF ProcessEvent, DefaultAgent, RunAction, FinishRules
  <1>2. TableInv'
    BY <1>1, SameTable DEF TableInv, IsPending
  <1>3. /\ pc' \in {"idle", "agent", "rules"} /\ pc \in {"process", "agent", "rules"}
        /\ cur' = IF pc' = "idle" THEN NoEvent ELSE cur
        /\ mutex' = (pc' = "rules")
    BY DEF ProcessEvent, DefaultAgent, RunAction, FinishRules, GiveMutex, TaskHasEvent, TypeOK
  <1>4. left' \in Seq(Seq(Action))
    <2>1. CASE ProcessEvent
      BY <2>1, ConstantsOK DEF ProcessEvent, TypeOK, TaskHasEvent
    <2>2. CASE DefaultAgent \/ FinishRules
      BY <2>2 DEF DefaultAgent, FinishRules, TypeOK
    <2>3. CASE RunAction
      <3>1. left \in Seq(Seq(Action)) /\ left # <<>>
        BY <2>3 DEF RunAction, TypeOK
      <3>2. CASE Head(left) = <<>>
        <4>1. left' = Tail(left)
          BY <2>3, <3>2 DEF RunAction
        <4> QED BY <3>1, <4>1
      <3>3. CASE Head(left) # <<>>
        BY <2>3, <3>1, <3>3, AfterActionType DEF RunAction
      <3> QED BY <3>2, <3>3
    <2> QED BY <2>1, <2>2, <2>3
  <1>5. cur \in Events /\ cur # NoEvent
    BY <1>3, ConstantsOK DEF TaskHasEvent, TypeOK
  <1>6. TypeOK'
    BY <1>1, <1>3, <1>4, <1>5 DEF TypeOK, TaskPcs
  <1>7. PublisherHasEvent' /\ QueueHasEvents' /\ SkippedOnlyIfCancelled'
    BY <1>1, <1>3 DEF PublisherHasEvent, Busy, QueueHasEvents, SkippedOnlyIfCancelled
  <1>8. TaskHasEvent'
    BY <1>1, <1>3, <1>5 DEF TaskHasEvent
  <1> QED BY <1>2, <1>6, <1>7, <1>8 DEF TableInv

\* The router task's own publish.
LEMMA EmitTrackKeeps == IInv /\ EmitTrack => IInv'
  <1> SUFFICES ASSUME IInv, EmitTrack PROVE IInv'
    OBVIOUS
  <1> USE DEF IInv
  <1>0. /\ pc = "rules" /\ pc' = "emit" /\ left # <<>> /\ Head(left) # <<>>
        /\ left \in Seq(Seq(Action))
        /\ UNCHANGED <<queue, publisher, cur, left, mutex, addressed>>
    BY DEF EmitTrack, TypeOK
  <1>1. PICK e \in Events : /\ e = Emitted /\ fate[e] = "new" /\ Track(e) /\ Displaces(e)
                            /\ fate' = [fate EXCEPT ![e] = "tracked"]
    <2>1. Head(left) \in Seq(Action)
      BY <1>0
    <2>2. Head(Head(left)) \in Action
      BY <1>0, <2>1
    <2> QED BY <2>2 DEF EmitTrack, Emitted, Action
  <1>2. fate'[e] = "tracked" /\ \A f \in Events \ {e} : fate'[f] = fate[f]
    BY <1>1 DEF TypeOK
  <1>3. pending' \in [Slots -> Slot] /\ TableInv'
    BY <1>0, <1>1, TrackTable DEF TableInv
  <1>4. TypeOK'
    <2>1. displaced' \subseteq Events
      BY <1>1, DisplacesEvents DEF TypeOK
    <2> QED BY <1>0, <1>1, <1>3, <2>1 DEF TypeOK, Fates, TaskPcs
  <1>5. Emitted' = e
    BY <1>0, <1>1 DEF Emitted
  <1>6. PublisherHasEvent'
    BY <1>0, <1>1, <1>2, <1>5 DEF PublisherHasEvent, Busy
  <1>7. QueueHasEvents'
    BY <1>0, <1>1, <1>2 DEF QueueHasEvents, TypeOK
  <1>8. TaskHasEvent'
    BY <1>0, <1>1, <1>2, <1>5 DEF TaskHasEvent, TypeOK
  <1>9. SkippedOnlyIfCancelled'
    BY <1>0, <1>2 DEF SkippedOnlyIfCancelled
  <1> QED BY <1>3, <1>4, <1>6, <1>7, <1>8, <1>9 DEF TableInv

LEMMA EmitSendKeeps == IInv /\ EmitSend => IInv'
  <1> SUFFICES ASSUME IInv, EmitSend PROVE IInv'
    OBVIOUS
  <1> USE DEF IInv
  <1>0. PICK e \in Events : /\ e = Emitted /\ fate[e] = "tracked"
                            /\ fate' = [fate EXCEPT ![e] = "queued"]
    BY DEF EmitSend, Emitted, TaskHasEvent
  <1>1. /\ queue' = Append(queue, e) /\ Len(queue) < QueueLen /\ queue \in Seq(Events)
        /\ pc = "emit" /\ pc' = "rules" /\ cur # NoEvent /\ mutex
        /\ UNCHANGED <<pending, publisher, cur, mutex, addressed, displaced>>
    BY <1>0 DEF EmitSend, HasRoom, AtBack, TypeOK, TaskHasEvent, Emitted
  <1>2. fate'[e] = "queued" /\ \A f \in Events \ {e} : fate'[f] = fate[f]
    BY <1>0 DEF TypeOK
  <1>3. TableInv'
    BY <1>0, <1>1, <1>2, SameTable DEF TableInv, IsPending
  <1>4. TypeOK'
    <2>1. left' \in Seq(Seq(Action))
      BY AfterActionType DEF EmitSend, TaskHasEvent, TypeOK
    <2>2. queue' \in Seq(Events) /\ Len(queue') <= QueueLen
      BY <1>1, ConstantsOK
    <2>3. fate' \in [Events -> Fates]
      BY <1>0 DEF TypeOK, Fates
    <2> QED BY <1>1, <2>1, <2>2, <2>3 DEF TypeOK, TaskPcs
  <1>5. PublisherHasEvent'
    BY <1>0, <1>1, <1>2 DEF PublisherHasEvent, Busy
  <1>6. QueueHasEvents'
    <2>1. \A i \in DOMAIN queue : queue[i] # e /\ queue[i] \in Events
      BY <1>0, <1>1 DEF QueueHasEvents
    <2>2. /\ DOMAIN queue' = DOMAIN queue \cup {Len(queue) + 1}
          /\ queue'[Len(queue) + 1] = e
          /\ \A i \in DOMAIN queue : queue'[i] = queue[i] /\ i # Len(queue) + 1
      BY <1>1
    <2> QED BY <1>2, <2>1, <2>2 DEF QueueHasEvents
  <1>7. TaskHasEvent'
    BY <1>0, <1>1, <1>2 DEF TaskHasEvent, TypeOK
  <1>8. SkippedOnlyIfCancelled'
    BY <1>1, <1>2 DEF SkippedOnlyIfCancelled
  <1> QED BY <1>3, <1>4, <1>5, <1>6, <1>7, <1>8 DEF TableInv

LEMMA EmitTimeoutKeeps == IInv /\ EmitTimeout => IInv'
  <1> SUFFICES ASSUME IInv, EmitTimeout PROVE IInv'
    OBVIOUS
  <1> USE DEF IInv
  <1>0. PICK e \in Events : /\ e = Emitted /\ fate[e] = "tracked" /\ Take(e)
                            /\ fate' = [fate EXCEPT ![e] = "rejected"]
    BY DEF EmitTimeout, Emitted, TaskHasEvent
  <1>1. /\ pc = "emit" /\ pc' = "rules" /\ cur # NoEvent /\ mutex
        /\ UNCHANGED <<queue, publisher, cur, mutex, addressed, displaced>>
    BY DEF EmitTimeout, TaskHasEvent
  <1>2. fate'[e] = "rejected" /\ \A f \in Events \ {e} : fate'[f] = fate[f]
    BY <1>0 DEF TypeOK
  <1>3. pending' \in [Slots -> Slot] /\ TableInv'
    BY <1>0, <1>1, TakeTable DEF TableInv, Fates
  <1>4. TypeOK'
    <2>1. left' \in Seq(Seq(Action))
      BY AfterActionType DEF EmitTimeout, TaskHasEvent, TypeOK
    <2>2. fate' \in [Events -> Fates]
      BY <1>0 DEF TypeOK, Fates
    <2> QED BY <1>1, <1>3, <2>1, <2>2 DEF TypeOK, TaskPcs
  <1>5. PublisherHasEvent'
    BY <1>0, <1>1, <1>2 DEF PublisherHasEvent, Busy
  <1>6. QueueHasEvents'
    BY <1>0, <1>1, <1>2 DEF QueueHasEvents, TypeOK
  <1>7. TaskHasEvent'
    BY <1>0, <1>1, <1>2 DEF TaskHasEvent, TypeOK
  <1>8. SkippedOnlyIfCancelled'
    BY <1>1, <1>2 DEF SkippedOnlyIfCancelled
  <1> QED BY <1>3, <1>4, <1>5, <1>6, <1>7, <1>8 DEF TableInv
-----------------------------------------------------------------------------
(* The invariant.                                                            *)

LEMMA InitHolds == Init => IInv
  <1> SUFFICES ASSUME Init PROVE IInv
    OBVIOUS
  <1> USE DEF Init
  <1>1. TypeOK
    <2>1. FreeSlot \in Slot /\ Idle \in [event : Events \cup {NoEvent},
                                         at : {"idle", "send", "untrack"}]
      BY DEF FreeSlot, Slot, Idle
    <2>2. queue \in Seq(Events) /\ Len(queue) <= QueueLen /\ left \in Seq(Seq(Action))
      BY ConstantsOK
    <2> QED BY <2>1, <2>2 DEF TypeOK, TaskPcs, Fates
  <1>2. PublisherHasEvent
    BY DEF PublisherHasEvent, Busy, Idle
  <1>3. QueueHasEvents /\ TaskHasEvent
    BY DEF QueueHasEvents, TaskHasEvent
  <1>4. OneSlotPerId /\ CancelledIsAddressed /\ NoStaleSlot /\ SkippedOnlyIfCancelled
    BY DEF OneSlotPerId, CancelledIsAddressed, NoStaleSlot, SkippedOnlyIfCancelled, FreeSlot
  <1> QED BY <1>1, <1>2, <1>3, <1>4 DEF IInv

LEMMA StepKeeps == IInv /\ [Next]_vars => IInv'
  <1> SUFFICES ASSUME IInv, [Next]_vars PROVE IInv'
    OBVIOUS
  <1>1. CASE RouterTask
    BY <1>1, ReceiveKeeps, CheckCancelledKeeps, RulesKeep, EmitTrackKeeps, EmitSendKeeps,
       EmitTimeoutKeeps DEF RouterTask
  <1>2. CASE \E p \in Publishers : Publish(p) \/ \E e \in Events : PublishTrack(p, e)
    BY <1>2, PublishTrackKeeps, PublishSendKeeps, PublishTimeoutKeeps, PublishUntrackKeeps
       DEF Publish
  <1>3. CASE \E id \in Ids : CancelEvent(id)
    <2>1. PICK id \in Ids : Mark(SlotsOf(id))
      BY <1>3 DEF CancelEvent
    <2>2. SlotsOf(id) \in SUBSET Slots
      BY DEF SlotsOf
    <2> QED BY <2>1, <2>2, MarkKeeps
  <1>4. CASE \E F \in SUBSET Ids : PurgeQueue(F)
    <2>1. PICK F \in SUBSET Ids : PurgeQueue(F)
      BY <1>4
    <2>2. PICK S : /\ S = {s \in Slots : pending[s].used /\ ~pending[s].cancelled
                                         /\ pending[s].id \in F}
                   /\ Mark(S)
      BY <2>1 DEF PurgeQueue
    <2> QED BY <2>2, MarkKeeps
  <1>5. CASE UNCHANGED vars
    <2>1. UNCHANGED <<queue, pending, publisher, pc, cur, left, mutex, fate, addressed, displaced>>
      BY <1>5 DEF vars, taskVars
    <2>2. TableInv'
      BY <2>1, SameTable DEF IInv, TableInv, IsPending
    <2> QED BY <2>1, <2>2 DEF IInv, TableInv, TypeOK, PublisherHasEvent, Busy, QueueHasEvents,
               TaskHasEvent, Emitted, SkippedOnlyIfCancelled
  <1> QED BY <1>1, <1>2, <1>3, <1>4, <1>5 DEF Next

LEMMA Invariant == Spec => []IInv
  BY InitHolds, StepKeeps, PTL DEF Spec

\* Every variable of the router stays in its type: the queue within its length,
\* the table's slots with ids that exist.
THEOREM TypeCorrect == Spec => []TypeOK
  BY Invariant, PTL DEF IInv

\* The router task drops no event that no cancel or purge addressed, however
\* many events share an id and however small the table
\* (claw_event_router_task, pending_take_for_event_id).
THEOREM SkipsAreAddressed == Spec => []SkippedOnlyIfCancelled
  BY Invariant, PTL DEF IInv

\* The table never keeps a slot for an id none of whose events is pending
\* (pending_track, pending_untrack, pending_take_for_event_id).
THEOREM TableIsFresh == Spec => []NoStaleSlot
  BY Invariant, PTL DEF IInv
-----------------------------------------------------------------------------
(* The queue with cancelling.                                                *)

\* Where a pending event is.
Located ==
    \A e \in Events :
        /\ fate[e] = "tracked" =>
              (\E p \in Publishers : Busy(p) /\ publisher[p].event = e)
              \/ (pc = "emit" /\ e = Emitted)
        /\ fate[e] = "queued" => \E i \in DOMAIN queue : queue[i] = e

\* A pending event that was not displaced has its slot, so a cancel finds it, ...
HasSlot == \A e \in Events \ displaced : IsPending(e) => SlotsOf(IdOf[e]) # {}

\* ... shares it with nobody, ...
SlotIsOwn ==
    \A e \in Events \ displaced, f \in Events :
        IsPending(e) /\ IsPending(f) /\ IdOf[f] = IdOf[e] => f = e

\* ... and is skipped in the end if it is addressed.
CancelSticks ==
    \A e \in addressed :
        /\ fate[e] # "new"
        /\ e \notin displaced =>
              /\ fate[e] # "processed"
              /\ IsPending(e) => \A s \in SlotsOf(IdOf[e]) : pending[s].cancelled

OwnSlots == HasSlot /\ SlotIsOwn /\ CancelSticks

CancelInv == IInv /\ Located /\ OwnSlots
-----------------------------------------------------------------------------
(* What the steps do to the table.                                           *)

\* A tracked event takes their slots from those it displaces, and from no other.
LEMMA TrackOwn ==
    ASSUME IInv, OwnSlots, NEW e \in Events, Track(e), Displaces(e), fate[e] = "new",
           fate' = [fate EXCEPT ![e] = "tracked"], addressed' = addressed
    PROVE  OwnSlots' /\ Marked' = Marked
  <1> USE DEF IInv
  <1>1. PICK t \in Slots : t = SlotFor(IdOf[e])
    BY SlotForId
  <1>2. /\ pending'[t] = [used |-> TRUE, cancelled |-> FALSE, id |-> IdOf[e]]
        /\ \A s \in Slots \ {t} : pending'[s] = pending[s]
    BY <1>1 DEF Track, TypeOK
  <1>3. /\ IsPending(e)' /\ ~ IsPending(e)
        /\ \A f \in Events \ {e} : fate'[f] = fate[f] /\ (IsPending(f)' <=> IsPending(f))
    BY DEF IsPending, TypeOK
  <1>4. PICK twins : twins = PendingWith(IdOf[e])
    OBVIOUS
  <1>5. displaced' = displaced \cup twins \cup (IF twins = {} THEN {} ELSE {e})
                     \cup (IF pending[t].used THEN PendingWith(pending[t].id) ELSE {})
    BY <1>1, <1>4 DEF Displaces
  <1>6. ASSUME NEW f \in Events \ displaced', IsPending(f)', f # e
        PROVE  /\ f \notin displaced /\ IsPending(f) /\ IdOf[f] # IdOf[e]
               /\ t \notin SlotsOf(IdOf[f]) /\ SlotsOf(IdOf[f])' = SlotsOf(IdOf[f])
               /\ \A s \in SlotsOf(IdOf[f]) : pending'[s] = pending[s]
    <2>1. f \notin displaced /\ f \notin twins /\ IsPending(f)
      BY <1>3, <1>5, <1>6
    <2>2. IdOf[f] # IdOf[e]
      BY <1>4, <2>1 DEF PendingWith
    <2>3. pending[t].used => pending[t].id # IdOf[f]
      BY <1>5, <1>6, <2>1 DEF PendingWith
    <2>4. t \notin SlotsOf(IdOf[f])
      BY <2>3 DEF SlotsOf
    <2>5. SlotsOf(IdOf[f])' = SlotsOf(IdOf[f])
      BY <1>2, <2>2, <2>4 DEF SlotsOf
    <2>6. \A s \in SlotsOf(IdOf[f]) : pending'[s] = pending[s]
      BY <1>2, <2>4 DEF SlotsOf
    <2> QED BY <2>1, <2>2, <2>4, <2>5, <2>6
  <1>7. HasSlot'
    <2>1. t \in SlotsOf(IdOf[e])'
      BY <1>2 DEF SlotsOf
    <2> QED BY <1>6, <2>1 DEF OwnSlots, HasSlot
  <1>8. SlotIsOwn'
    <2>1. ASSUME NEW f \in Events \ displaced', NEW g \in Events, IsPending(f)', IsPending(g)',
                 IdOf[g] = IdOf[f]
          PROVE  g = f
      <3>1. CASE f = e
        <4>1. twins = {}
          BY <1>5, <2>1, <3>1
        <4> QED BY <1>3, <1>4, <2>1, <3>1, <4>1 DEF PendingWith
      <3>2. CASE f # e
        <4>1. f \notin displaced /\ IsPending(f) /\ IdOf[f] # IdOf[e]
          BY <1>6, <2>1, <3>2
        <4>2. IsPending(g)
          BY <1>3, <2>1, <4>1
        <4> QED BY <2>1, <4>1, <4>2 DEF OwnSlots, SlotIsOwn
      <3> QED BY <3>1, <3>2
    <2> QED BY <2>1 DEF SlotIsOwn
  <1>9. CancelSticks'
    <2>1. e \notin addressed /\ addressed \subseteq Events /\ displaced \subseteq displaced'
      BY <1>5 DEF OwnSlots, CancelSticks, TypeOK
    <2>2. ASSUME NEW f \in addressed
          PROVE  /\ fate'[f] # "new"
                 /\ f \notin displaced' =>
                       /\ fate'[f] # "processed"
                       /\ IsPending(f)' => \A s \in SlotsOf(IdOf[f])' : pending'[s].cancelled
      <3>1. f \in Events /\ f # e
        BY <2>1
      <3> QED BY <1>3, <1>6, <2>1, <3>1 DEF OwnSlots, CancelSticks
    <2> QED BY <2>2 DEF CancelSticks
  <1>10. Marked' = Marked
    <2>1. e \notin addressed /\ addressed \subseteq Events
      BY DEF OwnSlots, CancelSticks, TypeOK
    <2> QED BY <1>3, <2>1 DEF Marked
  <1> QED BY <1>7, <1>8, <1>9, <1>10 DEF OwnSlots

\* An event that leaves the table takes nobody's slot but its own; it is processed
\* only if it was not cancelled.
LEMMA TakeOwn ==
    ASSUME IInv, OwnSlots, NEW e \in Events, Take(e), IsPending(e),
           NEW verdict \in {"processed", "skipped", "rejected"},
           verdict = "processed" => ~ WasCancelled(e),
           fate' = [fate EXCEPT ![e] = verdict], UNCHANGED <<addressed, displaced>>
    PROVE  OwnSlots' /\ Marked' = Marked \ {e}
  <1> USE DEF IInv
  <1>1. \A s \in Slots : pending'[s] = IF s \in SlotsOf(IdOf[e]) THEN FreeSlot ELSE pending[s]
    BY DEF Take
  <1>2. /\ ~ IsPending(e)' /\ fate'[e] = verdict
        /\ \A f \in Events \ {e} : fate'[f] = fate[f] /\ (IsPending(f)' <=> IsPending(f))
    BY DEF IsPending, TypeOK
  <1>3. ASSUME NEW f \in Events \ displaced, IsPending(f), f # e
        PROVE  /\ SlotsOf(IdOf[f])' = SlotsOf(IdOf[f])
               /\ \A s \in SlotsOf(IdOf[f]) : pending'[s] = pending[s]
    <2>1. IdOf[f] # IdOf[e]
      BY <1>3 DEF OwnSlots, SlotIsOwn
    <2> QED BY <1>1, <2>1 DEF SlotsOf, FreeSlot
  <1>4. HasSlot'
    BY <1>2, <1>3 DEF OwnSlots, HasSlot
  <1>5. SlotIsOwn'
    BY <1>2 DEF OwnSlots, SlotIsOwn
  <1>6. CancelSticks'
    <2>1. addressed \subseteq Events
      BY DEF TypeOK
    <2>2. verdict = "processed" /\ e \in addressed => e \in displaced
      BY DEF OwnSlots, HasSlot, CancelSticks, WasCancelled
    <2> QED BY <1>2, <1>3, <2>1, <2>2 DEF OwnSlots, CancelSticks
  <1>7. Marked' = Marked \ {e}
    <2>1. addressed \subseteq Events
      BY DEF TypeOK
    <2> QED BY <1>2, <2>1 DEF Marked
  <1> QED BY <1>4, <1>5, <1>6, <1>7 DEF OwnSlots

\* A step of an event from one place to the next.
LEMMA MoveOwn ==
    ASSUME IInv, OwnSlots, UNCHANGED <<pending, addressed, displaced>>, NEW e \in Events,
           IsPending(e), NEW f \in {"queued", "taken"}, fate' = [fate EXCEPT ![e] = f]
    PROVE  OwnSlots' /\ Marked' = Marked
  <1>1. \A g \in Events : /\ (IsPending(g)' <=> IsPending(g))
                          /\ fate[g] # "new" => fate'[g] # "new"
                          /\ fate[g] # "processed" => fate'[g] # "processed"
    BY DEF IInv, IsPending, TypeOK
  <1>2. \A g \in Events : SlotsOf(IdOf[g])' = SlotsOf(IdOf[g])
    BY DEF SlotsOf
  <1>3. HasSlot' /\ SlotIsOwn'
    BY <1>1, <1>2 DEF OwnSlots, HasSlot, SlotIsOwn
  <1>4. addressed \subseteq Events
    BY DEF IInv, TypeOK
  <1>5. CancelSticks'
    BY <1>1, <1>2, <1>4 DEF OwnSlots, CancelSticks
  <1>6. Marked' = Marked
    BY <1>1, <1>4 DEF Marked
  <1> QED BY <1>3, <1>5, <1>6 DEF OwnSlots

\* A cancel or purge marks exactly the pending events of its slots, for good.
LEMMA MarkOwn ==
    ASSUME IInv, OwnSlots, NEW S \in SUBSET Slots, \A s \in S : pending[s].used, Mark(S)
    PROVE  /\ OwnSlots'
           /\ Marked' = Marked \cup
                {e \in Events : IsPending(e) /\ \E s \in S : pending[s].id = IdOf[e]}
  <1> USE DEF IInv
  <1>1. \A s \in Slots : /\ pending'[s].used = pending[s].used /\ pending'[s].id = pending[s].id
                         /\ pending'[s].cancelled = (pending[s].cancelled \/ s \in S)
    BY DEF Mark, TypeOK, Slot
  <1>2. /\ fate' = fate /\ \A e \in Events : IsPending(e)' <=> IsPending(e)
        /\ addressed' = addressed \cup
             {e \in Events : IsPending(e) /\ \E s \in S : pending[s].id = IdOf[e]}
    BY DEF Mark, IsPending
  <1>3. \A e \in Events : SlotsOf(IdOf[e])' = SlotsOf(IdOf[e])
    BY <1>1 DEF SlotsOf
  <1>4. HasSlot' /\ SlotIsOwn' /\ displaced' = displaced
    <2>1. displaced' = displaced
      BY DEF Mark
    <2> QED BY <1>2, <1>3, <2>1 DEF OwnSlots, HasSlot, SlotIsOwn
  <1>5. ASSUME NEW e \in addressed'
        PROVE  /\ fate'[e] # "new"
               /\ e \notin displaced' =>
                    /\ fate'[e] # "processed"
                    /\ IsPending(e)' => \A s \in SlotsOf(IdOf[e])' : pending'[s].cancelled
    <2>1. addressed \subseteq Events
      BY DEF TypeOK
    <2>2. CASE e \in addressed
      BY <1>1, <1>2, <1>3, <1>4, <2>1, <2>2 DEF OwnSlots, CancelSticks, SlotsOf
    <2>3. CASE e \notin addressed
      <3>1. PICK s \in S : e \in Events /\ IsPending(e) /\ pending[s].id = IdOf[e]
        BY <1>2, <2>3
      <3>2. SlotsOf(IdOf[e]) = {s}
        BY <3>1 DEF SlotsOf, OneSlotPerId
      <3> QED BY <1>1, <1>2, <1>3, <3>1, <3>2, ZenonT(30) DEF IsPending
    <2> QED BY <2>2, <2>3
  <1>6. CancelSticks'
    BY <1>5 DEF CancelSticks
  <1>7. Marked' = Marked \cup
          {e \in Events : IsPending(e) /\ \E s \in S : pending[s].id = IdOf[e]}
    <2>1. addressed \subseteq Events
      BY DEF TypeOK
    <2> QED BY <1>2, <2>1 DEF Marked
  <1> QED BY <1>4, <1>6, <1>7 DEF OwnSlots
-----------------------------------------------------------------------------
(* The queue as CancelableQueue sees it.                                     *)

Outcomes == [e \in Events |-> Outcome(e)]
QueueStep == [AbstractQueue!Next]_(AbstractQueue!qvars)

LEMMA WaitingIs ==
    ASSUME IInv
    PROVE  /\ pc = "taken" => /\ Waiting # <<>> /\ Head(Waiting) = cur /\ Tail(Waiting) = queue
                             /\ Len(Waiting) = Len(queue) + 1
                             /\ AbstractQueue!ToSet(Waiting)
                                  = {cur} \cup {queue[i] : i \in DOMAIN queue}
           /\ pc # "taken" => /\ Waiting = queue
                             /\ AbstractQueue!ToSet(Waiting) = {queue[i] : i \in DOMAIN queue}
  <1>1. queue \in Seq(Events)
    BY DEF IInv, TypeOK
  <1>2. CASE pc = "taken"
    <2>1. cur \in Events
      BY <1>2 DEF IInv, TaskHasEvent, TypeOK
    <2>2. Waiting = <<cur>> \o queue
      BY <1>2 DEF Waiting
    <2>3. /\ Waiting \in Seq(Events) /\ Len(Waiting) = Len(queue) + 1 /\ Waiting # <<>>
          /\ Waiting[1] = cur /\ \A i \in DOMAIN queue : Waiting[i + 1] = queue[i]
      BY <1>1, <2>1, <2>2
    <2>4. Head(Waiting) = cur
      BY <2>3
    <2>5. Tail(Waiting) = queue
      <3>1. /\ Tail(Waiting) \in Seq(Events) /\ Len(Tail(Waiting)) = Len(queue)
            /\ \A i \in 1 .. Len(queue) : Tail(Waiting)[i] = Waiting[i + 1]
        BY <2>3
      <3> QED BY <1>1, <2>3, <3>1
    <2>6. \A i \in DOMAIN Waiting : i = 1 \/ (i - 1 \in DOMAIN queue /\ Waiting[i] = queue[i - 1])
      <3>1. ASSUME NEW i \in DOMAIN Waiting, i # 1
            PROVE  i - 1 \in DOMAIN queue /\ Waiting[i] = queue[i - 1]
        <4>1. i - 1 \in DOMAIN queue /\ (i - 1) + 1 = i
          BY <1>1, <2>3, <3>1
        <4> QED BY <2>3, <4>1
      <3> QED BY <3>1
    <2>7. \A i \in DOMAIN queue : i + 1 \in DOMAIN Waiting
      BY <1>1, <2>3
    <2>8. 1 \in DOMAIN Waiting
      BY <2>3
    <2>9. AbstractQueue!ToSet(Waiting) = {Waiting[i] : i \in DOMAIN Waiting}
      BY DEF AbstractQueue!ToSet
    <2>10. {Waiting[i] : i \in DOMAIN Waiting} = {cur} \cup {queue[i] : i \in DOMAIN queue}
      BY <2>3, <2>6, <2>7, <2>8
    <2> QED BY <1>2, <2>3, <2>4, <2>5, <2>9, <2>10
  <1>3. CASE pc # "taken"
    <2>1. Waiting = queue
      BY <1>1, <1>3 DEF Waiting
    <2> QED BY <1>3, <2>1 DEF AbstractQueue!ToSet
  <1> QED BY <1>2, <1>3

\* A step that leaves a pending event pending, or gives it its outcome.
LEMMA OutcomesAre ==
    ASSUME TypeOK, NEW e \in Events, NEW f \in Fates, fate' = [fate EXCEPT ![e] = f],
           fate[e] \notin {"processed", "skipped", "rejected"}
    PROVE  /\ Outcomes[e] = "none"
           /\ f \notin {"processed", "skipped", "rejected"} => Outcomes' = Outcomes
           /\ f \in {"processed", "skipped"} => Outcomes' = [Outcomes EXCEPT ![e] = f]
           /\ f = "rejected" => Outcomes' = [Outcomes EXCEPT ![e] = "withdrawn"]
  <1>1. fate'[e] = f /\ \A g \in Events \ {e} : fate'[g] = fate[g]
    BY DEF TypeOK
  <1>2. \A g \in Events : /\ Outcomes[g] = Outcome(g) /\ Outcomes'[g] = Outcome(g)'
    BY DEF Outcomes
  <1>3. \A g \in Events \ {e} : Outcome(g)' = Outcome(g)
    BY <1>1 DEF Outcome
  <1>4. Outcome(e) = "none"
    BY DEF Outcome
  <1>5. Outcome(e)' = CASE f \in {"processed", "skipped"} -> f
                        [] f = "rejected" -> "withdrawn" [] OTHER -> "none"
    BY <1>1 DEF Outcome
  <1>6. Outcomes = [g \in Events |-> Outcome(g)] /\ Outcomes' = [g \in Events |-> Outcome(g)']
    BY DEF Outcomes
  <1>7. Outcomes' = [Outcomes EXCEPT ![e] = Outcome(e)']
    BY <1>2, <1>3, <1>6
  <1>8. f \notin {"processed", "skipped", "rejected"} => Outcomes' = Outcomes
    <2> SUFFICES ASSUME f \notin {"processed", "skipped", "rejected"} PROVE Outcomes' = Outcomes
      OBVIOUS
    <2>1. Outcome(e)' = Outcome(e)
      BY <1>4, <1>5
    <2> QED BY <1>3, <1>6, <2>1
  <1> QED BY <1>2, <1>4, <1>5, <1>7, <1>8

\* What is inside the queue are the pending events.
LEMMA InsideIs ==
    ASSUME IInv, Located
    PROVE  AbstractQueue!Inside = {e \in Events : IsPending(e)}
  <1>1. ASSUME NEW e \in AbstractQueue!Inside PROVE e \in Events /\ IsPending(e)
    <2>1. CASE e \in Announced
      BY <2>1 DEF Announced, IsPending
    <2>2. CASE e \notin Announced
      <3>1. e \in AbstractQueue!ToSet(Waiting)
        BY <1>1, <2>2 DEF AbstractQueue!Inside
      <3>2. (pc = "taken" /\ e = cur) \/ \E i \in DOMAIN queue : queue[i] = e
        BY <3>1, WaitingIs
      <3>3. cur # NoEvent => cur \in Events
        BY DEF IInv, TypeOK
      <3>4. \A i \in DOMAIN queue : queue[i] \in Events
        BY DEF IInv, TypeOK
      <3> QED BY <3>2, <3>3, <3>4 DEF IInv, TaskHasEvent, QueueHasEvents, IsPending
    <2> QED BY <2>1, <2>2
  <1>2. ASSUME NEW e \in Events, IsPending(e) PROVE e \in AbstractQueue!Inside
    <2>1. CASE fate[e] = "tracked"
      BY <2>1 DEF Announced, AbstractQueue!Inside
    <2>2. CASE fate[e] = "queued"
      <3>1. PICK i \in DOMAIN queue : queue[i] = e
        BY <2>2 DEF Located
      <3> QED BY <3>1, WaitingIs DEF AbstractQueue!Inside
    <2>3. CASE fate[e] = "taken"
      BY <2>3, WaitingIs DEF AbstractQueue!Inside, IInv, TaskHasEvent
    <2> QED BY <1>2, <2>1, <2>2, <2>3 DEF IsPending
  <1> QED BY <1>1, <1>2

LEMMA SharingIs ==
    ASSUME IInv, Located, NEW id
    PROVE  AbstractQueue!Sharing(id) = PendingWith(id)
  BY InsideIs DEF AbstractQueue!Sharing, PendingWith

\* A slot is evicted only from a full table, whose ids are those of pending events.
LEMMA EvictsWhenFull ==
    ASSUME IInv, Located, NEW e \in Events, SlotsOf(IdOf[e]) = {},
           pending[SlotFor(IdOf[e])].used
    PROVE  AbstractQueue!Full
  <1> USE DEF IInv
  <1>1. \A s \in Slots : pending[s].used
    <2>1. ASSUME {s \in Slots : ~pending[s].used} # {} PROVE FALSE
      <3>1. Lowest({s \in Slots : ~pending[s].used}) \in {s \in Slots : ~pending[s].used}
        BY <2>1, LowestIsMember
      <3> QED BY <2>1, <3>1 DEF SlotFor, AllocSlot
    <2> QED BY <2>1
  <1>2. PICK one : one = [s \in 1..TableSize |->
                            CHOOSE f \in AbstractQueue!Inside : IdOf[f] = pending[s].id]
    OBVIOUS
  <1>3. ASSUME NEW s \in 1..TableSize
        PROVE  one[s] \in AbstractQueue!Inside /\ IdOf[one[s]] = pending[s].id
    <2>1. PICK f \in Events : IsPending(f) /\ IdOf[f] = pending[s].id
      BY <1>1 DEF NoStaleSlot, Slots
    <2>2. f \in AbstractQueue!Inside
      BY <2>1, InsideIs
    <2> QED BY <1>2, <2>1, <2>2
  <1>4. \A s, t \in 1..TableSize : IdOf[one[s]] = IdOf[one[t]] => s = t
    BY <1>1, <1>3 DEF OneSlotPerId, Slots
  <1>5. one \in [1..TableSize -> AbstractQueue!Inside]
    BY <1>2, <1>3
  <1> QED BY <1>4, <1>5 DEF AbstractQueue!Full

\* A queue step is one whose effect is that of an action of CancelableQueue.
LEMMA AnnounceStep ==
    ASSUME IInv, Located, NEW e \in Events, Displaces(e), fate[e] = "new",
           Outcomes[e] = "none", Announced' = Announced \cup {e},
           UNCHANGED <<Waiting, Marked, Outcomes>>
    PROVE  QueueStep
  <1>1. PICK twins : twins = AbstractQueue!Sharing(IdOf[e]) /\ twins = PendingWith(IdOf[e])
    BY SharingIs
  <1>2. PICK t : t = SlotFor(IdOf[e])
    OBVIOUS
  <1>3. displaced' = displaced \cup twins \cup (IF twins = {} THEN {} ELSE {e})
                     \cup (IF pending[t].used THEN PendingWith(pending[t].id) ELSE {})
    BY <1>1, <1>2 DEF Displaces
  <1>4. \E evicted \in SUBSET AbstractQueue!Inside :
          /\ AbstractQueue!Evicts(evicted)
          /\ displaced' = displaced \cup evicted \cup twins \cup (IF twins = {} THEN {} ELSE {e})
    <2>1. CASE ~ pending[t].used
      <3>1. AbstractQueue!Evicts({})
        BY DEF AbstractQueue!Evicts
      <3> QED BY <1>3, <2>1, <3>1
    <2>2. CASE SlotsOf(IdOf[e]) # {}
      <3>1. pending[t].used /\ pending[t].id = IdOf[e]
        BY <1>2, <2>2, SlotForId DEF SlotsOf
      <3>2. AbstractQueue!Evicts({})
        BY DEF AbstractQueue!Evicts
      <3> QED BY <1>1, <1>3, <3>1, <3>2
    <2>3. CASE pending[t].used /\ SlotsOf(IdOf[e]) = {}
      <3>1. AbstractQueue!Full
        BY <1>2, <2>3, EvictsWhenFull
      <3>2. PICK evicted : evicted = PendingWith(pending[t].id)
        OBVIOUS
      <3>3. t \in Slots
        BY <1>2, SlotForId
      <3>4. PICK f \in Events : IsPending(f) /\ IdOf[f] = pending[t].id
        BY <2>3, <3>3 DEF IInv, NoStaleSlot
      <3>5. f \in AbstractQueue!Inside
        BY <3>4, InsideIs
      <3>6. evicted = AbstractQueue!Sharing(IdOf[f])
        BY <3>2, <3>4, SharingIs
      <3>7. evicted \in SUBSET AbstractQueue!Inside
        BY <3>6 DEF AbstractQueue!Sharing
      <3>8. AbstractQueue!Evicts(evicted)
        BY <3>1, <3>5, <3>6 DEF AbstractQueue!Evicts
      <3>9. displaced' = displaced \cup evicted \cup twins \cup (IF twins = {} THEN {} ELSE {e})
        BY <1>3, <2>3, <3>2
      <3> QED BY <3>7, <3>8, <3>9
    <2> QED BY <2>1, <2>2, <2>3
  <1>5. e \notin AbstractQueue!Inside
    BY InsideIs DEF IsPending
  <1>6. AbstractQueue!Announce(e)
    BY <1>1, <1>4, <1>5 DEF AbstractQueue!Announce, Outcomes
  <1> QED BY <1>6 DEF QueueStep, AbstractQueue!Next

LEMMA EnqueueStep ==
    ASSUME NEW e \in Events, e \in Announced, Len(Waiting) <= QueueLen,
           Announced' = Announced \ {e}, Waiting' = Append(Waiting, e),
           UNCHANGED <<Marked, Outcomes, displaced>>
    PROVE  QueueStep
  <1>1. AbstractQueue!Enqueue(e)
    BY DEF AbstractQueue!Enqueue, Outcomes
  <1> QED BY <1>1 DEF QueueStep, AbstractQueue!Next

LEMMA WithdrawStep ==
    ASSUME NEW e \in Events, e \in Announced,
           Announced' = Announced \ {e}, Marked' = Marked \ {e},
           Outcomes' = [Outcomes EXCEPT ![e] = "withdrawn"], UNCHANGED <<Waiting, displaced>>
    PROVE  QueueStep
  <1>1. AbstractQueue!Withdraw(e)
    BY DEF AbstractQueue!Withdraw, Outcomes
  <1> QED BY <1>1 DEF QueueStep, AbstractQueue!Next

LEMMA CancelStep ==
    ASSUME NEW S \in SUBSET Events, S \subseteq AbstractQueue!Inside,
           Marked' = Marked \cup S, UNCHANGED <<Announced, Waiting, Outcomes, displaced>>
    PROVE  QueueStep
  <1>1. AbstractQueue!Cancel(S)
    BY DEF AbstractQueue!Cancel, Outcomes
  <1> QED BY <1>1 DEF QueueStep, AbstractQueue!Next

LEMMA LeaveStep ==
    ASSUME NEW e \in Events, NEW verdict, Waiting # <<>>, e = Head(Waiting),
           Waiting' = Tail(Waiting), Marked' = Marked \ {e}, UNCHANGED <<Announced, displaced>>,
           Outcomes' = [Outcomes EXCEPT ![e] = verdict],
           \/ verdict = "skipped" /\ e \in Marked
           \/ verdict = "processed" /\ (e \notin Marked \/ e \in displaced)
    PROVE  QueueStep
  <1>1. AbstractQueue!Leave
    BY DEF AbstractQueue!Leave, Outcomes
  <1> QED BY <1>1 DEF QueueStep, AbstractQueue!Next

LEMMA NoQueueStep ==
    ASSUME UNCHANGED <<Announced, Waiting, Marked, Outcomes, displaced>>
    PROVE  QueueStep
  BY DEF QueueStep, AbstractQueue!qvars, Outcomes
-----------------------------------------------------------------------------
(* Each step is a queue step, and keeps every pending event where it is.      *)

LEMMA PublishTrackIs ==
    ASSUME CancelInv, NEW p \in Publishers, NEW e \in Events, PublishTrack(p, e)
    PROVE  Located' /\ OwnSlots' /\ QueueStep
  <1> USE DEF CancelInv, IInv
  <1>1. /\ publisher'[p] = [event |-> e, at |-> "send"] /\ ~ Busy(p)
        /\ \A q \in Publishers \ {p} : publisher'[q] = publisher[q]
    <2>1. ~ Busy(p)
      BY DEF PublishTrack, Busy, Idle
    <2> QED BY <2>1, OnePublisher DEF PublishTrack
  <1>2. fate'[e] = "tracked" /\ fate[e] = "new" /\ \A f \in Events \ {e} : fate'[f] = fate[f]
    BY DEF PublishTrack, TypeOK
  <1>3. UNCHANGED <<queue, pc, cur, left, mutex, addressed>> /\ Track(e) /\ Displaces(e)
        /\ fate' = [fate EXCEPT ![e] = "tracked"] /\ pc \notin {"rules", "emit"}
    BY DEF PublishTrack, taskVars, TaskHasEvent
  <1>4. OwnSlots' /\ Marked' = Marked
    BY <1>2, <1>3, TrackOwn
  <1>5. Located'
    BY <1>1, <1>2, <1>3 DEF Located, Busy
  <1>6. Announced' = Announced \cup {e}
    BY <1>2 DEF Announced
  <1>7. Waiting' = Waiting
    BY <1>3 DEF Waiting
  <1>8. Outcomes[e] = "none" /\ Outcomes' = Outcomes
    BY <1>2, <1>3, OutcomesAre DEF Fates
  <1> QED BY <1>2, <1>3, <1>4, <1>5, <1>6, <1>7, <1>8, AnnounceStep

\* A send, by a publisher or a rule.
LEMMA SendIs ==
    ASSUME CancelInv, NEW e \in Events, fate[e] = "tracked",
           fate' = [fate EXCEPT ![e] = "queued"],
           queue' = Append(queue, e), Len(queue) < QueueLen, pc' = "taken" <=> pc = "taken",
           UNCHANGED <<pending, addressed, displaced, cur>>
    PROVE  OwnSlots' /\ QueueStep /\ \A f \in Events : fate'[f] = "queued" =>
                                              \E i \in DOMAIN queue' : queue'[i] = f
  <1> USE DEF CancelInv, IInv
  <1>1. fate'[e] = "queued" /\ \A f \in Events \ {e} : fate'[f] = fate[f]
    BY DEF TypeOK
  <1>2. OwnSlots' /\ Marked' = Marked
    BY MoveOwn DEF OwnSlots, IsPending
  <1>3. Announced' = Announced \ {e} /\ e \in Announced
    BY <1>1 DEF Announced
  <1>4. Outcomes' = Outcomes
    BY OutcomesAre DEF Fates
  <1>5. queue \in Seq(Events)
    BY DEF TypeOK
  <1>6. Waiting' = Append(Waiting, e) /\ Len(Waiting) <= QueueLen
    <2>1. CASE pc = "taken"
      <3>1. Waiting = <<cur>> \o queue /\ Waiting' = <<cur>> \o Append(queue, e)
        BY <2>1 DEF Waiting
      <3>2. cur \in Events
        BY <2>1 DEF TaskHasEvent, TypeOK
      <3>3. <<cur>> \o Append(queue, e) = Append(<<cur>> \o queue, e)
        <4>1. <<cur>> \in Seq(Events)
          BY <3>2
        <4> QED BY <1>5, <4>1, AppendProperties, ConcatProperties
      <3>4. Len(Waiting) = Len(queue) + 1
        BY <2>1, WaitingIs
      <3>5. Waiting' = Append(Waiting, e)
        BY <3>1, <3>3
      <3>6. Len(queue) \in Nat /\ Len(queue) < QueueLen /\ QueueLen \in Nat
        BY <1>5, LenProperties, ConstantsOK
      <3> QED BY <3>4, <3>5, <3>6
    <2>2. CASE pc # "taken"
      <3>1. Waiting = queue /\ Waiting' = queue'
        BY <1>5, <2>2 DEF Waiting
      <3> QED BY <1>5, <3>1, ConstantsOK
    <2> QED BY <2>1, <2>2
  <1>7. QueueStep
    BY <1>2, <1>3, <1>4, <1>6, EnqueueStep
  <1>8. /\ DOMAIN queue' = DOMAIN queue \cup {Len(queue) + 1}
        /\ queue'[Len(queue) + 1] = e
        /\ \A i \in DOMAIN queue : queue'[i] = queue[i]
    BY <1>5
  <1>9. \A f \in Events : fate'[f] = "queued" => \E i \in DOMAIN queue' : queue'[i] = f
    BY <1>1, <1>8 DEF Located
  <1> QED BY <1>2, <1>7, <1>9

\* A publish call that gives up, a publisher's or a rule's.
LEMMA WithdrawIs ==
    ASSUME CancelInv, NEW e \in Events, fate[e] = "tracked",
           Take(e), fate' = [fate EXCEPT ![e] = "rejected"], pc' = "taken" <=> pc = "taken",
           UNCHANGED <<queue, addressed, displaced, cur>>
    PROVE  OwnSlots' /\ QueueStep
  <1> USE DEF CancelInv, IInv
  <1>1. fate'[e] = "rejected" /\ \A f \in Events \ {e} : fate'[f] = fate[f]
    BY DEF TypeOK
  <1>2. OwnSlots' /\ Marked' = Marked \ {e}
    BY TakeOwn DEF OwnSlots, IsPending
  <1>3. Announced' = Announced \ {e} /\ e \in Announced
    BY <1>1 DEF Announced
  <1>4. Outcomes' = [Outcomes EXCEPT ![e] = "withdrawn"]
    BY OutcomesAre DEF Fates
  <1>5. Waiting' = Waiting
    BY DEF Waiting
  <1> QED BY <1>2, <1>3, <1>4, <1>5, WithdrawStep

LEMMA PublishSendIs ==
    ASSUME CancelInv, NEW p \in Publishers, PublishSend(p)
    PROVE  Located' /\ OwnSlots' /\ QueueStep
  <1> USE DEF CancelInv, IInv
  <1>1. PICK e \in Events : e = publisher[p].event /\ fate[e] = "tracked" /\ Busy(p)
    BY DEF PublishSend, PublisherHasEvent, Busy
  <1>2. /\ queue' = Append(queue, e) /\ Len(queue) < QueueLen
        /\ fate' = [fate EXCEPT ![e] = "queued"]
        /\ UNCHANGED <<pending, pc, cur, left, mutex, addressed, displaced>>
    BY <1>1 DEF PublishSend, HasRoom, AtBack, taskVars
  <1>3. OwnSlots' /\ QueueStep /\ \A f \in Events : fate'[f] = "queued" =>
                                        \E i \in DOMAIN queue' : queue'[i] = f
    BY <1>1, <1>2, SendIs
  <1>4. fate'[e] = "queued" /\ \A f \in Events \ {e} : fate'[f] = fate[f]
    BY <1>2 DEF TypeOK
  <1>5. \A q \in Publishers \ {p} : publisher'[q] = publisher[q]
    BY OnePublisher DEF PublishSend
  <1>6. Located'
    BY <1>1, <1>2, <1>3, <1>4, <1>5 DEF Located, Busy, Emitted
  <1> QED BY <1>3, <1>6

LEMMA PublishTimeoutIs ==
    ASSUME CancelInv, NEW p \in Publishers, PublishTimeout(p)
    PROVE  Located' /\ OwnSlots' /\ QueueStep
  <1> USE DEF CancelInv, IInv
  <1>1. UNCHANGED <<queue, pending, pc, cur, left, mutex, fate, addressed, displaced>>
    BY DEF PublishTimeout, taskVars
  <1>2. /\ publisher'[p].event = publisher[p].event /\ publisher'[p].at = "untrack" /\ Busy(p)
        /\ \A q \in Publishers \ {p} : publisher'[q] = publisher[q]
    BY DEF PublishTimeout, TypeOK, Busy
  <1>3. Located'
    BY <1>1, <1>2 DEF Located, Busy, Emitted
  <1>4. OwnSlots' /\ Marked' = Marked
    BY <1>1 DEF OwnSlots, HasSlot, SlotIsOwn, CancelSticks, IsPending, SlotsOf, Marked
  <1>5. UNCHANGED <<Announced, Waiting, Outcomes>>
    BY <1>1 DEF Announced, Waiting, Outcomes, Outcome
  <1> QED BY <1>1, <1>3, <1>4, <1>5, NoQueueStep

LEMMA PublishUntrackIs ==
    ASSUME CancelInv, NEW p \in Publishers, PublishUntrack(p)
    PROVE  Located' /\ OwnSlots' /\ QueueStep
  <1> USE DEF CancelInv, IInv
  <1>1. PICK e \in Events : e = publisher[p].event /\ fate[e] = "tracked" /\ Busy(p)
    BY DEF PublishUntrack, PublisherHasEvent, Busy
  <1>2. /\ Take(e) /\ fate' = [fate EXCEPT ![e] = "rejected"]
        /\ UNCHANGED <<queue, pc, cur, left, mutex, addressed, displaced>>
    BY <1>1 DEF PublishUntrack, taskVars
  <1>3. OwnSlots' /\ QueueStep
    BY <1>1, <1>2, WithdrawIs
  <1>4. fate'[e] = "rejected" /\ \A f \in Events \ {e} : fate'[f] = fate[f]
    BY <1>2 DEF TypeOK
  <1>5. \A q \in Publishers \ {p} : publisher'[q] = publisher[q]
    BY OnePublisher DEF PublishUntrack
  <1>6. Located'
    BY <1>1, <1>2, <1>4, <1>5 DEF Located, Busy, Emitted
  <1> QED BY <1>3, <1>6

LEMMA MarkIs ==
    ASSUME CancelInv, NEW S \in SUBSET Slots, \A s \in S : pending[s].used, Mark(S)
    PROVE  Located' /\ OwnSlots' /\ QueueStep
  <1> USE DEF CancelInv, IInv
  <1>1. UNCHANGED <<queue, publisher, pc, cur, left, mutex, fate, displaced>>
    BY DEF Mark, taskVars
  <1>2. PICK T : T = {e \in Events : IsPending(e) /\ \E s \in S : pending[s].id = IdOf[e]}
    OBVIOUS
  <1>3. OwnSlots' /\ Marked' = Marked \cup T
    BY <1>2, MarkOwn DEF OwnSlots
  <1>4. Located'
    BY <1>1 DEF Located, Busy, Emitted
  <1>5. T \subseteq AbstractQueue!Inside
    BY <1>2, InsideIs
  <1>6. UNCHANGED <<Announced, Waiting, Outcomes>>
    BY <1>1 DEF Announced, Waiting, Outcomes, Outcome
  <1> QED BY <1>1, <1>2, <1>3, <1>4, <1>5, <1>6, CancelStep

LEMMA ReceiveIs ==
    ASSUME CancelInv, Receive
    PROVE  Located' /\ OwnSlots' /\ QueueStep
  <1> USE DEF CancelInv, IInv
  <1>1. /\ queue \in Seq(Events) /\ queue # <<>> /\ pc = "idle" /\ pc' = "taken"
        /\ cur' = Head(queue) /\ queue' = Tail(queue)
        /\ UNCHANGED <<pending, publisher, left, mutex, addressed, displaced>>
    BY DEF Receive, TypeOK
  <1>2. PICK e \in Events : e = queue[1] /\ e = Head(queue) /\ fate[e] = "queued"
    <2>1. 1 \in DOMAIN queue /\ Head(queue) = queue[1] /\ queue[1] \in Events
      BY <1>1
    <2> QED BY <2>1 DEF QueueHasEvents
  <1>3. fate' = [fate EXCEPT ![e] = "taken"]
    BY <1>2 DEF Receive
  <1>4. fate'[e] = "taken" /\ \A f \in Events \ {e} : fate'[f] = fate[f]
    BY <1>3 DEF TypeOK
  <1>5. OwnSlots' /\ Marked' = Marked
    BY <1>1, <1>2, <1>3, MoveOwn DEF OwnSlots, IsPending
  <1>6. Located'
    <2>1. \A i \in DOMAIN queue \ {1} : i - 1 \in DOMAIN queue' /\ queue'[i - 1] = queue[i]
      BY <1>1
    <2>2. \A f \in Events : fate'[f] = "queued" => \E i \in DOMAIN queue' : queue'[i] = f
      <3>1. ASSUME NEW f \in Events, fate'[f] = "queued"
            PROVE  \E i \in DOMAIN queue' : queue'[i] = f
        <4>1. f # e
          BY <1>4, <3>1
        <4>2. PICK i \in DOMAIN queue : queue[i] = f /\ i # 1
          BY <1>2, <1>4, <3>1, <4>1 DEF Located
        <4> QED BY <2>1, <4>2
      <3> QED BY <3>1
    <2> QED BY <1>1, <1>4, <2>2 DEF Located, Busy, Emitted
  <1>7. Announced' = Announced
    BY <1>2, <1>4 DEF Announced
  <1>8. Waiting' = Waiting
    <2>1. Waiting = queue
      BY <1>1 DEF Waiting
    <2>2. Waiting' = <<Head(queue)>> \o Tail(queue)
      BY <1>1 DEF Waiting
    <2>3. <<Head(queue)>> \o Tail(queue) = queue
      BY <1>1, HeadTailProperties, SMTT(30)
    <2> QED BY <2>1, <2>2, <2>3
  <1>9. Outcomes' = Outcomes
    BY <1>2, <1>3, OutcomesAre DEF Fates
  <1> QED BY <1>1, <1>5, <1>6, <1>7, <1>8, <1>9, NoQueueStep

LEMMA CheckCancelledIs ==
    ASSUME CancelInv, CheckCancelled
    PROVE  Located' /\ OwnSlots' /\ QueueStep
  <1> USE DEF CancelInv, IInv
  <1>1. cur \in Events /\ pc = "taken" /\ fate[cur] = "taken" /\ Take(cur)
    BY DEF CheckCancelled, TaskHasEvent, TypeOK
  <1>2. PICK verdict \in {"skipped", "processed"} :
          /\ fate' = [fate EXCEPT ![cur] = verdict]
          /\ verdict = "skipped" <=> WasCancelled(cur)
          /\ pc' \in {"idle", "process"}
    BY DEF CheckCancelled
  <1>3. UNCHANGED <<queue, publisher, left, mutex, addressed, displaced>>
    BY DEF CheckCancelled
  <1>4. fate'[cur] = verdict /\ \A f \in Events \ {cur} : fate'[f] = fate[f]
    BY <1>1, <1>2 DEF TypeOK
  <1>5. OwnSlots' /\ Marked' = Marked \ {cur}
    BY <1>1, <1>2, <1>3, TakeOwn DEF OwnSlots, IsPending
  <1>6. Located'
    BY <1>1, <1>2, <1>3, <1>4 DEF Located, Busy
  <1>7. Announced' = Announced
    BY <1>1, <1>4 DEF Announced
  <1>8. Waiting' = queue
    <2>1. queue \in Seq(Events)
      BY DEF TypeOK
    <2> QED BY <1>2, <1>3, <2>1 DEF Waiting
  <1>9. Outcomes' = [Outcomes EXCEPT ![cur] = verdict]
    BY <1>1, <1>2, OutcomesAre DEF Fates
  <1>10. \/ verdict = "skipped" /\ cur \in Marked
         \/ verdict = "processed" /\ (cur \notin Marked \/ cur \in displaced)
    <2>1. IsPending(cur)
      BY <1>1 DEF IsPending
    <2>2. WasCancelled(cur) => cur \in addressed
      BY <1>1, <2>1 DEF WasCancelled, SlotsOf, CancelledIsAddressed
    <2>3. cur \in addressed /\ cur \notin displaced => WasCancelled(cur)
      BY <1>1, <2>1 DEF OwnSlots, HasSlot, CancelSticks, WasCancelled
    <2> QED BY <1>2, <2>1, <2>2, <2>3 DEF Marked
  <1>11. Waiting # <<>> /\ Head(Waiting) = cur /\ Tail(Waiting) = queue
    BY <1>1, WaitingIs
  <1>12. Waiting' = Tail(Waiting)
    BY <1>8, <1>11
  <1> QED BY <1>1, <1>3, <1>5, <1>6, <1>7, <1>9, <1>10, <1>11, <1>12, LeaveStep

\* Steps that concern only the rules and the mutex.
LEMMA RulesAre ==
    ASSUME CancelInv, ProcessEvent \/ DefaultAgent \/ RunAction \/ FinishRules
    PROVE  Located' /\ OwnSlots' /\ QueueStep
  <1> USE DEF CancelInv, IInv
  <1>1. UNCHANGED <<queue, pending, publisher, fate, addressed, displaced>>
    BY DEF ProcessEvent, DefaultAgent, RunAction, FinishRules
  <1>2. pc' \in {"idle", "agent", "rules"} /\ pc \in {"process", "agent", "rules"}
    BY DEF ProcessEvent, DefaultAgent, RunAction, FinishRules
  <1>3. Located'
    BY <1>1, <1>2 DEF Located, Busy
  <1>4. OwnSlots' /\ Marked' = Marked
    BY <1>1 DEF OwnSlots, HasSlot, SlotIsOwn, CancelSticks, IsPending, SlotsOf, Marked
  <1>5. UNCHANGED <<Announced, Waiting, Outcomes>>
    BY <1>1, <1>2 DEF Announced, Waiting, Outcomes, Outcome
  <1> QED BY <1>1, <1>3, <1>4, <1>5, NoQueueStep

LEMMA EmitTrackIs ==
    ASSUME CancelInv, EmitTrack
    PROVE  Located' /\ OwnSlots' /\ QueueStep
  <1> USE DEF CancelInv, IInv
  <1>1. /\ pc = "rules" /\ pc' = "emit" /\ left # <<>> /\ Head(left) # <<>>
        /\ left \in Seq(Seq(Action))
        /\ UNCHANGED <<queue, publisher, cur, left, mutex, addressed>>
    BY DEF EmitTrack, TypeOK
  <1>2. PICK e \in Events : /\ e = Emitted /\ fate[e] = "new" /\ Track(e) /\ Displaces(e)
                            /\ fate' = [fate EXCEPT ![e] = "tracked"]
    <2>1. Head(left) \in Seq(Action)
      BY <1>1
    <2>2. Head(Head(left)) \in Action
      BY <1>1, <2>1
    <2> QED BY <2>2 DEF EmitTrack, Emitted, Action
  <1>3. fate'[e] = "tracked" /\ \A f \in Events \ {e} : fate'[f] = fate[f]
    BY <1>2 DEF TypeOK
  <1>4. OwnSlots' /\ Marked' = Marked
    BY <1>1, <1>2, TrackOwn
  <1>5. Emitted' = e
    BY <1>1, <1>2 DEF Emitted
  <1>6. Located'
    BY <1>1, <1>2, <1>3, <1>5 DEF Located, Busy
  <1>7. Announced' = Announced \cup {e}
    BY <1>2, <1>3 DEF Announced
  <1>8. Waiting' = Waiting
    BY <1>1 DEF Waiting
  <1>9. Outcomes[e] = "none" /\ Outcomes' = Outcomes
    BY <1>2, OutcomesAre DEF Fates
  <1> QED BY <1>2, <1>4, <1>6, <1>7, <1>8, <1>9, AnnounceStep

LEMMA EmitSendIs ==
    ASSUME CancelInv, EmitSend
    PROVE  Located' /\ OwnSlots' /\ QueueStep
  <1> USE DEF CancelInv, IInv
  <1>1. PICK e \in Events : /\ e = Emitted /\ fate[e] = "tracked"
                            /\ fate' = [fate EXCEPT ![e] = "queued"] /\ queue' = Append(queue, e)
    BY DEF EmitSend, Emitted, AtBack, TaskHasEvent
  <1>2. /\ Len(queue) < QueueLen /\ pc = "emit" /\ pc' = "rules"
        /\ UNCHANGED <<pending, publisher, cur, mutex, addressed, displaced>>
    BY DEF EmitSend, HasRoom
  <1>3. OwnSlots' /\ QueueStep /\ \A f \in Events : fate'[f] = "queued" =>
                                        \E i \in DOMAIN queue' : queue'[i] = f
    BY <1>1, <1>2, SendIs
  <1>4. fate'[e] = "queued" /\ \A f \in Events \ {e} : fate'[f] = fate[f]
    BY <1>1 DEF TypeOK
  <1>5. Located'
    BY <1>1, <1>2, <1>3, <1>4 DEF Located, Busy
  <1> QED BY <1>3, <1>5

LEMMA EmitTimeoutIs ==
    ASSUME CancelInv, EmitTimeout
    PROVE  Located' /\ OwnSlots' /\ QueueStep
  <1> USE DEF CancelInv, IInv
  <1>1. PICK e \in Events : /\ e = Emitted /\ fate[e] = "tracked" /\ Take(e)
                            /\ fate' = [fate EXCEPT ![e] = "rejected"]
    BY DEF EmitTimeout, Emitted, TaskHasEvent
  <1>2. /\ pc = "emit" /\ pc' = "rules"
        /\ UNCHANGED <<queue, publisher, cur, mutex, addressed, displaced>>
    BY DEF EmitTimeout
  <1>3. OwnSlots' /\ QueueStep
    BY <1>1, <1>2, WithdrawIs
  <1>4. fate'[e] = "rejected" /\ \A f \in Events \ {e} : fate'[f] = fate[f]
    BY <1>1 DEF TypeOK
  <1>5. Located'
    BY <1>1, <1>2, <1>4 DEF Located, Busy
  <1> QED BY <1>3, <1>5
-----------------------------------------------------------------------------
(* The router implements the queue.                                          *)

LEMMA CancelInitHolds == Init => CancelInv /\ AbstractQueue!Init
  <1> SUFFICES ASSUME Init PROVE CancelInv /\ AbstractQueue!Init
    OBVIOUS
  <1>1. IInv
    BY InitHolds
  <1>2. Located /\ OwnSlots
    BY DEF Init, Located, OwnSlots, HasSlot, SlotIsOwn, CancelSticks, IsPending
  <1>3. Announced = {} /\ Waiting = <<>> /\ Marked = {} /\ displaced = {}
    BY DEF Init, Announced, Waiting, Marked, IsPending
  <1>4. \A e \in Events : Outcome(e) = "none"
    BY DEF Init, Outcome
  <1> QED BY <1>1, <1>2, <1>3, <1>4 DEF CancelInv, AbstractQueue!Init

LEMMA CancelStepHolds == CancelInv /\ [Next]_vars => CancelInv' /\ QueueStep
  <1> SUFFICES ASSUME CancelInv, [Next]_vars PROVE CancelInv' /\ QueueStep
    OBVIOUS
  <1>0. IInv'
    BY StepKeeps DEF CancelInv
  <1> SUFFICES Located' /\ OwnSlots' /\ QueueStep
    BY <1>0 DEF CancelInv
  <1>1. CASE RouterTask
    BY <1>1, ReceiveIs, CheckCancelledIs, RulesAre, EmitTrackIs, EmitSendIs, EmitTimeoutIs
       DEF RouterTask
  <1>2. CASE \E p \in Publishers : Publish(p) \/ \E e \in Events : PublishTrack(p, e)
    BY <1>2, PublishTrackIs, PublishSendIs, PublishTimeoutIs, PublishUntrackIs DEF Publish
  <1>3. CASE \E id \in Ids : CancelEvent(id)
    <2>1. PICK id \in Ids : Mark(SlotsOf(id))
      BY <1>3 DEF CancelEvent
    <2>2. SlotsOf(id) \in SUBSET Slots /\ \A s \in SlotsOf(id) : pending[s].used
      BY DEF SlotsOf
    <2> QED BY <2>1, <2>2, MarkIs
  <1>4. CASE \E F \in SUBSET Ids : PurgeQueue(F)
    <2>1. PICK F \in SUBSET Ids : PurgeQueue(F)
      BY <1>4
    <2>2. PICK S : /\ S = {s \in Slots : pending[s].used /\ ~pending[s].cancelled
                                         /\ pending[s].id \in F}
                   /\ Mark(S)
      BY <2>1 DEF PurgeQueue
    <2>3. S \in SUBSET Slots /\ \A s \in S : pending[s].used
      BY <2>2
    <2> QED BY <2>2, <2>3, MarkIs
  <1>5. CASE UNCHANGED vars
    <2>1. UNCHANGED <<queue, pending, publisher, pc, cur, left, mutex, fate, addressed, displaced>>
      BY <1>5 DEF vars, taskVars
    <2>2. Located'
      BY <2>1 DEF CancelInv, Located, Busy, Emitted
    <2>3. OwnSlots' /\ Marked' = Marked
      BY <2>1 DEF CancelInv, OwnSlots, HasSlot, SlotIsOwn, CancelSticks, IsPending, SlotsOf, Marked
    <2>4. UNCHANGED <<Announced, Waiting, Outcomes>>
      BY <2>1 DEF Announced, Waiting, Outcomes, Outcome
    <2> QED BY <2>1, <2>2, <2>3, <2>4, NoQueueStep
  <1> QED BY <1>1, <1>2, <1>3, <1>4, <1>5 DEF Next

LEMMA CancelInvariant == Spec => []CancelInv
  BY CancelInitHolds, CancelStepHolds, PTL DEF Spec

\* Whatever ids events have and however small the table, the router is the queue with
\* cancelling of its documentation: in order, and a cancelled event, that one alone, is
\* skipped, but for events that share an id while they are pending or are evicted from
\* a table in which as many ids are pending as it has slots (pending_track,
\* claw_event_router_publish, claw_event_router_task).
THEOREM RouterIsCancelableQueue == Spec => ImplementsCancelableQueue
  <1>1. Spec => []CancelInv
    BY CancelInvariant
  <1>2. Init => AbstractQueue!Init
    BY CancelInitHolds
  <1>3. CancelInv /\ [Next]_vars => [AbstractQueue!Next]_(AbstractQueue!qvars)
    BY CancelStepHolds DEF QueueStep
  <1> QED BY <1>1, <1>2, <1>3, PTL DEF Spec, ImplementsCancelableQueue, AbstractQueue!Spec

\* A queued event that was not displaced is found by claw_event_router_cancel_event ...
THEOREM QueuedIsCancellable == Spec => []OwnIsCancellable
  <1>1. CancelInv => OwnIsCancellable
    <2> SUFFICES ASSUME CancelInv, NEW i \in DOMAIN queue, queue[i] \notin displaced
                 PROVE  SlotsOf(IdOf[queue[i]]) # {}
      BY DEF OwnIsCancellable
    <2>1. queue[i] \in Events /\ fate[queue[i]] = "queued"
      BY DEF CancelInv, IInv, QueueHasEvents, TypeOK
    <2> QED BY <2>1 DEF CancelInv, OwnSlots, HasSlot, IsPending
  <1> QED BY <1>1, CancelInvariant, PTL

\* ... and if a cancel or purge addressed it, it is never processed.
THEOREM CancelledStaysUnprocessed == Spec => []OwnNeverProcessed
  <1>1. CancelInv => OwnNeverProcessed
    BY DEF CancelInv, OwnSlots, CancelSticks, OwnNeverProcessed
  <1> QED BY <1>1, CancelInvariant, PTL

-----------------------------------------------------------------------------
(* HttpReuse: the clients of the pool.                                        *)

\* A set whose elements are all the same.
LEMMA OneAtMost ==
    ASSUME NEW S, \A x, y \in S : x = y
    PROVE  Cardinality(S) <= 1
  <1>1. CASE S = {}
    BY <1>1, FS_EmptySet
  <1>2. ASSUME NEW x \in S PROVE Cardinality(S) <= 1
    <2>1. S = {x}
      BY <1>2
    <2> QED
      BY <2>1, FS_Singleton
  <1> QED
    BY <1>1, <1>2

Hosts  == {g.host : g \in HttpConfigs} \cup {NoClient}
Handle == [alive : BOOLEAN, host : Hosts,
           handler : {g.handler : g \in HttpConfigs} \cup {NoClient},
           user : HttpTasks \cup {NoClient}, persistent : BOOLEAN, errno : BOOLEAN]
Node   == [client : HttpClients, host : Hosts, leased : BOOLEAN, reused : BOOLEAN]
Spots  == {"idle", "new", "reset", "ready", "failed", "again", "done", "insert", "destroy"}
Lease  == [at : Spots, config : HttpConfigs \cup {NoClient},
           client : HttpClients \cup {NoClient}, sends : 0..2]

\* A client is in a pool once.
Once(p) == \A i, j \in 1..Len(p) : p[i].client = p[j].client => i = j

\* All handles but one are as they were.
But(dl, cl, c) == \A x \in HttpClients : x # c => dl[x] = cl[x]

Pooled(p, c) == \E i \in 1..Len(p) : p[i].client = c

\* What a task does with its client, of these clients and that pool.
Uses(l, p, cl) ==
    /\ l.client = NoClient <=> l.at \in {"idle", "new"}
    /\ l.at # "idle" => l.config \in HttpConfigs
    /\ l.at \in {"idle", "new", "reset", "ready"} => l.sends = 0
    /\ l.at \in {"failed", "again"} => l.sends = 1
    /\ l.sends = 2 => l.at \in {"done", "destroy"}
    /\ l.client # NoClient => cl[l.client].host = l.config.host
    /\ l.at \in {"reset", "again"} => Pooled(p, l.client)
    /\ l.at \in {"insert", "destroy"} => ~Pooled(p, l.client)
    /\ l.at = "done" /\ l.sends = 2 => Pooled(p, l.client)

\* The pool, the clients and what the tasks do with them.
Tidy(p, cl, ls) ==
    /\ p \in Seq(Node) /\ Len(p) <= MaxPool
    /\ cl \in [HttpClients -> Handle] /\ ls \in [HttpTasks -> Lease]
    /\ Once(p)
    /\ \A t, u \in HttpTasks : ls[t].client = ls[u].client /\ ls[t].client # NoClient => t = u
    /\ \A c \in HttpClients :
          cl[c].alive <=> Pooled(p, c) \/ \E t \in HttpTasks : ls[t].client = c
    /\ \A i \in 1..Len(p) :
          /\ p[i].host = cl[p[i].client].host
          /\ p[i].leased <=> \E t \in HttpTasks : ls[t].client = p[i].client
    /\ \A t \in HttpTasks : Uses(ls[t], p, cl)

PoolInv == Tidy(pool, client, lease)

\* What a step that is about one client leaves alone, and what it makes of that client.
PoolOf(q)          == q \in Seq(Node) /\ Len(q) <= MaxPool /\ Once(q)
Alone(ls, t, c)    == \A u \in HttpTasks : u # t => ls[u].client # c
Elsewhere(q, p, c) ==
    /\ \A x : x # c => (Pooled(q, x) <=> Pooled(p, x))
    /\ \A k \in 1..Len(q) : q[k].client # c => \E j \in 1..Len(p) : q[k] = p[j]
Becomes(q, dl, m, c) ==
    /\ \A k \in 1..Len(q) : q[k].client = c =>
          q[k].host = dl[c].host /\ (q[k].leased <=> m.client = c)
    /\ dl[c].alive <=> Pooled(q, c) \/ m.client = c
    /\ m.client \in {c, NoClient}
    /\ Uses(m, q, dl)

LEMMA DeadIs == H!Dead \in Handle /\ H!Dead.alive = FALSE
  BY DEF H!Dead, Handle, Hosts

LEMMA IdleIs ==
    /\ H!Idle \in Lease /\ H!Idle.at = "idle" /\ H!Idle.client = NoClient /\ H!Idle.sends = 0
    /\ \A p, cl : Uses(H!Idle, p, cl)
  BY DEF H!Idle, Lease, Spots, Uses

\* A node less.
Less(p, i, q) ==
    /\ q \in Seq(Node) /\ Len(q) = Len(p) - 1 /\ Len(p) \in Nat
    /\ \A k \in 1..Len(q) : \E j \in 1..Len(p) : j # i /\ q[k] = p[j]
    /\ Once(q)
    /\ \A c : Pooled(q, c) <=> Pooled(p, c) /\ c # p[i].client

LEMMA LessOne ==
    ASSUME NEW p \in Seq(Node), NEW i \in 1..Len(p), Once(p)
    PROVE  Less(p, i, H!RemoveAt(p, i))
  <1>1. PICK n, q : n = Len(p) /\ q = H!RemoveAt(p, i)
    OBVIOUS
  <1>2. n \in Nat /\ i \in 1..n
    BY <1>1, LenProperties
  <1>3. PICK a, b : a = SubSeq(p, 1, i - 1) /\ b = SubSeq(p, i + 1, n)
    OBVIOUS
  <1>4. /\ a \in Seq(Node) /\ Len(a) = i - 1 /\ \A k \in 1..(i - 1) : a[k] = p[k]
    <2>1. 1 \in 1..(n + 1) /\ i - 1 \in (1 - 1)..n /\ 1 <= n + 1
      BY <1>2
    <2>2. IF 1 <= i - 1 THEN i - 1 - 1 + 1 = i - 1 ELSE i - 1 = 0
      BY <1>2
    <2>3. \A k \in 1..(i - 1) : 1 + k - 1 = k /\ k \in 1..n
      BY <1>2
    <2> QED
      BY <1>1, <1>2, <1>3, <2>1, <2>2, <2>3, SubSeqProperties
  <1>5. /\ b \in Seq(Node) /\ Len(b) = n - i /\ \A k \in 1..(n - i) : b[k] = p[i + k]
    <2>1. i + 1 \in 1..(n + 1) /\ n \in ((i + 1) - 1)..n
      BY <1>2
    <2>2. IF i + 1 <= n THEN n - (i + 1) + 1 = n - i ELSE n - i = 0
      BY <1>2
    <2>3. \A k \in 1..(n - i) : (i + 1) + k - 1 = i + k
      BY <1>2
    <2> QED
      BY <1>1, <1>2, <1>3, <2>1, <2>2, <2>3, SubSeqProperties
  <1>6. q = a \o b
    BY <1>1, <1>3 DEF H!RemoveAt
  <1>7. q \in Seq(Node) /\ Len(q) = n - 1
        /\ \A k \in 1..(n - 1) : q[k] = IF k < i THEN p[k] ELSE p[k + 1]
    <2>1. /\ q \in Seq(Node) /\ Len(q) = Len(a) + Len(b)
          /\ \A k \in 1..(Len(a) + Len(b)) : q[k] = IF k <= Len(a) THEN a[k] ELSE b[k - Len(a)]
      BY <1>4, <1>5, <1>6, ConcatProperties
    <2>2. Len(a) + Len(b) = n - 1
      BY <1>2, <1>4, <1>5
    <2>3. ASSUME NEW k \in 1..(n - 1) PROVE q[k] = IF k < i THEN p[k] ELSE p[k + 1]
      <3>1. CASE k < i
        <4>1. k <= Len(a) /\ k \in 1..(i - 1) /\ k \in 1..(Len(a) + Len(b))
          BY <1>2, <1>4, <1>5, <3>1
        <4> QED
          BY <1>4, <2>1, <3>1, <4>1
      <3>2. CASE ~(k < i)
        <4>1. k - Len(a) \in 1..(n - i) /\ i + (k - Len(a)) = k + 1 /\ ~(k <= Len(a))
          BY <1>2, <1>4, <3>2
        <4> QED
          BY <1>5, <2>1, <2>2, <3>2, <4>1
      <3> QED
        BY <3>1, <3>2
    <2> QED
      BY <2>1, <2>2, <2>3
  <1>8. ASSUME NEW k \in 1..(n - 1) PROVE \E j \in 1..n : j # i /\ q[k] = p[j]
    <2>1. CASE k < i
      BY <1>2, <1>7, <2>1
    <2>2. CASE ~(k < i)
      <3>1. k + 1 \in 1..n /\ k + 1 # i
        BY <1>2, <2>2
      <3> QED
        BY <1>7, <2>2, <3>1
    <2> QED
      BY <2>1, <2>2
  <1>9. ASSUME NEW j \in 1..n, j # i PROVE \E k \in 1..(n - 1) : q[k] = p[j]
    <2>1. CASE j < i
      BY <1>2, <1>7, <2>1
    <2>2. CASE j > i
      <3>1. j - 1 \in 1..(n - 1) /\ ~(j - 1 < i) /\ (j - 1) + 1 = j
        BY <1>2, <2>2
      <3> QED
        BY <1>7, <3>1
    <2> QED
      BY <1>2, <1>9, <2>1, <2>2
  <1>10. ASSUME NEW j \in 1..(n - 1), NEW k \in 1..(n - 1), q[j].client = q[k].client PROVE j = k
    <2>1. PICK x, y : x = (IF j < i THEN j ELSE j + 1) /\ y = (IF k < i THEN k ELSE k + 1)
      OBVIOUS
    <2>2. x \in 1..n /\ y \in 1..n /\ (x = y => j = k)
      BY <1>2, <2>1
    <2>3. q[j] = p[x] /\ q[k] = p[y]
      BY <1>7, <2>1
    <2> QED
      BY <1>1, <1>10, <2>2, <2>3 DEF Once
  <1>11. ASSUME NEW c PROVE Pooled(q, c) <=> Pooled(p, c) /\ c # p[i].client
    <2>1. ASSUME Pooled(q, c) PROVE Pooled(p, c) /\ c # p[i].client
      <3>1. PICK k \in 1..(n - 1) : q[k].client = c
        BY <1>7, <2>1 DEF Pooled
      <3>2. PICK j \in 1..n : j # i /\ q[k] = p[j]
        BY <1>8
      <3> QED
        BY <1>1, <1>2, <3>1, <3>2 DEF Pooled, Once
    <2>2. ASSUME Pooled(p, c), c # p[i].client PROVE Pooled(q, c)
      <3>1. PICK j \in 1..n : p[j].client = c
        BY <1>1, <2>2 DEF Pooled
      <3>2. PICK k \in 1..(n - 1) : q[k] = p[j]
        BY <1>9, <2>2, <3>1
      <3> QED
        BY <1>7, <3>1, <3>2 DEF Pooled
    <2> QED
      BY <2>1, <2>2
  <1> QED
    BY <1>1, <1>2, <1>7, <1>8, <1>10, <1>11 DEF Once, Less

\* The place of a client that is in the pool.
LEMMA PlaceOf ==
    ASSUME PoolInv, NEW c, Pooled(pool, c)
    PROVE  /\ H!Place(c) \in 1..Len(pool) /\ pool[H!Place(c)].client = c
           /\ H!Places(c) # {}
  <1>1. PICK i \in 1..Len(pool) : pool[i].client = c
    BY DEF Pooled
  <1>2. H!Places(c) = {i}
    <2>1. DOMAIN pool = 1..Len(pool)
      BY DEF PoolInv, Tidy
    <2> QED
      BY <1>1, <2>1 DEF H!Places, PoolInv, Tidy, Once
  <1>3. i <= i
    BY <1>1
  <1> QED
    BY <1>1, <1>2, <1>3 DEF H!Place

LEMMA NoPlaceOf ==
    ASSUME PoolInv, NEW c, ~Pooled(pool, c)
    PROVE  H!Places(c) = {}
  BY DEF Pooled, H!Places, PoolInv, Tidy

\* What is in the pool.
LEMMA NodesAre ==
    ASSUME NEW p, NEW cl, NEW ls, Tidy(p, cl, ls)
    PROVE  /\ p \in Seq(Node) /\ Len(p) \in Nat
           /\ \A i \in 1..Len(p) : p[i] \in Node /\ p[i].client \in HttpClients
           /\ \A i, j \in 1..Len(p) : p[i].client = p[j].client => i = j
  <1>1. /\ p \in Seq(Node)
        /\ \A i, j \in 1..Len(p) : p[i].client = p[j].client => i = j
    BY DEF Tidy, Once
  <1>2. Len(p) \in Nat /\ \A i \in 1..Len(p) : p[i] \in Node
    BY <1>1, LenProperties, ElementOfSeq
  <1>3. \A x \in Node : x.client \in HttpClients
    BY DEF Node
  <1> QED
    BY <1>1, <1>2, <1>3

-----------------------------------------------------------------------------
(* What can become of pool, clients and leases.                               *)

\* A task goes on with its client, or without one; the pool keeps its nodes.
LEMMA GoesOn ==
    ASSUME NEW p, NEW cl, NEW ls, Tidy(p, cl, ls), NEW t \in HttpTasks, NEW l \in Lease,
           NEW q \in Seq(Node), Len(q) = Len(p),
           \A i \in 1..Len(p) : q[i].client = p[i].client /\ q[i].host = p[i].host
                                /\ q[i].leased = p[i].leased,
           NEW dl \in [HttpClients -> Handle],
           \A c \in HttpClients : dl[c].alive = cl[c].alive /\ dl[c].host = cl[c].host,
           l.client = ls[t].client, Uses(l, p, cl)
    PROVE  Tidy(q, dl, [ls EXCEPT ![t] = l])
  <1>1. PICK ms : ms = [ls EXCEPT ![t] = l]
    OBVIOUS
  <1>2. /\ ms \in [HttpTasks -> Lease] /\ ms[t] = l
        /\ \A u \in HttpTasks : ms[u].client = ls[u].client /\ (u # t => ms[u] = ls[u])
    BY <1>1 DEF Tidy
  <1>3. \A c : Pooled(q, c) <=> Pooled(p, c)
    BY DEF Pooled
  <1>4. \A u \in HttpTasks : Uses(ms[u], q, dl)
    <2> SUFFICES ASSUME NEW u \in HttpTasks PROVE Uses(ms[u], q, dl)
      OBVIOUS
    <2>1. PICK m : m = ms[u]
      OBVIOUS
    <2>2. Uses(m, p, cl) /\ m \in Lease
      BY <1>2, <2>1 DEF Tidy
    <2>3. m.client # NoClient => m.client \in HttpClients
      BY <2>2 DEF Lease
    <2>4. Uses(m, q, dl)
      BY <1>3, <2>2, <2>3 DEF Uses
    <2> QED
      BY <2>1, <2>4
  <1>5. \A i \in 1..Len(p) : p[i] \in Node
    BY ElementOfSeq DEF Tidy
  <1>6. \A i \in 1..Len(q) :
           /\ q[i].host = dl[q[i].client].host
           /\ q[i].leased <=> \E u \in HttpTasks : ms[u].client = q[i].client
    <2> SUFFICES ASSUME NEW i \in 1..Len(q)
                 PROVE  /\ q[i].host = dl[q[i].client].host
                        /\ q[i].leased <=> \E u \in HttpTasks : ms[u].client = q[i].client
      OBVIOUS
    <2>1. /\ q[i].client = p[i].client /\ q[i].host = p[i].host /\ q[i].leased = p[i].leased
          /\ p[i].client \in HttpClients
      BY <1>5 DEF Node
    <2>2. /\ p[i].host = cl[p[i].client].host
          /\ p[i].leased <=> \E u \in HttpTasks : ls[u].client = p[i].client
      BY DEF Tidy
    <2>3. q[i].host = dl[q[i].client].host
      BY <2>1, <2>2
    <2>4. (\E u \in HttpTasks : ms[u].client = p[i].client)
              <=> \E u \in HttpTasks : ls[u].client = p[i].client
      BY <1>2
    <2>5. q[i].leased <=> \E u \in HttpTasks : ms[u].client = q[i].client
      BY <2>1, <2>2, <2>4
    <2> QED
      BY <2>3, <2>5
  <1>7. \A c \in HttpClients :
           dl[c].alive <=> Pooled(q, c) \/ \E u \in HttpTasks : ms[u].client = c
    BY <1>2, <1>3 DEF Tidy
  <1>8. Once(q)
    BY DEF Tidy, Once
  <1>9. \A u, v \in HttpTasks : ms[u].client = ms[v].client /\ ms[u].client # NoClient => u = v
    BY <1>2 DEF Tidy
  <1>10. Len(q) <= MaxPool
    BY DEF Tidy
  <1>11. Tidy(q, dl, ms)
    BY <1>2, <1>4, <1>6, <1>7, <1>8, <1>9, <1>10 DEF Tidy
  <1> QED
    BY <1>1, <1>11

\* What a task does is as good with another pool and other clients that do not touch it.
LEMMA UsesStill ==
    ASSUME NEW l, NEW p, NEW q, NEW cl, NEW dl, Uses(l, p, cl),
           Pooled(q, l.client) <=> Pooled(p, l.client),
           l.client # NoClient => dl[l.client].host = cl[l.client].host
    PROVE  Uses(l, q, dl)
  BY DEF Uses

\* A client that nobody has leaves the pool.
LEMMA Dropped ==
    ASSUME NEW p, NEW cl, NEW ls, Tidy(p, cl, ls), NEW i \in 1..Len(p), ~p[i].leased
    PROVE  /\ Tidy(H!RemoveAt(p, i), [cl EXCEPT ![p[i].client] = H!Dead], ls)
           /\ Len(H!RemoveAt(p, i)) = Len(p) - 1 /\ Len(p) \in Nat
           /\ \A c : Pooled(H!RemoveAt(p, i), c) <=> Pooled(p, c) /\ c # p[i].client
  <1>1. PICK q, c, dl : q = H!RemoveAt(p, i) /\ c = p[i].client /\ dl = [cl EXCEPT ![c] = H!Dead]
    OBVIOUS
  <1>2. /\ p \in Seq(Node) /\ p[i] \in Node /\ c \in HttpClients
        /\ \A j \in 1..Len(p) : p[j] \in Node
    BY <1>1, NodesAre
  <1>3. /\ q \in Seq(Node) /\ Len(q) = Len(p) - 1 /\ Len(p) \in Nat
        /\ \A k \in 1..Len(q) : \E j \in 1..Len(p) : j # i /\ q[k] = p[j]
        /\ Once(q)
        /\ \A x : Pooled(q, x) <=> Pooled(p, x) /\ x # c
    <2>1. p \in Seq(Node) /\ Once(p)
      BY DEF Tidy
    <2>2. Less(p, i, q)
      BY <1>1, <2>1, LessOne
    <2> QED
      BY <1>1, <2>2 DEF Less
  <1>4. dl \in [HttpClients -> Handle] /\ dl[c].alive = FALSE
        /\ \A x \in HttpClients : x # c => dl[x] = cl[x]
    BY <1>1, <1>2, DeadIs DEF Tidy
  <1>5. \A t \in HttpTasks : ls[t].client # c
    BY <1>1 DEF Tidy
  <1>6. ASSUME NEW t \in HttpTasks PROVE Uses(ls[t], q, dl)
    <2>1. ls[t] \in Lease /\ Uses(ls[t], p, cl)
      BY DEF Tidy
    <2>2. ls[t].client # NoClient => ls[t].client \in HttpClients
      BY <2>1 DEF Lease
    <2> QED
      BY <1>3, <1>4, <1>5, <2>1, <2>2, UsesStill
  <1>7. ASSUME NEW k \in 1..Len(q)
        PROVE  /\ q[k].host = dl[q[k].client].host
               /\ q[k].leased <=> \E t \in HttpTasks : ls[t].client = q[k].client
    <2>1. PICK j \in 1..Len(p) : j # i /\ q[k] = p[j]
      BY <1>3
    <2>2. p[j].client # c /\ p[j].client \in HttpClients
      BY <1>1, <1>2, <2>1 DEF Tidy, Node, Once
    <2> QED
      BY <1>4, <2>1, <2>2 DEF Tidy
  <1>8. \A x \in HttpClients :
           dl[x].alive <=> Pooled(q, x) \/ \E t \in HttpTasks : ls[t].client = x
    BY <1>3, <1>4, <1>5 DEF Tidy
  <1>9. Len(q) <= MaxPool
    BY <1>3, PoolAssumption DEF Tidy
  <1>10. Tidy(q, dl, ls)
    BY <1>3, <1>4, <1>6, <1>7, <1>8, <1>9 DEF Tidy
  <1> QED
    BY <1>1, <1>3, <1>10

\* A step of a task that is about one client.
LEMMA Changed ==
    ASSUME NEW p, NEW cl, NEW ls, Tidy(p, cl, ls), NEW t \in HttpTasks, NEW c \in HttpClients,
           NEW q, PoolOf(q), NEW dl \in [HttpClients -> Handle], NEW m \in Lease,
           Alone(ls, t, c), ls[t].client \in {c, NoClient},
           Elsewhere(q, p, c), But(dl, cl, c), Becomes(q, dl, m, c)
    PROVE  Tidy(q, dl, [ls EXCEPT ![t] = m])
  <1>1. PICK ms : ms = [ls EXCEPT ![t] = m]
    OBVIOUS
  <1>2. ms \in [HttpTasks -> Lease] /\ ms[t] = m
        /\ \A u \in HttpTasks : u # t => ms[u] = ls[u]
    BY <1>1 DEF Tidy
  <1>3. ASSUME NEW u \in HttpTasks PROVE Uses(ms[u], q, dl)
    <2>1. CASE u = t
      BY <1>2, <2>1 DEF Becomes
    <2>2. CASE u # t
      <3>1. ls[u] \in Lease /\ Uses(ls[u], p, cl) /\ ls[u].client # c
        BY <2>2 DEF Tidy, Alone
      <3>2. ls[u].client # NoClient => ls[u].client \in HttpClients
        BY <3>1 DEF Lease
      <3>3. Pooled(q, ls[u].client) <=> Pooled(p, ls[u].client)
        BY <3>1 DEF Elsewhere
      <3>4. ls[u].client # NoClient => dl[ls[u].client].host = cl[ls[u].client].host
        BY <3>1, <3>2 DEF But
      <3>5. Uses(ls[u], q, dl)
        BY <3>1, <3>3, <3>4, UsesStill
      <3> QED
        BY <1>2, <2>2, <3>5
    <2> QED
      BY <2>1, <2>2
  <1>4. ASSUME NEW x \in HttpClients, x # c
        PROVE  \A u \in HttpTasks : ms[u].client = x <=> ls[u].client = x
    <2>1. x # NoClient
      BY PoolAssumption
    <2>2. m.client # x /\ ls[t].client # x
      BY <1>4, <2>1 DEF Becomes
    <2> QED
      BY <1>2, <2>2
  <1>5. (\E u \in HttpTasks : ms[u].client = c) <=> m.client = c
    BY <1>2 DEF Alone
  <1>6. ASSUME NEW k \in 1..Len(q)
        PROVE  /\ q[k].host = dl[q[k].client].host
               /\ q[k].leased <=> \E u \in HttpTasks : ms[u].client = q[k].client
    <2>1. CASE q[k].client = c
      BY <1>5, <2>1 DEF Becomes
    <2>2. CASE q[k].client # c
      <3>1. PICK j \in 1..Len(p) : q[k] = p[j]
        BY <2>2 DEF Elsewhere
      <3>2. p[j].client # c /\ p[j].client \in HttpClients
        BY <2>2, <3>1, NodesAre
      <3>3. \A u \in HttpTasks : ms[u].client = p[j].client <=> ls[u].client = p[j].client
        BY <1>4, <3>2
      <3>4. dl[p[j].client] = cl[p[j].client]
        BY <3>2 DEF But
      <3>5. /\ p[j].host = cl[p[j].client].host
            /\ p[j].leased <=> \E u \in HttpTasks : ls[u].client = p[j].client
        BY DEF Tidy
      <3> QED
        BY <3>1, <3>3, <3>4, <3>5
    <2> QED
      BY <2>1, <2>2
  <1>7. ASSUME NEW x \in HttpClients
        PROVE  dl[x].alive <=> Pooled(q, x) \/ \E u \in HttpTasks : ms[u].client = x
    <2>1. CASE x = c
      BY <1>5, <2>1 DEF Becomes
    <2>2. CASE x # c
      <3>1. dl[x] = cl[x] /\ (Pooled(q, x) <=> Pooled(p, x))
        BY <2>2 DEF But, Elsewhere
      <3>2. \A u \in HttpTasks : ms[u].client = x <=> ls[u].client = x
        BY <1>4, <2>2
      <3>3. cl[x].alive <=> Pooled(p, x) \/ \E u \in HttpTasks : ls[u].client = x
        BY DEF Tidy
      <3> QED
        BY <3>1, <3>2, <3>3
    <2> QED
      BY <2>1, <2>2
  <1>8. ASSUME NEW u \in HttpTasks, NEW v \in HttpTasks, ms[u].client = ms[v].client,
               ms[u].client # NoClient
        PROVE  u = v
    <2>1. m.client \in {c, NoClient}
      BY DEF Becomes
    <2>2. CASE u # t /\ v # t
      BY <1>2, <1>8, <2>2 DEF Tidy
    <2>3. CASE u = t /\ v # t
      BY <1>2, <1>8, <2>1, <2>3 DEF Alone
    <2>4. CASE u # t /\ v = t
      BY <1>2, <1>8, <2>1, <2>4 DEF Alone
    <2> QED
      BY <2>2, <2>3, <2>4
  <1>9. Tidy(q, dl, ms)
    BY <1>2, <1>3, <1>6, <1>7, <1>8 DEF Tidy, PoolOf
  <1> QED
    BY <1>1, <1>9

\* The client of a task is its own.
LEMMA OwnClient ==
    ASSUME NEW p, NEW cl, NEW ls, Tidy(p, cl, ls), NEW t \in HttpTasks, ls[t].client # NoClient
    PROVE  ls[t].client \in HttpClients /\ Alone(ls, t, ls[t].client)
  BY DEF Tidy, Lease, Alone

\* A pool without one of its clients.
LEMMA WithoutOne ==
    ASSUME NEW p, NEW cl, NEW ls, Tidy(p, cl, ls), NEW i \in 1..Len(p)
    PROVE  /\ PoolOf(H!RemoveAt(p, i))
           /\ Elsewhere(H!RemoveAt(p, i), p, p[i].client)
           /\ ~Pooled(H!RemoveAt(p, i), p[i].client)
  <1>1. PICK q, c : q = H!RemoveAt(p, i) /\ c = p[i].client
    OBVIOUS
  <1>2. p \in Seq(Node) /\ Once(p) /\ Len(p) <= MaxPool
    BY DEF Tidy
  <1>3. /\ q \in Seq(Node) /\ Len(q) = Len(p) - 1 /\ Len(p) \in Nat
        /\ \A k \in 1..Len(q) : \E j \in 1..Len(p) : j # i /\ q[k] = p[j]
        /\ Once(q)
        /\ \A x : Pooled(q, x) <=> Pooled(p, x) /\ x # c
    <2>1. Less(p, i, q)
      BY <1>1, <1>2, LessOne
    <2> QED
      BY <1>1, <2>1 DEF Less
  <1>4. PoolOf(q)
    BY <1>2, <1>3, PoolAssumption DEF PoolOf
  <1>5. Elsewhere(q, p, c)
    BY <1>3 DEF Elsewhere
  <1>6. ~Pooled(q, c)
    BY <1>3
  <1> QED
    BY <1>1, <1>4, <1>5, <1>6

\* A pool with other flags at one of its clients.
LEMMA OtherFlags ==
    ASSUME NEW p, NEW cl, NEW ls, Tidy(p, cl, ls), NEW c, NEW q \in Seq(Node), Len(q) = Len(p),
           \A k \in 1..Len(p) : /\ q[k].client = p[k].client
                                /\ p[k].client # c => q[k] = p[k]
    PROVE  PoolOf(q) /\ Elsewhere(q, p, c) /\ \A x : Pooled(q, x) <=> Pooled(p, x)
  <1>1. PoolOf(q)
    BY DEF Tidy, PoolOf, Once
  <1>2. \A x : Pooled(q, x) <=> Pooled(p, x)
    BY DEF Pooled
  <1>3. Elsewhere(q, p, c)
    BY <1>2 DEF Elsewhere
  <1> QED
    BY <1>1, <1>2, <1>3

-----------------------------------------------------------------------------
(* The steps of the pool.                                                     *)

\* What a task does, one place further.
LEMMA LeaseOf ==
    ASSUME PoolInv, NEW t \in HttpTasks
    PROVE  lease[t] \in Lease /\ Uses(lease[t], pool, client)
  BY DEF PoolInv, Tidy

\* A task goes on; the pool stays as it is.
LEMMA StaysPut ==
    ASSUME NEW p, NEW cl, NEW ls, Tidy(p, cl, ls), NEW t \in HttpTasks, NEW l \in Lease,
           l.client = ls[t].client, Uses(l, p, cl)
    PROVE  Tidy(p, cl, [ls EXCEPT ![t] = l])
  <1>1. /\ p \in Seq(Node) /\ Len(p) = Len(p) /\ cl \in [HttpClients -> Handle]
        /\ \A i \in 1..Len(p) : p[i].client = p[i].client /\ p[i].host = p[i].host
                                /\ p[i].leased = p[i].leased
        /\ \A c \in HttpClients : cl[c].alive = cl[c].alive /\ cl[c].host = cl[c].host
    BY DEF Tidy
  <1> QED
    BY <1>1, GoesOn

\* Without a client one can begin to look for one.
LEMMA GoesNew ==
    ASSUME NEW p, NEW cl, NEW ls, Tidy(p, cl, ls), NEW t \in HttpTasks,
           ls[t].client = NoClient, NEW config \in HttpConfigs
    PROVE  Tidy(p, cl, [ls EXCEPT ![t] = [H!Idle EXCEPT !.at = "new", !.config = config,
                                                        !.client = NoClient]])
  <1>1. PICK m : m = [H!Idle EXCEPT !.at = "new", !.config = config, !.client = NoClient]
    OBVIOUS
  <1>2. m \in Lease /\ m.at = "new" /\ m.config = config /\ m.client = NoClient /\ m.sends = 0
    <2>1. m = [at |-> "new", config |-> config, client |-> NoClient, sends |-> 0]
      BY <1>1 DEF H!Idle
    <2> QED
      BY <2>1 DEF Lease, Spots
  <1>3. Uses(m, p, cl)
    BY <1>2 DEF Uses
  <1>4. m.client = ls[t].client
    BY <1>2
  <1>5. Tidy(p, cl, [ls EXCEPT ![t] = m])
    BY <1>2, <1>3, <1>4, StaysPut
  <1> QED
    BY <1>1, <1>5

LEMMA TakeKeeps ==
    ASSUME PoolInv, NEW t \in HttpTasks, NEW config \in HttpConfigs, H!Take(t, config)
    PROVE  PoolInv'
  <1>1. lease[t] \in Lease /\ Uses(lease[t], pool, client) /\ lease[t].at = "idle"
    BY LeaseOf DEF H!Take, H!At
  <1>2. lease[t].client = NoClient /\ Tidy(pool, client, lease)
    BY <1>1 DEF Uses, PoolInv
  <1>3. DOMAIN pool = 1..Len(pool)
    BY <1>2 DEF Tidy
  <1>4. CASE /\ lease' = [lease EXCEPT ![t] = [H!Idle EXCEPT !.at = "new", !.config = config,
                                                             !.client = NoClient]]
             /\ pool' = pool /\ client' = client
    <2>1. Tidy(pool, client, lease')
      BY <1>2, <1>4, GoesNew
    <2> QED
      BY <1>4, <2>1 DEF PoolInv
  <1>5. ASSUME NEW i \in 1..Len(pool), H!First(i, config),
               lease' = [lease EXCEPT ![t] = [H!Idle EXCEPT !.at = "new", !.config = config,
                                                            !.client = NoClient]],
               pool' = H!RemoveAt(pool, i),
               client' = [client EXCEPT ![pool[i].client] = H!Dead]
        PROVE  PoolInv'
    <2>1. ~pool[i].leased
      BY <1>5 DEF H!First, H!Reusable
    <2>2. Tidy(pool', client', lease)
      BY <1>2, <1>5, <2>1, Dropped
    <2>3. Tidy(pool', client', lease')
      BY <1>2, <1>5, <2>2, GoesNew
    <2> QED
      BY <2>3 DEF PoolInv
  <1>6. ASSUME NEW i \in 1..Len(pool), H!First(i, config),
               lease' = [lease EXCEPT ![t] = [H!Idle EXCEPT !.at = "reset", !.config = config,
                                                            !.client = pool[i].client]],
               pool' = [pool EXCEPT ![i].leased = TRUE, ![i].reused = TRUE],
               client' = client
        PROVE  PoolInv'
    <2>1. PICK c, m : c = pool[i].client
              /\ m = [H!Idle EXCEPT !.at = "reset", !.config = config, !.client = pool[i].client]
      OBVIOUS
    <2>2. c \in HttpClients /\ pool[i] \in Node /\ pool \in Seq(Node) /\ c # NoClient
      BY <1>2, <2>1, NodesAre, PoolAssumption
    <2>3. /\ m \in Lease /\ m.at = "reset" /\ m.config = config /\ m.client = c /\ m.sends = 0
      <3>1. m = [at |-> "reset", config |-> config, client |-> c, sends |-> 0]
        BY <2>1 DEF H!Idle
      <3> QED
        BY <2>2, <3>1 DEF Lease, Spots
    <2>4. ~pool[i].leased /\ pool[i].host = config.host
      BY <1>6 DEF H!First, H!Reusable, H!Match
    <2>5. PICK node : node = [[pool[i] EXCEPT !.leased = TRUE] EXCEPT !.reused = TRUE]
      OBVIOUS
    <2>6. node \in Node /\ node.client = c /\ node.host = pool[i].host /\ node.leased = TRUE
      BY <2>1, <2>2, <2>5 DEF Node
    <2>7. pool' = [pool EXCEPT ![i] = node]
      BY <1>6, <2>2, <2>5
    <2>8. /\ pool' \in Seq(Node) /\ Len(pool') = Len(pool)
          /\ \A k \in 1..Len(pool) : pool'[k] = IF k = i THEN node ELSE pool[k]
      BY <2>2, <2>6, <2>7, ExceptSeq
    <2>9. \A k \in 1..Len(pool) : /\ pool'[k].client = pool[k].client
                                  /\ pool[k].client # c => pool'[k] = pool[k]
      BY <2>1, <2>6, <2>8
    <2>10. PoolOf(pool') /\ Elsewhere(pool', pool, c)
           /\ \A x : Pooled(pool', x) <=> Pooled(pool, x)
      BY <1>2, <2>8, <2>9, OtherFlags
    <2>11. pool[i].host = client[c].host /\ \A u \in HttpTasks : lease[u].client # c
      BY <1>2, <2>1, <2>4 DEF Tidy
    <2>12. Pooled(pool, c)
      BY <2>1 DEF Pooled
    <2>13. client[c].alive
      BY <1>2, <2>2, <2>12 DEF Tidy
    <2>14. Uses(m, pool', client)
      BY <2>2, <2>3, <2>4, <2>10, <2>11, <2>12 DEF Uses
    <2>15. \A k \in 1..Len(pool') : pool'[k].client = c => k = i
      BY <1>2, <2>1, <2>8, <2>9, NodesAre
    <2>16. Becomes(pool', client, m, c)
      BY <2>3, <2>4, <2>6, <2>8, <2>10, <2>11, <2>12, <2>13, <2>14, <2>15 DEF Becomes
    <2>17. Alone(lease, t, c) /\ But(client, client, c) /\ client \in [HttpClients -> Handle]
      BY <1>2, <2>11 DEF Alone, But, Tidy
    <2>18. lease[t].client \in {c, NoClient}
      BY <1>2
    <2>19. Tidy(pool', client, [lease EXCEPT ![t] = m])
      BY <1>2, <2>2, <2>3, <2>10, <2>16, <2>17, <2>18, Changed
    <2> QED
      BY <1>6, <2>1, <2>19 DEF PoolInv
  <1> QED
    BY <1>3, <1>4, <1>5, <1>6 DEF H!Take, H!Destroyed

LEMMA ResetKeeps ==
    ASSUME PoolInv, NEW t \in HttpTasks, H!Reset(t)
    PROVE  PoolInv'
  <1>1. PICK l, c : l = lease[t] /\ c = lease[t].client
    OBVIOUS
  <1>2. /\ l \in Lease /\ Uses(l, pool, client) /\ l.at = "reset" /\ c = l.client
        /\ Tidy(pool, client, lease)
    BY <1>1, LeaseOf DEF H!Reset, H!At, PoolInv
  <1>3. c # NoClient /\ c \in HttpClients
    BY <1>2 DEF Uses, Lease
  <1>4. PICK m : m = [l EXCEPT !.at = "ready"]
    OBVIOUS
  <1>5. /\ m \in Lease /\ m.at = "ready" /\ m.config = l.config /\ m.client = c
        /\ m.sends = l.sends
    BY <1>2, <1>4 DEF Lease, Spots
  <1>6. Uses(m, pool, client)
    BY <1>2, <1>3, <1>5 DEF Uses
  <1>7. lease' = [lease EXCEPT ![t] = m]
    BY <1>1, <1>4, LeaseOf DEF H!Reset, H!Step, PoolInv, Tidy
  <1>8. /\ client' \in [HttpClients -> Handle] /\ pool' = pool
        /\ \A x \in HttpClients : client'[x].alive = client[x].alive
                                  /\ client'[x].host = client[x].host
    BY <1>1, <1>2, <1>3 DEF H!Reset, H!Held, Tidy, Handle
  <1>9. /\ pool \in Seq(Node) /\ Len(pool) = Len(pool)
        /\ \A i \in 1..Len(pool) : pool[i].client = pool[i].client
              /\ pool[i].host = pool[i].host /\ pool[i].leased = pool[i].leased
    BY <1>2 DEF Tidy
  <1>10. m.client = lease[t].client
    BY <1>1, <1>5
  <1>11. Tidy(pool, client', [lease EXCEPT ![t] = m])
    BY <1>2, <1>5, <1>6, <1>8, <1>9, <1>10, GoesOn
  <1> QED
    BY <1>7, <1>8, <1>11 DEF PoolInv

LEMMA NewFailsKeeps ==
    ASSUME PoolInv, NEW t \in HttpTasks, H!NewFails(t)
    PROVE  PoolInv'
  <1>1. /\ Tidy(pool, client, lease) /\ lease[t].at = "new" /\ Uses(lease[t], pool, client)
        /\ lease' = [lease EXCEPT ![t] = H!Idle] /\ UNCHANGED <<pool, client>>
    BY LeaseOf DEF H!NewFails, H!At, H!Ends, PoolInv
  <1>2. lease[t].client = NoClient
    BY <1>1 DEF Uses
  <1>3. Tidy(pool, client, [lease EXCEPT ![t] = H!Idle])
    BY <1>1, <1>2, IdleIs, StaysPut
  <1> QED
    BY <1>1, <1>3 DEF PoolInv

\* The client of a task is destroyed, it is not in the pool any more.
LEMMA Gone ==
    ASSUME NEW p, NEW cl, NEW ls, Tidy(p, cl, ls), NEW t \in HttpTasks,
           NEW c \in HttpClients, ls[t].client = c,
           NEW q, PoolOf(q), Elsewhere(q, p, c), ~Pooled(q, c)
    PROVE  Tidy(q, [cl EXCEPT ![c] = H!Dead], [ls EXCEPT ![t] = H!Idle])
  <1>1. PICK dl : dl = [cl EXCEPT ![c] = H!Dead]
    OBVIOUS
  <1>2. dl \in [HttpClients -> Handle] /\ dl[c].alive = FALSE /\ But(dl, cl, c)
    BY <1>1, DeadIs DEF Tidy, But
  <1>3. H!Idle \in Lease /\ H!Idle.client = NoClient /\ Uses(H!Idle, q, dl) /\ c # NoClient
    BY IdleIs, PoolAssumption
  <1>4. \A k \in 1..Len(q) : q[k].client # c
    BY DEF Pooled
  <1>5. Becomes(q, dl, H!Idle, c)
    BY <1>2, <1>3, <1>4 DEF Becomes
  <1>6. Alone(ls, t, c) /\ ls[t].client \in {c, NoClient}
    BY <1>3, OwnClient
  <1>7. Tidy(q, dl, [ls EXCEPT ![t] = H!Idle])
    BY <1>2, <1>3, <1>5, <1>6, Changed
  <1> QED
    BY <1>1, <1>7

\* A pool is elsewhere as it was when it did not change.
LEMMA SamePool ==
    ASSUME NEW p, NEW cl, NEW ls, Tidy(p, cl, ls), NEW c
    PROVE  PoolOf(p) /\ Elsewhere(p, p, c)
  BY DEF Tidy, PoolOf, Elsewhere

LEMMA ResetFailsKeeps ==
    ASSUME PoolInv, NEW t \in HttpTasks, H!ResetFails(t)
    PROVE  PoolInv'
  <1>1. PICK c : c = lease[t].client
    OBVIOUS
  <1>2. /\ Tidy(pool, client, lease) /\ lease[t].at = "reset" /\ Uses(lease[t], pool, client)
        /\ lease[t] \in Lease
    BY LeaseOf DEF H!ResetFails, H!At, PoolInv
  <1>3. c \in HttpClients /\ Pooled(pool, c)
    BY <1>1, <1>2 DEF Uses, Lease
  <1>4. PICK i : i = H!Place(c)
    OBVIOUS
  <1>5. i \in 1..Len(pool) /\ pool[i].client = c /\ H!Places(c) # {}
    BY <1>3, <1>4, PlaceOf
  <1>6. /\ pool' = H!RemoveAt(pool, i) /\ client' = [client EXCEPT ![c] = H!Dead]
        /\ lease' = [lease EXCEPT ![t] = H!Idle]
    BY <1>1, <1>4, <1>5 DEF H!ResetFails, H!Ends, H!Destroyed, H!Held
  <1>7. PoolOf(pool') /\ Elsewhere(pool', pool, c) /\ ~Pooled(pool', c)
    BY <1>2, <1>5, <1>6, WithoutOne
  <1>8. Tidy(pool', [client EXCEPT ![c] = H!Dead], [lease EXCEPT ![t] = H!Idle])
    BY <1>1, <1>2, <1>3, <1>7, Gone
  <1> QED
    BY <1>6, <1>8 DEF PoolInv

LEMMA DestroyKeeps ==
    ASSUME PoolInv, NEW t \in HttpTasks, H!Destroy(t)
    PROVE  PoolInv'
  <1>1. PICK c : c = lease[t].client
    OBVIOUS
  <1>2. /\ Tidy(pool, client, lease) /\ lease[t].at = "destroy" /\ Uses(lease[t], pool, client)
        /\ lease[t] \in Lease
    BY LeaseOf DEF H!Destroy, H!At, PoolInv
  <1>3. c \in HttpClients /\ ~Pooled(pool, c)
    BY <1>1, <1>2 DEF Uses, Lease
  <1>4. PoolOf(pool) /\ Elsewhere(pool, pool, c)
    BY <1>2, SamePool
  <1>5. Tidy(pool, [client EXCEPT ![c] = H!Dead], [lease EXCEPT ![t] = H!Idle])
    BY <1>1, <1>2, <1>3, <1>4, Gone
  <1>6. /\ pool' = pool /\ client' = [client EXCEPT ![c] = H!Dead]
        /\ lease' = [lease EXCEPT ![t] = H!Idle]
    BY <1>1 DEF H!Destroy, H!Ends, H!Destroyed, H!Held
  <1> QED
    BY <1>5, <1>6 DEF PoolInv

LEMMA NewKeeps ==
    ASSUME PoolInv, NEW t \in HttpTasks, H!New(t)
    PROVE  PoolInv'
  <1>1. PICK l, c : l = lease[t] /\ c = H!FreeHandle
    OBVIOUS
  <1>2. /\ l \in Lease /\ Uses(l, pool, client) /\ l.at = "new"
        /\ Tidy(pool, client, lease)
    BY <1>1, LeaseOf DEF H!New, H!At, PoolInv
  <1>3. c \in HttpClients /\ ~client[c].alive
    BY <1>1 DEF H!New, H!FreeHandle
  <1>4. PICK h : h = [H!Dead EXCEPT !.alive = TRUE, !.host = l.config.host,
                                    !.handler = l.config.handler, !.user = t]
    OBVIOUS
  <1>5. h = [alive |-> TRUE, host |-> l.config.host, handler |-> l.config.handler, user |-> t,
             persistent |-> FALSE, errno |-> FALSE]
    BY <1>4 DEF H!Dead
  <1>6. l.config \in HttpConfigs /\ l.client = NoClient /\ l.sends = 0
    BY <1>2 DEF Uses
  <1>7. h \in Handle /\ h.alive = TRUE /\ h.host = l.config.host
    BY <1>5, <1>6 DEF Handle, Hosts
  <1>8. PICK m : m = [[l EXCEPT !.at = "ready"] EXCEPT !.client = c]
    OBVIOUS
  <1>9. /\ m \in Lease /\ m.at = "ready" /\ m.config = l.config /\ m.client = c
        /\ m.sends = 0
    BY <1>2, <1>3, <1>6, <1>8 DEF Lease, Spots
  <1>10. lease' = [lease EXCEPT ![t] = m] /\ client' = [client EXCEPT ![c] = h] /\ pool' = pool
    BY <1>1, <1>2, <1>4, <1>8 DEF H!New, Tidy
  <1>11. /\ client' \in [HttpClients -> Handle] /\ client'[c] = h /\ But(client', client, c)
    BY <1>2, <1>3, <1>7, <1>10 DEF Tidy, But
  <1>12. ~Pooled(pool, c) /\ \A u \in HttpTasks : lease[u].client # c
    BY <1>2, <1>3 DEF Tidy
  <1>13. Uses(m, pool, client')
    BY <1>3, <1>6, <1>7, <1>9, <1>11, PoolAssumption DEF Uses
  <1>14. \A k \in 1..Len(pool) : pool[k].client # c
    BY <1>12 DEF Pooled
  <1>15. Becomes(pool, client', m, c)
    BY <1>7, <1>9, <1>11, <1>13, <1>14 DEF Becomes
  <1>16. PoolOf(pool) /\ Elsewhere(pool, pool, c)
    BY <1>2, SamePool
  <1>17. Alone(lease, t, c) /\ lease[t].client \in {c, NoClient}
    BY <1>1, <1>6, <1>12 DEF Alone
  <1>18. Tidy(pool, client', [lease EXCEPT ![t] = m])
    BY <1>2, <1>3, <1>9, <1>11, <1>15, <1>16, <1>17, Changed
  <1> QED
    BY <1>10, <1>18 DEF PoolInv

\* A request was sent.
Goes(l, place) ==
    \/ l.at = "ready" /\ place \in {"done", "failed"}
    \/ l.at = "again" /\ place = "done"

LEMMA SentKeeps ==
    ASSUME PoolInv, NEW t \in HttpTasks, NEW place, H!Sent(t, place), pool' = pool,
           Goes(lease[t], place)
    PROVE  PoolInv'
  <1>1. PICK l, c : l = lease[t] /\ c = lease[t].client
    OBVIOUS
  <1>2. /\ l \in Lease /\ Uses(l, pool, client) /\ c = l.client /\ Tidy(pool, client, lease)
    BY <1>1, LeaseOf DEF PoolInv
  <1>3. c # NoClient /\ c \in HttpClients
    BY <1>1, <1>2 DEF Uses, Lease, Goes
  <1>4. PICK m : m = [[l EXCEPT !.at = place] EXCEPT !.sends = @ + 1]
    OBVIOUS
  <1>5. l.sends \in 0..1 /\ (l.at = "again" => l.sends = 1) /\ (l.at = "ready" => l.sends = 0)
    BY <1>1, <1>2 DEF Uses, Goes
  <1>6. place \in Spots
    BY DEF Spots, Goes
  <1>7. m = [at |-> place, config |-> l.config, client |-> l.client, sends |-> l.sends + 1]
    BY <1>2, <1>4 DEF Lease
  <1>8. m \in Lease /\ m.at = place /\ m.config = l.config /\ m.client = c /\ m.sends = l.sends + 1
    BY <1>2, <1>5, <1>6, <1>7 DEF Lease
  <1>9. Uses(m, pool, client)
    <2>1. CASE l.at = "ready" /\ place \in {"done", "failed"}
      <3>1. m.sends = 1
        BY <1>5, <1>8, <2>1
      <3> QED
        BY <1>2, <1>3, <1>8, <2>1, <3>1 DEF Uses
    <2>2. CASE l.at = "again" /\ place = "done"
      <3>1. m.sends = 2
        BY <1>5, <1>8, <2>2
      <3> QED
        BY <1>2, <1>3, <1>8, <2>2, <3>1 DEF Uses
    <2> QED
      BY <1>1, <2>1, <2>2 DEF Goes
  <1>10. lease' = [lease EXCEPT ![t] = m]
    <2>1. PICK ls : ls = [lease EXCEPT ![t] = [l EXCEPT !.at = place]]
      OBVIOUS
    <2>2. lease' = [ls EXCEPT ![t] = [ls[t] EXCEPT !.sends = ls[t].sends + 1]]
      BY <1>1, <2>1 DEF H!Sent
    <2>3. lease \in [HttpTasks -> Lease]
      BY <1>2 DEF Tidy
    <2>4. ls[t] = [l EXCEPT !.at = place]
      BY <2>1, <2>3
    <2>5. lease' = [ls EXCEPT ![t] = m]
      BY <1>4, <2>2, <2>4
    <2> QED
      BY <2>1, <2>3, <2>5
  <1>11. PICK persistent \in BOOLEAN, errno \in BOOLEAN :
            client' = [client EXCEPT ![c].persistent = persistent, ![c].errno = errno]
    BY <1>1 DEF H!Sent, H!Held
  <1>12. PICK h : h = [[client[c] EXCEPT !.persistent = persistent] EXCEPT !.errno = errno]
    OBVIOUS
  <1>13. client[c] \in Handle
    BY <1>2, <1>3 DEF Tidy
  <1>14. h \in Handle /\ h.alive = client[c].alive /\ h.host = client[c].host
    BY <1>12, <1>13 DEF Handle
  <1>15. client' = [client EXCEPT ![c] = h]
    BY <1>2, <1>3, <1>11, <1>12 DEF Tidy
  <1>16. /\ client' \in [HttpClients -> Handle]
         /\ \A x \in HttpClients : client'[x].alive = client[x].alive
                                   /\ client'[x].host = client[x].host
    BY <1>2, <1>3, <1>14, <1>15 DEF Tidy
  <1>17. /\ pool \in Seq(Node) /\ Len(pool) = Len(pool)
         /\ \A i \in 1..Len(pool) : pool[i].client = pool[i].client
               /\ pool[i].host = pool[i].host /\ pool[i].leased = pool[i].leased
    BY <1>2 DEF Tidy
  <1>18. m.client = lease[t].client
    BY <1>1, <1>8
  <1>19. Tidy(pool, client', [lease EXCEPT ![t] = m])
    BY <1>2, <1>8, <1>9, <1>16, <1>17, <1>18, GoesOn
  <1> QED
    BY <1>10, <1>19 DEF PoolInv

LEMMA PerformKeeps ==
    ASSUME PoolInv, NEW t \in HttpTasks, H!Perform(t)
    PROVE  PoolInv'
  <1>1. pool' = pool /\ (lease[t].at = "ready" \/ lease[t].at = "again")
    BY DEF H!Perform, H!At
  <1>2. PICK place : H!Sent(t, place) /\ Goes(lease[t], place)
    <2>1. CASE H!Sent(t, "done")
      BY <1>1, <2>1 DEF Goes
    <2>2. CASE H!Sent(t, IF H!At(t, "ready") THEN "failed" ELSE "done")
      BY <1>1, <2>2 DEF Goes, H!At
    <2> QED
      BY <2>1, <2>2 DEF H!Perform
  <1> QED
    BY <1>1, <1>2, SentKeeps

LEMMA FailedKeeps ==
    ASSUME PoolInv, NEW t \in HttpTasks, H!Failed(t)
    PROVE  PoolInv'
  <1>1. PICK l, c : l = lease[t] /\ c = lease[t].client
    OBVIOUS
  <1>2. /\ l \in Lease /\ Uses(l, pool, client) /\ c = l.client /\ l.at = "failed"
        /\ Tidy(pool, client, lease)
    BY <1>1, LeaseOf DEF PoolInv, H!Failed, H!At
  <1>3. /\ pool \in Seq(Node) /\ Len(pool) \in Nat /\ DOMAIN pool = 1..Len(pool)
        /\ \A k \in 1..Len(pool) : pool[k] \in Node
    BY <1>2, NodesAre DEF Tidy
  <1>4. pool' = [k \in 1..Len(pool) |->
                   IF pool[k].client = c THEN [pool[k] EXCEPT !.reused = FALSE] ELSE pool[k]]
    BY <1>1, <1>3 DEF H!Failed, H!Held
  <1>5. ASSUME NEW k \in 1..Len(pool)
        PROVE  /\ pool'[k] \in Node /\ pool'[k].client = pool[k].client
               /\ pool'[k].host = pool[k].host /\ pool'[k].leased = pool[k].leased
    BY <1>3, <1>4 DEF Node
  <1>6. pool' \in Seq(Node) /\ Len(pool') = Len(pool)
    <2>1. pool' \in [1..Len(pool) -> Node]
      BY <1>4, <1>5
    <2> QED
      BY <1>3, <2>1, SeqDef, LenProperties
  <1>7. PICK place : place = IF H!Retries(t) THEN "again" ELSE "done"
    OBVIOUS
  <1>8. place \in {"again", "done"} /\ (place = "again" => Pooled(pool, c))
    BY <1>1, <1>3, <1>7 DEF H!Retries, H!Places, H!Held, Pooled
  <1>9. PICK m : m = [l EXCEPT !.at = place]
    OBVIOUS
  <1>10. m \in Lease /\ m.at = place /\ m.config = l.config /\ m.client = c /\ m.sends = l.sends
    BY <1>2, <1>8, <1>9 DEF Lease, Spots
  <1>11. Uses(m, pool, client)
    BY <1>2, <1>8, <1>10 DEF Uses
  <1>12. lease' = [lease EXCEPT ![t] = m] /\ client' = client
    BY <1>1, <1>2, <1>7, <1>9 DEF H!Failed, H!Step, Tidy
  <1>13. /\ client \in [HttpClients -> Handle]
         /\ \A x \in HttpClients : client[x].alive = client[x].alive
                                   /\ client[x].host = client[x].host
    BY <1>2 DEF Tidy
  <1>14. m.client = lease[t].client
    BY <1>1, <1>10
  <1>15. Tidy(pool', client, [lease EXCEPT ![t] = m])
    BY <1>2, <1>5, <1>6, <1>10, <1>11, <1>13, <1>14, GoesOn
  <1> QED
    BY <1>12, <1>15 DEF PoolInv

LEMMA CleanupKeeps ==
    ASSUME PoolInv, NEW t \in HttpTasks, H!Cleanup(t)
    PROVE  PoolInv'
  <1>1. PICK l, c : l = lease[t] /\ c = lease[t].client
    OBVIOUS
  <1>2. /\ l \in Lease /\ Uses(l, pool, client) /\ c = l.client /\ l.at = "done"
        /\ Tidy(pool, client, lease) /\ client' = client
    BY <1>1, LeaseOf DEF PoolInv, H!Cleanup, H!At
  <1>3. /\ pool \in Seq(Node) /\ Len(pool) \in Nat /\ DOMAIN pool = 1..Len(pool)
        /\ \A k \in 1..Len(pool) : pool[k] \in Node
    BY <1>2, NodesAre DEF Tidy
  <1>4. c \in HttpClients /\ c # NoClient /\ Alone(lease, t, c) /\ lease[t].client \in {c, NoClient}
    BY <1>1, <1>2, OwnClient DEF Uses, Lease
  <1>5. client[c].alive /\ client \in [HttpClients -> Handle] /\ But(client, client, c)
    BY <1>1, <1>2, <1>4 DEF Tidy, But
  <1>6. H!Places(c) # {} <=> Pooled(pool, c)
    BY PlaceOf, NoPlaceOf
  <1>7. ASSUME NEW place \in {"insert", "destroy"}
        PROVE  LET m == [l EXCEPT !.at = place]
               IN  /\ m \in Lease /\ m.at = place /\ m.config = l.config /\ m.client = c
                   /\ m.sends = l.sends
    BY <1>2 DEF Lease, Spots
  <1>8. CASE /\ H!Places(c) # {} /\ lease' = [lease EXCEPT ![t] = H!Idle]
             /\ pool' = [k \in DOMAIN pool |->
                           IF pool[k].client = c
                           THEN [pool[k] EXCEPT !.leased = FALSE, !.reused = FALSE]
                           ELSE pool[k]]
    <2>1. ASSUME NEW k \in 1..Len(pool)
          PROVE  /\ pool'[k] \in Node /\ pool'[k].client = pool[k].client
                 /\ pool'[k].host = pool[k].host
                 /\ pool[k].client # c => pool'[k] = pool[k]
                 /\ pool[k].client = c => pool'[k].leased = FALSE
      BY <1>3, <1>8 DEF Node
    <2>2. pool' \in Seq(Node) /\ Len(pool') = Len(pool)
      <3>1. pool' \in [1..Len(pool) -> Node]
        BY <1>3, <1>8, <2>1
      <3> QED
        BY <1>3, <3>1, SeqDef, LenProperties
    <2>3. PoolOf(pool') /\ Elsewhere(pool', pool, c)
          /\ \A x : Pooled(pool', x) <=> Pooled(pool, x)
      <3>1. \A k \in 1..Len(pool) : /\ pool'[k].client = pool[k].client
                                    /\ pool[k].client # c => pool'[k] = pool[k]
        BY <2>1
      <3>2. Tidy(pool, client, lease)
        BY <1>2
      <3>3. PICK q : q = pool'
        OBVIOUS
      <3>4. /\ q \in Seq(Node) /\ Len(q) = Len(pool)
            /\ \A k \in 1..Len(pool) : /\ q[k].client = pool[k].client
                                       /\ pool[k].client # c => q[k] = pool[k]
        BY <2>2, <3>1, <3>3
      <3>5. PoolOf(q) /\ Elsewhere(q, pool, c) /\ \A x : Pooled(q, x) <=> Pooled(pool, x)
        BY <3>2, <3>4, OtherFlags
      <3> QED
        BY <3>3, <3>5
    <2>4. H!Idle \in Lease /\ H!Idle.client = NoClient /\ Uses(H!Idle, pool', client)
      BY IdleIs
    <2>5. ASSUME NEW k \in 1..Len(pool'), pool'[k].client = c
          PROVE  pool'[k].host = client[c].host /\ pool'[k].leased = FALSE
      <3>1. k \in 1..Len(pool)
        BY <2>2, <2>5
      <3>2. pool[k].client = c
        BY <2>1, <2>5, <3>1
      <3>3. pool[k].host = client[pool[k].client].host
        BY <1>2, <3>1 DEF Tidy
      <3> QED
        BY <2>1, <3>1, <3>2, <3>3
    <2>6. Becomes(pool', client, H!Idle, c)
      BY <1>4, <1>5, <1>6, <1>8, <2>3, <2>4, <2>5 DEF Becomes
    <2>7. Tidy(pool', client, [lease EXCEPT ![t] = H!Idle])
      BY <1>2, <1>4, <1>5, <2>3, <2>4, <2>6, Changed
    <2> QED
      BY <1>2, <1>8, <2>7 DEF PoolInv
  <1>9. CASE /\ H!Places(c) # {} /\ pool' = H!RemoveAt(pool, H!Place(c))
             /\ lease' = [lease EXCEPT ![t] = [l EXCEPT !.at = "destroy"]]
    <2>1. PICK i : i = H!Place(c)
      OBVIOUS
    <2>2. i \in 1..Len(pool) /\ pool[i].client = c
      BY <1>6, <1>9, <2>1, PlaceOf
    <2>3. PoolOf(pool') /\ Elsewhere(pool', pool, c) /\ ~Pooled(pool', c)
      BY <1>2, <1>9, <2>1, <2>2, WithoutOne
    <2>4. PICK m : m = [l EXCEPT !.at = "destroy"]
      OBVIOUS
    <2>5. /\ m \in Lease /\ m.at = "destroy" /\ m.config = l.config /\ m.client = c
          /\ m.sends = l.sends
      BY <1>7, <2>4
    <2>6. Uses(m, pool', client)
      BY <1>2, <1>4, <2>3, <2>5 DEF Uses
    <2>7. \A k \in 1..Len(pool') : pool'[k].client # c
      BY <2>3 DEF Pooled
    <2>8. Becomes(pool', client, m, c)
      BY <1>5, <2>5, <2>6, <2>7 DEF Becomes
    <2>9. Tidy(pool', client, [lease EXCEPT ![t] = m])
      BY <1>2, <1>4, <1>5, <2>3, <2>5, <2>8, Changed
    <2> QED
      BY <1>2, <1>9, <2>4, <2>9 DEF PoolInv
  <1>10. ASSUME NEW place \in {"insert", "destroy"}, H!Places(c) = {}, pool' = pool,
                lease' = [lease EXCEPT ![t] = [l EXCEPT !.at = place]]
         PROVE  PoolInv'
    <2>1. PICK m : m = [l EXCEPT !.at = place]
      OBVIOUS
    <2>2. /\ m \in Lease /\ m.at = place /\ m.config = l.config /\ m.client = c
          /\ m.sends = l.sends
      BY <1>7, <2>1
    <2>3. ~Pooled(pool, c)
      BY <1>6, <1>10
    <2>4. Uses(m, pool, client)
      BY <1>2, <1>4, <2>2, <2>3 DEF Uses
    <2>5. Tidy(pool, client, [lease EXCEPT ![t] = m])
      BY <1>1, <1>2, <2>2, <2>4, StaysPut
    <2> QED
      BY <1>2, <1>10, <2>1, <2>5 DEF PoolInv
  <1>11. \A place : [lease EXCEPT ![t].at = place] = [lease EXCEPT ![t] = [l EXCEPT !.at = place]]
    BY <1>1
  <1> QED
    BY <1>1, <1>8, <1>9, <1>10, <1>11 DEF H!Cleanup, H!Held, H!Ends, H!Step

\* Whose client finds no room destroys it.
LEMMA NoRoomKeeps ==
    ASSUME NEW p, NEW cl, NEW ls, Tidy(p, cl, ls), NEW t \in HttpTasks, ls[t].at = "insert"
    PROVE  Tidy(p, cl, [ls EXCEPT ![t].at = "destroy"])
  <1>1. PICK l : l = ls[t]
    OBVIOUS
  <1>2. l \in Lease /\ Uses(l, p, cl) /\ l.at = "insert"
    BY <1>1 DEF Tidy
  <1>3. PICK m : m = [l EXCEPT !.at = "destroy"]
    OBVIOUS
  <1>4. /\ m \in Lease /\ m.at = "destroy" /\ m.config = l.config /\ m.client = l.client
        /\ m.sends = l.sends
    BY <1>2, <1>3 DEF Lease, Spots
  <1>5. Uses(m, p, cl)
    BY <1>2, <1>4 DEF Uses
  <1>6. Tidy(p, cl, [ls EXCEPT ![t] = m])
    BY <1>1, <1>4, <1>5, StaysPut
  <1>7. [ls EXCEPT ![t].at = "destroy"] = [ls EXCEPT ![t] = m]
    BY <1>1, <1>3
  <1> QED
    BY <1>6, <1>7

\* The client of a task is put in the pool.
LEMMA PutIn ==
    ASSUME NEW p, NEW cl, NEW ls, Tidy(p, cl, ls), Len(p) < MaxPool,
           NEW t \in HttpTasks, ls[t].at = "insert", NEW c \in HttpClients, ls[t].client = c,
           NEW node \in Node, node.client = c, node.host = cl[c].host, node.leased = FALSE
    PROVE  Tidy(Append(p, node), cl, [ls EXCEPT ![t] = H!Idle])
  <1>1. PICK q, n : q = Append(p, node) /\ n = Len(p)
    OBVIOUS
  <1>2. /\ p \in Seq(Node) /\ n \in Nat /\ Once(p) /\ n < MaxPool
        /\ \A i \in 1..n : p[i] \in Node
    BY <1>1, NodesAre DEF Tidy
  <1>3. /\ q \in Seq(Node) /\ Len(q) = n + 1 /\ q[n + 1] = node
        /\ \A i \in 1..n : q[i] = p[i]
    BY <1>1, <1>2, AppendProperties
  <1>4. ~Pooled(p, c) /\ c # NoClient
    BY PoolAssumption DEF Tidy, Uses
  <1>5. \A i \in 1..n : p[i].client # c
    BY <1>1, <1>4 DEF Pooled
  <1>6. \A k \in 1..(n + 1) : k \in 1..n \/ k = n + 1
    BY <1>2
  <1>7. Once(q)
    BY <1>1, <1>2, <1>3, <1>5, <1>6 DEF Once
  <1>8. n + 1 <= MaxPool /\ n + 1 \in 1..(n + 1) /\ \A k \in 1..n : k \in 1..(n + 1)
    BY <1>2, PoolAssumption
  <1>9. PoolOf(q)
    BY <1>3, <1>7, <1>8 DEF PoolOf
  <1>10. Pooled(q, c) /\ \A x : x # c => (Pooled(q, x) <=> Pooled(p, x))
    BY <1>1, <1>3, <1>6, <1>8 DEF Pooled
  <1>11. Elsewhere(q, p, c)
    BY <1>1, <1>3, <1>6, <1>10 DEF Elsewhere
  <1>12. \A k \in 1..Len(q) : q[k].client = c => q[k] = node
    BY <1>3, <1>5, <1>6
  <1>13. cl[c].alive /\ cl \in [HttpClients -> Handle] /\ But(cl, cl, c)
    BY DEF Tidy, But
  <1>14. H!Idle \in Lease /\ H!Idle.client = NoClient /\ Uses(H!Idle, q, cl)
    BY IdleIs
  <1>15. Becomes(q, cl, H!Idle, c)
    BY <1>4, <1>10, <1>12, <1>13, <1>14 DEF Becomes
  <1>16. Alone(ls, t, c) /\ ls[t].client \in {c, NoClient}
    BY <1>4, OwnClient
  <1>17. Tidy(q, cl, [ls EXCEPT ![t] = H!Idle])
    BY <1>9, <1>11, <1>13, <1>14, <1>15, <1>16, Changed
  <1> QED
    BY <1>1, <1>17

LEMMA InsertKeeps ==
    ASSUME PoolInv, NEW t \in HttpTasks, H!Insert(t)
    PROVE  PoolInv'
  <1>1. PICK c : c = lease[t].client
    OBVIOUS
  <1>2. /\ lease[t] \in Lease /\ Uses(lease[t], pool, client) /\ lease[t].at = "insert"
        /\ Tidy(pool, client, lease)
    BY LeaseOf DEF PoolInv, H!Insert, H!At
  <1>3. /\ DOMAIN pool = 1..Len(pool) /\ Len(pool) \in Nat /\ Len(pool) <= MaxPool
        /\ \A i \in 1..Len(pool) : pool[i] \in Node /\ pool[i].client \in HttpClients
    BY <1>2, NodesAre DEF Tidy
  <1>4. c \in HttpClients /\ client[c] \in Handle
    BY <1>1, <1>2 DEF Uses, Lease, Tidy
  <1>5. PICK node : node = [client |-> c, host |-> client[c].host,
                            leased |-> FALSE, reused |-> FALSE]
    OBVIOUS
  <1>6. /\ node \in Node /\ node.client = c /\ node.host = client[c].host
        /\ node.leased = FALSE
    BY <1>4, <1>5 DEF Node, Handle
  <1>7. ASSUME NEW p, NEW cl, Tidy(p, cl, lease), cl[c].host = client[c].host,
               client' = cl, Len(p) < MaxPool,
               \/ pool' = Append(p, node) /\ lease' = [lease EXCEPT ![t] = H!Idle]
               \/ pool' = p /\ lease' = [lease EXCEPT ![t].at = "destroy"]
        PROVE  PoolInv'
    <2>1. CASE pool' = Append(p, node) /\ lease' = [lease EXCEPT ![t] = H!Idle]
      <3>1. node.host = cl[c].host
        BY <1>6, <1>7
      <3>2. Tidy(Append(p, node), cl, [lease EXCEPT ![t] = H!Idle])
        BY <1>1, <1>2, <1>4, <1>6, <1>7, <3>1, PutIn
      <3> QED
        BY <1>7, <2>1, <3>2 DEF PoolInv
    <2>2. CASE pool' = p /\ lease' = [lease EXCEPT ![t].at = "destroy"]
      <3>1. Tidy(p, cl, [lease EXCEPT ![t].at = "destroy"])
        BY <1>2, <1>7, NoRoomKeeps
      <3> QED
        BY <1>7, <2>2, <3>1 DEF PoolInv
    <2> QED
      BY <1>7, <2>1, <2>2
  <1>8. CASE pool' = pool /\ client' = client /\ lease' = [lease EXCEPT ![t].at = "destroy"]
    <2>1. Tidy(pool, client, [lease EXCEPT ![t].at = "destroy"])
      BY <1>2, NoRoomKeeps
    <2> QED
      BY <1>8, <2>1 DEF PoolInv
  <1>9. CASE /\ Len(pool) < MaxPool /\ client' = client
             /\ \/ pool' = Append(pool, node) /\ lease' = [lease EXCEPT ![t] = H!Idle]
                \/ pool' = pool /\ lease' = [lease EXCEPT ![t].at = "destroy"]
    BY <1>2, <1>7, <1>9
  <1>10. ASSUME NEW i \in 1..Len(pool), ~pool[i].leased,
                client' = [client EXCEPT ![pool[i].client] = H!Dead],
                \/ pool' = Append(H!RemoveAt(pool, i), node)
                   /\ lease' = [lease EXCEPT ![t] = H!Idle]
                \/ pool' = H!RemoveAt(pool, i) /\ lease' = [lease EXCEPT ![t].at = "destroy"]
         PROVE  PoolInv'
    <2>1. PICK p, cl : p = H!RemoveAt(pool, i) /\ cl = [client EXCEPT ![pool[i].client] = H!Dead]
      OBVIOUS
    <2>2. Tidy(p, cl, lease) /\ Len(p) = Len(pool) - 1
      BY <1>2, <1>10, <2>1, Dropped
    <2>3. Len(p) < MaxPool
      BY <1>3, <2>2, PoolAssumption
    <2>4. pool[i].client # c
      BY <1>1, <1>2, <1>10 DEF Tidy
    <2>5. cl[c].host = client[c].host
      BY <1>2, <1>4, <2>1, <2>4 DEF Tidy
    <2> QED
      BY <1>7, <1>10, <2>1, <2>2, <2>3, <2>5
  <1> QED
    BY <1>1, <1>3, <1>5, <1>8, <1>9, <1>10
       DEF H!Insert, H!NoRoom, H!Step, H!Ends, H!Held, H!Destroyed

LEMMA PoolStarts ==
    ASSUME H!Init
    PROVE  PoolInv
  <1>1. /\ client = [c \in HttpClients |-> H!Dead] /\ pool = <<>>
        /\ lease = [t \in HttpTasks |-> H!Idle]
    BY DEF H!Init
  <1>2. pool \in Seq(Node) /\ Len(pool) = 0 /\ \A i : i \notin 1..Len(pool)
    BY <1>1
  <1>3. /\ \A c \in HttpClients : client[c] = H!Dead
        /\ \A t \in HttpTasks : lease[t] = H!Idle
    BY <1>1
  <1>4. client \in [HttpClients -> Handle] /\ lease \in [HttpTasks -> Lease]
    BY <1>1, DeadIs, IdleIs
  <1>5. \A c \in HttpClients : ~client[c].alive /\ ~Pooled(pool, c) /\ c # NoClient
    BY <1>2, <1>3, DeadIs, PoolAssumption DEF Pooled
  <1>6. \A t \in HttpTasks : lease[t].client = NoClient /\ Uses(lease[t], pool, client)
    BY <1>3, IdleIs
  <1> QED
    BY <1>2, <1>4, <1>5, <1>6, PoolAssumption DEF PoolInv, Tidy, Once

LEMMA PoolStep ==
    ASSUME PoolInv, H!Next
    PROVE  PoolInv'
  <1>1. PICK t \in HttpTasks : H!Works(t)
    BY DEF H!Next
  <1> QED
    BY <1>1, TakeKeeps, ResetKeeps, ResetFailsKeeps, NewKeeps, NewFailsKeeps, PerformKeeps,
       FailedKeeps, CleanupKeeps, InsertKeeps, DestroyKeeps DEF H!Works

LEMMA PoolCardinality == \A S : H!Cardinality(S) = Cardinality(S)
  BY DEF H!Cardinality, Cardinality

\* What the invariant says of the clients.
LEMMA PoolShows ==
    ASSUME PoolInv
    PROVE  H!ClientsInOrder /\ H!SentAgainOnce
  <1>1. /\ Tidy(pool, client, lease) /\ DOMAIN pool = 1..Len(pool)
        /\ \A t \in HttpTasks : lease[t] \in Lease /\ Uses(lease[t], pool, client)
    BY DEF PoolInv, Tidy
  <1>2. \A t \in HttpTasks : H!Held(t) = lease[t].client
    BY DEF H!Held
  <1>3. \A c : Pooled(pool, c) <=> c \in H!InPool
    BY <1>1 DEF Pooled, H!InPool
  <1>4. ASSUME NEW c \in HttpClients
        PROVE  H!Cardinality(H!Users(c)) <= 1 /\ H!Cardinality(H!Places(c)) <= 1
    <2>1. c # NoClient
      BY PoolAssumption
    <2>2. \A t, u \in H!Users(c) : t = u
      BY <1>1, <1>2, <2>1 DEF H!Users, Tidy
    <2>3. \A i, j \in H!Places(c) : i = j
      BY <1>1 DEF H!Places, Tidy, Once
    <2>4. Cardinality(H!Users(c)) <= 1 /\ Cardinality(H!Places(c)) <= 1
      BY <2>2, <2>3, OneAtMost
    <2> QED
      BY <2>4, PoolCardinality
  <1>5. {c \in HttpClients : client[c].alive}
            = H!InPool \cup ({H!Held(t) : t \in HttpTasks} \ {NoClient})
    <2>1. \A c \in H!InPool : c \in HttpClients
      BY <1>1, NodesAre DEF H!InPool
    <2>2. \A t \in HttpTasks : lease[t].client # NoClient => lease[t].client \in HttpClients
      BY <1>1 DEF Lease
    <2>3. \A c \in HttpClients :
             client[c].alive <=> c \in H!InPool \/ \E t \in HttpTasks : lease[t].client = c
      BY <1>1, <1>3 DEF Tidy
    <2>4. \A c \in HttpClients : c # NoClient
      BY PoolAssumption
    <2> QED
      BY <1>2, <2>1, <2>2, <2>3, <2>4
  <1>6. \A i \in DOMAIN pool : pool[i].leased <=> \E t \in H!Users(pool[i].client) : TRUE
    BY <1>1, <1>2 DEF H!Users, Tidy
  <1>7. \A t \in HttpTasks : H!Held(t) # NoClient => client[H!Held(t)].host = lease[t].config.host
    BY <1>1, <1>2 DEF Uses
  <1>8. \A t \in HttpTasks :
           /\ lease[t].sends <= 2
           /\ lease[t].sends = 2 => H!Held(t) \in H!InPool \/ H!At(t, "destroy")
    BY <1>1, <1>2, <1>3 DEF Uses, Lease, H!At
  <1> QED
    BY <1>1, <1>4, <1>5, <1>6, <1>7, <1>8 DEF H!ClientsInOrder, H!SentAgainOnce, Tidy

\* HttpReuse: whatever tasks request over clients of the pool, a client is leased to one
\* task at a time, for the server it is connected to, is in the pool once and marked
\* there while a task has it; nothing leased or pooled is destroyed, nothing forgotten,
\* and a request is sent twice at most, twice over a client that was kept only.
THEOREM ClientsAreKept == H!PoolSpec => [](H!ClientsInOrder /\ H!SentAgainOnce)
  <1>1. H!Init => PoolInv
    BY PoolStarts
  <1>2. PoolInv /\ [H!Next]_(H!poolVars) => PoolInv'
    <2> SUFFICES ASSUME PoolInv, [H!Next]_(H!poolVars) PROVE PoolInv'
      OBVIOUS
    <2>1. CASE H!Next
      BY <2>1, PoolStep
    <2>2. CASE UNCHANGED H!poolVars
      BY <2>2 DEF H!poolVars, PoolInv
    <2> QED
      BY <2>1, <2>2
  <1>3. PoolInv => H!ClientsInOrder /\ H!SentAgainOnce
    BY PoolShows
  <1> QED
    BY <1>1, <1>2, <1>3, PTL DEF H!PoolSpec

-----------------------------------------------------------------------------
(* LuaHttpServer: scripts that serve HTTP.                                    *)

Asks == 1..MaxAsked
AppSpots == {"begin", "create", "made", "serve", "dispatch", "close", "fail", "free", "over"}
CallFates == {"new", "open", "done", "dropped", "freed"}

AppType ==
    /\ script \in [AppScripts -> [at : AppSpots, request : Nat]]
    /\ registered \subseteq AppScripts /\ gone \subseteq AppScripts
    /\ requestsOf \in [AppScripts -> Seq(Asks)]
    /\ asked \in 0..MaxAsked /\ call \in [Asks -> CallFates] /\ lost \in BOOLEAN
    /\ \A s \in AppScripts : script[s].at = "dispatch" => script[s].request \in Asks

\* An app is found from the time it is made until it closes; one that is gone is not
\* found and has no requests.
AppsClose ==
    /\ \A s, u \in registered : s = u
    /\ \A s \in registered : script[s].at \notin {"begin", "create", "fail", "free"}
    /\ \A s \in AppScripts : script[s].at = "free" => requestsOf[s] = <<>>
    /\ \A s \in gone : /\ script[s].at = "over" /\ s \notin registered
                       /\ requestsOf[s] = <<>>
    /\ ~lost

\* A request is in one place of these queues.
Apart(q) ==
    \A s, u \in AppScripts : \A i \in 1..Len(q[s]), j \in 1..Len(q[u]) :
        q[s][i] = q[u][j] => s = u /\ i = j

\* What the scripts have of the requests is open, and one script has it.
RequestsKept ==
    /\ \A r \in Asks : r > asked => call[r] = "new"
    /\ \A s \in AppScripts : \A i \in 1..Len(requestsOf[s]) : call[requestsOf[s][i]] = "open"
    /\ Apart(requestsOf)
    /\ \A s \in AppScripts : script[s].at = "dispatch" =>
          /\ call[script[s].request] = "open"
          /\ \A u \in AppScripts : /\ \A i \in 1..Len(requestsOf[u]) :
                                         requestsOf[u][i] # script[s].request
                                   /\ script[u].at = "dispatch" /\ u # s =>
                                         script[u].request # script[s].request

AppInv == AppType /\ AppsClose /\ RequestsKept

LEMMA Queues ==
    ASSUME AppType, NEW s \in AppScripts
    PROVE  /\ requestsOf[s] \in Seq(Asks) /\ Len(requestsOf[s]) \in Nat
           /\ \A i \in 1..Len(requestsOf[s]) : requestsOf[s][i] \in Asks
  <1>1. requestsOf[s] \in Seq(Asks)
    BY DEF AppType
  <1> QED
    BY <1>1, LenProperties, ElementOfSeq

\* The first request is taken from the queue of a script.
Shorter(q, s) ==
    /\ q \in [AppScripts -> Seq(Asks)] /\ Apart(q)
    /\ \A u \in AppScripts : \A i \in 1..Len(q[u]) :
          /\ \E j \in 1..Len(requestsOf[u]) : q[u][i] = requestsOf[u][j]
          /\ q[u][i] # Head(requestsOf[s])
    /\ \A u \in AppScripts : requestsOf[u] = <<>> => q[u] = <<>>

LEMMA HeadTaken ==
    ASSUME AppType, Apart(requestsOf), NEW s \in AppScripts, requestsOf[s] # <<>>
    PROVE  /\ Shorter([requestsOf EXCEPT ![s] = Tail(requestsOf[s])], s)
           /\ Head(requestsOf[s]) \in Asks /\ 1 \in 1..Len(requestsOf[s])
           /\ Head(requestsOf[s]) = requestsOf[s][1]
  <1>1. PICK n, q : n = Len(requestsOf[s])
                    /\ q = [requestsOf EXCEPT ![s] = Tail(requestsOf[s])]
    OBVIOUS
  <1>2. /\ n \in Nat \ {0} /\ Tail(requestsOf[s]) \in Seq(Asks)
        /\ Len(Tail(requestsOf[s])) = n - 1
        /\ \A i \in 1..(n - 1) : Tail(requestsOf[s])[i] = requestsOf[s][i + 1]
        /\ Head(requestsOf[s]) = requestsOf[s][1]
    BY <1>1, Queues, HeadTailProperties, EmptySeq
  <1>3. /\ q \in [AppScripts -> Seq(Asks)] /\ q[s] = Tail(requestsOf[s])
        /\ \A u \in AppScripts : u # s => q[u] = requestsOf[u]
    BY <1>1, <1>2 DEF AppType
  <1>4. 1 \in 1..n /\ \A i \in 1..(n - 1) : i + 1 \in 1..n /\ i + 1 # 1
    BY <1>2
  <1>5. \A i \in 1..Len(q[s]) : i \in 1..(n - 1) /\ q[s][i] = requestsOf[s][i + 1]
    BY <1>2, <1>3
  <1>6. ASSUME NEW u \in AppScripts, NEW v \in AppScripts,
               NEW i \in 1..Len(q[u]), NEW j \in 1..Len(q[v]), q[u][i] = q[v][j]
        PROVE  u = v /\ i = j
    <2>1. CASE u = s /\ v = s
      <3>1. i + 1 = j + 1
        BY <1>1, <1>4, <1>5, <1>6, <2>1 DEF Apart
      <3>2. i \in Int /\ j \in Int
        BY <1>5, <2>1
      <3> QED
        BY <2>1, <3>1, <3>2
    <2>2. CASE u = s /\ v # s
      BY <1>1, <1>3, <1>4, <1>5, <1>6, <2>2 DEF Apart
    <2>3. CASE u # s /\ v = s
      BY <1>1, <1>3, <1>4, <1>5, <1>6, <2>3 DEF Apart
    <2>4. CASE u # s /\ v # s
      <3>1. q[u] = requestsOf[u] /\ q[v] = requestsOf[v]
        BY <1>3, <2>4
      <3>2. i \in 1..Len(requestsOf[u]) /\ j \in 1..Len(requestsOf[v])
            /\ requestsOf[u][i] = requestsOf[v][j]
        BY <1>6, <3>1
      <3> QED
        BY <3>2 DEF Apart
    <2> QED
      BY <2>1, <2>2, <2>3, <2>4
  <1>7. ASSUME NEW u \in AppScripts, NEW i \in 1..Len(q[u])
        PROVE  /\ \E j \in 1..Len(requestsOf[u]) : q[u][i] = requestsOf[u][j]
               /\ q[u][i] # Head(requestsOf[s])
    <2>1. CASE u = s
      BY <1>1, <1>2, <1>4, <1>5, <2>1 DEF Apart
    <2>2. CASE u # s
      BY <1>1, <1>2, <1>3, <1>4, <2>2 DEF Apart
    <2> QED
      BY <2>1, <2>2
  <1>8. \A u \in AppScripts : requestsOf[u] = <<>> => q[u] = <<>>
    BY <1>3
  <1>9. Head(requestsOf[s]) \in Asks
    BY <1>1, <1>2, <1>4, Queues
  <1>10. Shorter(q, s)
    BY <1>3, <1>6, <1>7, <1>8 DEF Shorter, Apart
  <1> QED
    BY <1>1, <1>2, <1>4, <1>9, <1>10

-----------------------------------------------------------------------------
(* The steps of a script.                                                     *)

\* A script goes elsewhere; the requests stay as they are.
LEMMA ScriptGoes ==
    ASSUME AppInv, NEW s \in AppScripts, NEW place \in AppSpots \ {"dispatch"},
           L!Goto(s, place), UNCHANGED <<requestsOf, asked, call, lost>>
    PROVE  /\ script' \in [AppScripts -> [at : AppSpots, request : Nat]]
           /\ script'[s].at = place /\ \A u \in AppScripts : u # s => script'[u] = script[u]
           /\ \A u \in AppScripts : script'[u].at = "dispatch" => script'[u].request \in Asks
           /\ RequestsKept'
  <1>1. PICK m : m = [at |-> place, request |-> 0]
    OBVIOUS
  <1>2. m \in [at : AppSpots, request : Nat] /\ m.at = place
    BY <1>1
  <1>3. script' = [script EXCEPT ![s] = m]
    BY <1>1 DEF L!Goto
  <1>4. /\ script' \in [AppScripts -> [at : AppSpots, request : Nat]] /\ script'[s].at = place
        /\ \A u \in AppScripts : u # s => script'[u] = script[u]
    BY <1>2, <1>3 DEF AppInv, AppType
  <1>5. \A u \in AppScripts : script'[u].at = "dispatch" => u # s
    BY <1>4
  <1>6. \A u \in AppScripts : script'[u].at = "dispatch" => script'[u].request \in Asks
    BY <1>4, <1>5 DEF AppInv, AppType
  <1>7. RequestsKept'
    BY <1>4, <1>5 DEF AppInv, RequestsKept, Apart
  <1> QED
    BY <1>4, <1>6, <1>7

LEMMA LookKeeps ==
    ASSUME AppInv, NEW s \in AppScripts, L!Look(s)
    PROVE  AppInv'
  <1>1. PICK place \in {"create", "over"} : L!Goto(s, place)
    BY DEF L!Look
  <1>2. /\ script[s].at = "begin" /\ UNCHANGED <<requestsOf, asked, call, lost, registered, gone>>
    BY DEF L!Look, L!At, L!http
  <1>3. place \in AppSpots \ {"dispatch"}
    BY DEF AppSpots
  <1>4. /\ script' \in [AppScripts -> [at : AppSpots, request : Nat]]
        /\ script'[s].at = place /\ \A u \in AppScripts : u # s => script'[u] = script[u]
        /\ \A u \in AppScripts : script'[u].at = "dispatch" => script'[u].request \in Asks
        /\ RequestsKept'
    BY <1>1, <1>2, <1>3, ScriptGoes
  <1>5. AppType'
    BY <1>2, <1>4 DEF AppInv, AppType
  <1>6. AppsClose'
    BY <1>2, <1>4 DEF AppInv, AppsClose, AppType
  <1> QED
    BY <1>4, <1>5, <1>6 DEF AppInv

LEMMA CreateKeeps ==
    ASSUME AppInv, NEW s \in AppScripts, L!Create(s) \/ L!NoOwner(s)
    PROVE  AppInv'
  <1>1. PICK place \in {"made", "over"} : L!Goto(s, place)
    BY DEF L!Create, L!NoOwner
  <1>2. /\ script[s].at = "create" /\ UNCHANGED <<requestsOf, asked, call, lost, gone>>
        /\ (registered' = registered \/ (registered = {} /\ registered' = {s}))
    BY DEF L!Create, L!NoOwner, L!At, L!http, L!Found, L!FoundNow
  <1>3. place \in AppSpots \ {"dispatch"}
    BY DEF AppSpots
  <1>4. /\ script' \in [AppScripts -> [at : AppSpots, request : Nat]]
        /\ script'[s].at = place /\ \A u \in AppScripts : u # s => script'[u] = script[u]
        /\ \A u \in AppScripts : script'[u].at = "dispatch" => script'[u].request \in Asks
        /\ RequestsKept'
    BY <1>1, <1>2, <1>3, ScriptGoes
  <1>5. AppType'
    BY <1>2, <1>4 DEF AppInv, AppType
  <1>6. AppsClose'
    BY <1>2, <1>4 DEF AppInv, AppsClose, AppType
  <1> QED
    BY <1>4, <1>5, <1>6 DEF AppInv

LEMMA MountKeeps ==
    ASSUME AppInv, NEW s \in AppScripts, L!Mount(s)
    PROVE  AppInv'
  BY DEF L!Mount, L!http, AppInv, AppType, AppsClose, RequestsKept, Apart

LEMMA ServeKeeps ==
    ASSUME AppInv, NEW s \in AppScripts, L!Serve(s) \/ L!Stops(s)
    PROVE  AppInv'
  <1>1. PICK place \in {"serve", "close"} : L!Goto(s, place)
    BY DEF L!Serve, L!Stops
  <1>2. /\ script[s].at \in {"made", "serve"}
        /\ UNCHANGED <<requestsOf, asked, call, lost, gone, registered>>
    BY DEF L!Serve, L!Stops, L!At, L!http
  <1>3. place \in AppSpots \ {"dispatch"}
    BY DEF AppSpots
  <1>4. /\ script' \in [AppScripts -> [at : AppSpots, request : Nat]]
        /\ script'[s].at = place /\ \A u \in AppScripts : u # s => script'[u] = script[u]
        /\ \A u \in AppScripts : script'[u].at = "dispatch" => script'[u].request \in Asks
        /\ RequestsKept'
    BY <1>1, <1>2, <1>3, ScriptGoes
  <1>5. AppType'
    BY <1>2, <1>4 DEF AppInv, AppType
  <1>6. AppsClose'
    BY <1>2, <1>4 DEF AppInv, AppsClose, AppType
  <1> QED
    BY <1>4, <1>5, <1>6 DEF AppInv

LEMMA UnregisterKeeps ==
    ASSUME AppInv, NEW s \in AppScripts, L!Unregister(s)
    PROVE  AppInv'
  <1>1. L!Goto(s, "fail") /\ "fail" \in AppSpots \ {"dispatch"}
    BY DEF L!Unregister, AppSpots
  <1>2. /\ script[s].at = "close" /\ registered' = registered \ {s}
        /\ UNCHANGED <<requestsOf, asked, call, lost, gone>>
    BY DEF L!Unregister, L!At, L!http
  <1>3. /\ script' \in [AppScripts -> [at : AppSpots, request : Nat]]
        /\ script'[s].at = "fail" /\ \A u \in AppScripts : u # s => script'[u] = script[u]
        /\ \A u \in AppScripts : script'[u].at = "dispatch" => script'[u].request \in Asks
        /\ RequestsKept'
    BY <1>1, <1>2, ScriptGoes
  <1>4. AppType'
    BY <1>2, <1>3 DEF AppInv, AppType
  <1>5. AppsClose'
    BY <1>2, <1>3 DEF AppInv, AppsClose, AppType
  <1> QED
    BY <1>3, <1>4, <1>5 DEF AppInv

LEMMA FreeKeeps ==
    ASSUME AppInv, NEW s \in AppScripts, L!Free(s)
    PROVE  AppInv'
  <1>1. L!Goto(s, "over") /\ "over" \in AppSpots \ {"dispatch"}
    BY DEF L!Free, AppSpots
  <1>2. /\ script[s].at = "free" /\ gone' = gone \cup {s}
        /\ UNCHANGED <<requestsOf, asked, call, lost, registered>>
    BY DEF L!Free, L!At, L!http
  <1>3. /\ script' \in [AppScripts -> [at : AppSpots, request : Nat]]
        /\ script'[s].at = "over" /\ \A u \in AppScripts : u # s => script'[u] = script[u]
        /\ \A u \in AppScripts : script'[u].at = "dispatch" => script'[u].request \in Asks
        /\ RequestsKept'
    BY <1>1, <1>2, ScriptGoes
  <1>4. AppType'
    BY <1>2, <1>3 DEF AppInv, AppType
  <1>5. AppsClose'
    BY <1>2, <1>3 DEF AppInv, AppsClose, AppType
  <1> QED
    BY <1>3, <1>4, <1>5 DEF AppInv

LEMMA AppReceiveKeeps ==
    ASSUME AppInv, NEW s \in AppScripts, L!Receive(s)
    PROVE  AppInv'
  <1>1. PICK h, m : h = Head(requestsOf[s]) /\ m = [at |-> "dispatch", request |-> h]
    OBVIOUS
  <1>2. /\ AppType /\ AppsClose /\ RequestsKept
        /\ script[s].at = "serve" /\ requestsOf[s] # <<>> /\ script' = [script EXCEPT ![s] = m]
        /\ requestsOf' = [requestsOf EXCEPT ![s] = Tail(requestsOf[s])]
        /\ UNCHANGED <<asked, call, lost, gone, registered>>
    BY <1>1 DEF L!Receive, L!At, L!http, AppInv
  <1>3. /\ Shorter(requestsOf', s) /\ h \in Asks /\ 1 \in 1..Len(requestsOf[s])
        /\ h = requestsOf[s][1]
    BY <1>1, <1>2, HeadTaken DEF RequestsKept
  <1>4. /\ script' \in [AppScripts -> [at : AppSpots, request : Nat]]
        /\ script'[s].at = "dispatch" /\ script'[s].request = h
        /\ \A u \in AppScripts : u # s => script'[u] = script[u]
    <2>1. m \in [at : AppSpots, request : Nat] /\ m.at = "dispatch" /\ m.request = h
      BY <1>1, <1>3 DEF AppSpots, Asks
    <2> QED
      BY <1>2, <2>1 DEF AppType
  <1>5. AppType'
    BY <1>2, <1>3, <1>4 DEF AppType, Shorter
  <1>6. AppsClose'
    BY <1>2, <1>3, <1>4 DEF AppsClose, AppType, Shorter
  <1>7. \A u \in AppScripts : \A i \in 1..Len(requestsOf'[u]) :
           call[requestsOf'[u][i]] = "open" /\ requestsOf'[u][i] # h
    <2> SUFFICES ASSUME NEW u \in AppScripts, NEW i \in 1..Len(requestsOf'[u])
                 PROVE  call[requestsOf'[u][i]] = "open" /\ requestsOf'[u][i] # h
      OBVIOUS
    <2>1. PICK j \in 1..Len(requestsOf[u]) : requestsOf'[u][i] = requestsOf[u][j]
      BY <1>3 DEF Shorter
    <2>2. call[requestsOf[u][j]] = "open"
      BY <1>2 DEF RequestsKept
    <2>3. requestsOf'[u][i] # h
      BY <1>1, <1>3 DEF Shorter
    <2> QED
      BY <2>1, <2>2, <2>3
  <1>8. call[h] = "open"
    BY <1>2, <1>3 DEF RequestsKept
  <1>9. ASSUME NEW u \in AppScripts, script'[u].at = "dispatch"
        PROVE  /\ call'[script'[u].request] = "open"
               /\ \A v \in AppScripts :
                     /\ \A i \in 1..Len(requestsOf'[v]) : requestsOf'[v][i] # script'[u].request
                     /\ script'[v].at = "dispatch" /\ v # u =>
                           script'[v].request # script'[u].request
    <2>1. CASE u = s
      <3>1. \A v \in AppScripts : script[v].at = "dispatch" => script[v].request # h
        BY <1>2, <1>3 DEF RequestsKept
      <3> QED
        BY <1>2, <1>4, <1>7, <1>8, <2>1, <3>1
    <2>2. CASE u # s
      <3>1. script[u].at = "dispatch" /\ script'[u] = script[u]
        BY <1>4, <1>9, <2>2
      <3>2. /\ call[script[u].request] = "open"
            /\ \A v \in AppScripts :
                  /\ \A i \in 1..Len(requestsOf[v]) : requestsOf[v][i] # script[u].request
                  /\ script[v].at = "dispatch" /\ v # u =>
                        script[v].request # script[u].request
        BY <1>2, <3>1 DEF RequestsKept
      <3>3. \A v \in AppScripts : \A i \in 1..Len(requestsOf'[v]) :
               requestsOf'[v][i] # script[u].request
        BY <1>3, <3>2 DEF Shorter
      <3>4. h # script[u].request
        BY <1>3, <3>2
      <3> QED
        BY <1>2, <1>4, <3>1, <3>2, <3>3, <3>4
    <2> QED
      BY <2>1, <2>2
  <1>10. Apart(requestsOf')
    BY <1>3 DEF Shorter
  <1>11. RequestsKept'
    BY <1>2, <1>7, <1>9, <1>10 DEF RequestsKept
  <1> QED
    BY <1>5, <1>6, <1>11 DEF AppInv

\* The request that a script has is finished.
LEMMA Finishes ==
    ASSUME AppInv, NEW s \in AppScripts, script[s].at = "dispatch",
           NEW place \in {"serve", "close"}, L!Goto(s, place),
           NEW x \in {"done", "dropped"}, call' = [call EXCEPT ![script[s].request] = x],
           UNCHANGED <<requestsOf, asked, lost, gone, registered>>
    PROVE  AppInv'
  <1>1. PICK r, m : r = script[s].request /\ m = [at |-> place, request |-> 0]
    OBVIOUS
  <1>2. /\ AppType /\ AppsClose /\ RequestsKept /\ r \in Asks
        /\ script' = [script EXCEPT ![s] = m]
    BY <1>1 DEF L!Goto, AppInv, AppType
  <1>3. /\ script' \in [AppScripts -> [at : AppSpots, request : Nat]]
        /\ script'[s].at = place /\ \A u \in AppScripts : u # s => script'[u] = script[u]
    <2>1. m \in [at : AppSpots, request : Nat] /\ m.at = place
      BY <1>1 DEF AppSpots
    <2> QED
      BY <1>2, <2>1 DEF AppType
  <1>4. /\ call' \in [Asks -> CallFates] /\ call'[r] = x
        /\ \A a \in Asks : a # r => call'[a] = call[a]
    BY <1>1, <1>2 DEF AppType, CallFates
  <1>5. AppType'
    BY <1>2, <1>3, <1>4 DEF AppType
  <1>6. AppsClose'
    BY <1>2, <1>3 DEF AppsClose, AppType
  <1>7. /\ call[r] = "open"
        /\ \A v \in AppScripts : /\ \A i \in 1..Len(requestsOf[v]) : requestsOf[v][i] # r
                                 /\ script[v].at = "dispatch" /\ v # s => script[v].request # r
    BY <1>1, <1>2 DEF RequestsKept
  <1>8. \A a \in Asks : a > asked => call'[a] = "new"
    BY <1>2, <1>4, <1>7 DEF RequestsKept
  <1>9. \A v \in AppScripts : \A i \in 1..Len(requestsOf[v]) : call'[requestsOf[v][i]] = "open"
    BY <1>2, <1>4, <1>7, Queues DEF RequestsKept
  <1>10. ASSUME NEW u \in AppScripts, script'[u].at = "dispatch"
         PROVE  u # s /\ script'[u] = script[u] /\ script[u].request \in Asks
                /\ call'[script[u].request] = "open"
    <2>1. u # s /\ script'[u] = script[u] /\ script[u].request \in Asks
      BY <1>2, <1>3, <1>10 DEF AppType
    <2>2. script[u].request # r /\ call[script[u].request] = "open"
      BY <1>2, <1>7, <1>10, <2>1 DEF RequestsKept
    <2> QED
      BY <1>4, <2>1, <2>2
  <1>11. RequestsKept'
    BY <1>2, <1>8, <1>9, <1>10 DEF RequestsKept, Apart
  <1> QED
    BY <1>5, <1>6, <1>11 DEF AppInv

LEMMA DispatchKeeps ==
    ASSUME AppInv, NEW s \in AppScripts, L!Dispatch(s) \/ L!DispatchThrows(s)
    PROVE  AppInv'
  <1>1. /\ script[s].at = "dispatch" /\ call[script[s].request] = "open"
    BY DEF L!Dispatch, L!DispatchThrows, L!At, AppInv, RequestsKept
  <1>2. PICK place \in {"serve", "close"}, x \in {"done", "dropped"} :
           L!Goto(s, place) /\ call' = [call EXCEPT ![script[s].request] = x]
    BY <1>1 DEF L!Dispatch, L!DispatchThrows, L!Completed
  <1>3. UNCHANGED <<requestsOf, asked, lost, gone, registered>>
    BY DEF L!Dispatch, L!DispatchThrows
  <1> QED
    BY <1>1, <1>2, <1>3, Finishes

LEMMA FailPendingKeeps ==
    ASSUME AppInv, NEW s \in AppScripts, L!FailPending(s)
    PROVE  AppInv'
  <1>1. /\ script[s].at = "fail" /\ UNCHANGED <<asked, lost, gone, registered>>
        /\ AppType /\ AppsClose /\ RequestsKept
    BY DEF L!FailPending, L!At, AppInv
  <1>2. CASE requestsOf[s] = <<>> /\ L!Goto(s, "free") /\ UNCHANGED <<requestsOf, call>>
    <2>1. "free" \in AppSpots \ {"dispatch"}
      BY DEF AppSpots
    <2>2. /\ script' \in [AppScripts -> [at : AppSpots, request : Nat]]
          /\ script'[s].at = "free" /\ \A u \in AppScripts : u # s => script'[u] = script[u]
          /\ \A u \in AppScripts : script'[u].at = "dispatch" => script'[u].request \in Asks
          /\ RequestsKept'
      BY <1>1, <1>2, <2>1, ScriptGoes
    <2>3. AppType'
      BY <1>1, <1>2, <2>2 DEF AppType
    <2>4. AppsClose'
      BY <1>1, <1>2, <2>2 DEF AppsClose, AppType
    <2> QED
      BY <2>2, <2>3, <2>4 DEF AppInv
  <1>3. CASE /\ requestsOf[s] # <<>> /\ L!Completed(Head(requestsOf[s])) /\ script' = script
             /\ requestsOf' = [requestsOf EXCEPT ![s] = Tail(requestsOf[s])]
    <2>1. PICK h : h = Head(requestsOf[s])
      OBVIOUS
    <2>2. /\ Shorter(requestsOf', s) /\ h \in Asks /\ 1 \in 1..Len(requestsOf[s])
          /\ h = requestsOf[s][1]
      BY <1>1, <1>3, <2>1, HeadTaken DEF RequestsKept
    <2>3. call[h] = "open"
      BY <1>1, <2>2 DEF RequestsKept
    <2>4. call' = [call EXCEPT ![h] = "done"]
      BY <1>3, <2>1, <2>3 DEF L!Completed
    <2>5. /\ call' \in [Asks -> CallFates] /\ call'[h] = "done"
          /\ \A a \in Asks : a # h => call'[a] = call[a]
      BY <1>1, <2>2, <2>4 DEF AppType, CallFates
    <2>6. AppType'
      BY <1>1, <1>3, <2>2, <2>5 DEF AppType, Shorter
    <2>7. AppsClose'
      BY <1>1, <1>3, <2>2 DEF AppsClose, AppType, Shorter
    <2>8. \A a \in Asks : a > asked => call'[a] = "new"
      BY <1>1, <2>3, <2>5 DEF RequestsKept
    <2>9. ASSUME NEW v \in AppScripts, NEW i \in 1..Len(requestsOf'[v])
          PROVE  call'[requestsOf'[v][i]] = "open"
      <3>1. PICK j \in 1..Len(requestsOf[v]) : requestsOf'[v][i] = requestsOf[v][j]
        BY <2>2 DEF Shorter
      <3>2. requestsOf[v][j] # h /\ requestsOf[v][j] \in Asks /\ call[requestsOf[v][j]] = "open"
        BY <1>1, <2>1, <2>2, <3>1, Queues DEF Shorter, RequestsKept
      <3> QED
        BY <2>5, <3>1, <3>2
    <2>10. ASSUME NEW u \in AppScripts, script[u].at = "dispatch"
           PROVE  /\ call'[script[u].request] = "open"
                  /\ \A v \in AppScripts :
                        /\ \A i \in 1..Len(requestsOf'[v]) :
                              requestsOf'[v][i] # script[u].request
                        /\ script[v].at = "dispatch" /\ v # u =>
                              script[v].request # script[u].request
      <3>1. /\ call[script[u].request] = "open" /\ script[u].request \in Asks
            /\ \A v \in AppScripts :
                  /\ \A i \in 1..Len(requestsOf[v]) : requestsOf[v][i] # script[u].request
                  /\ script[v].at = "dispatch" /\ v # u =>
                        script[v].request # script[u].request
        BY <1>1, <2>10 DEF RequestsKept, AppType
      <3>2. h # script[u].request
        BY <2>2, <3>1
      <3>3. call'[script[u].request] = "open"
        BY <2>5, <3>1, <3>2
      <3> QED
        BY <2>2, <3>1, <3>3 DEF Shorter
    <2>11. Apart(requestsOf')
      BY <2>2 DEF Shorter
    <2>12. RequestsKept'
      <3>1. script' = script /\ asked' = asked
        BY <1>1, <1>3
      <3> QED
        BY <2>8, <2>9, <2>10, <2>11, <3>1 DEF RequestsKept
    <2> QED
      BY <2>6, <2>7, <2>12 DEF AppInv
  <1> QED
    BY <1>2, <1>3 DEF L!FailPending

-----------------------------------------------------------------------------
(* The steps of the HTTP server.                                              *)

LEMMA RequestKeeps ==
    ASSUME AppInv, L!Request
    PROVE  AppInv'
  <1>1. /\ AppType /\ AppsClose /\ RequestsKept
        /\ UNCHANGED <<script, registered, gone>>
        /\ asked' = asked + 1 /\ asked < MaxAsked
    BY DEF L!Request, AppInv
  <1>2. PICK r : r = asked + 1
    OBVIOUS
  <1>3. /\ r \in Asks /\ asked' = r /\ asked' \in 0..MaxAsked
        /\ \A a \in Asks : a > asked' => a > asked /\ a # r
        /\ r > asked
    BY <1>1, <1>2, AppAssumption DEF AppType, Asks
  <1>4. call[r] = "new"
    BY <1>1, <1>3 DEF RequestsKept
  <1>5. /\ \A u \in AppScripts : \A i \in 1..Len(requestsOf[u]) : requestsOf[u][i] # r
        /\ \A u \in AppScripts : script[u].at = "dispatch" =>
              script[u].request # r /\ script[u].request \in Asks
    BY <1>1, <1>3, <1>4 DEF RequestsKept, AppType
  <1>6. PICK x \in {"open", "freed"} : call' = [call EXCEPT ![r] = x]
    BY <1>1, <1>2 DEF L!Request
  <1>7. /\ call' \in [Asks -> CallFates] /\ call'[r] = x
        /\ \A a \in Asks : a # r => call'[a] = call[a]
    BY <1>1, <1>3, <1>6 DEF AppType, CallFates
  <1>8. \A a \in Asks : a > asked' => call'[a] = "new"
    BY <1>1, <1>3, <1>7 DEF RequestsKept
  <1>9. \A u \in AppScripts : \A i \in 1..Len(requestsOf[u]) : call'[requestsOf[u][i]] = "open"
    BY <1>1, <1>5, <1>7, Queues DEF RequestsKept
  <1>10. \A u \in AppScripts : script[u].at = "dispatch" => call'[script[u].request] = "open"
    BY <1>1, <1>5, <1>7 DEF RequestsKept
  <1>11. CASE UNCHANGED <<requestsOf, lost>>
    <2>1. AppType'
      BY <1>1, <1>3, <1>7, <1>11 DEF AppType
    <2>2. AppsClose'
      BY <1>1, <1>11 DEF AppsClose
    <2>3. RequestsKept'
      BY <1>1, <1>8, <1>9, <1>10, <1>11 DEF RequestsKept, Apart
    <2> QED
      BY <2>1, <2>2, <2>3 DEF AppInv
  <1>12. ASSUME NEW s \in registered, lost' = (lost \/ s \in gone), call'[r] = "open",
                requestsOf' = [requestsOf EXCEPT ![s] = Append(requestsOf[s], r)]
         PROVE  AppInv'
    <2>1. s \in AppScripts /\ s \notin gone /\ lost' = FALSE
          /\ script[s].at \notin {"free", "begin", "create", "fail"}
      BY <1>1, <1>12 DEF AppType, AppsClose
    <2>2. PICK n : n = Len(requestsOf[s])
      OBVIOUS
    <2>3. /\ n \in Nat /\ Append(requestsOf[s], r) \in Seq(Asks)
          /\ Len(Append(requestsOf[s], r)) = n + 1 /\ Append(requestsOf[s], r)[n + 1] = r
          /\ \A i \in 1..n : Append(requestsOf[s], r)[i] = requestsOf[s][i]
      BY <1>1, <1>3, <2>1, <2>2, Queues, AppendProperties
    <2>4. /\ requestsOf' \in [AppScripts -> Seq(Asks)]
          /\ requestsOf'[s] = Append(requestsOf[s], r)
          /\ \A u \in AppScripts : u # s => requestsOf'[u] = requestsOf[u]
      BY <1>1, <1>12, <2>1, <2>3 DEF AppType
    <2>5. \A i \in 1..(n + 1) : i \in 1..n \/ i = n + 1
      BY <2>3
    <2>6. \A u \in AppScripts : \A i \in 1..Len(requestsOf'[u]) :
             \/ i \in 1..Len(requestsOf[u]) /\ requestsOf'[u][i] = requestsOf[u][i]
             \/ u = s /\ i = n + 1 /\ requestsOf'[u][i] = r
      BY <2>2, <2>3, <2>4, <2>5
    <2>7. AppType'
      BY <1>1, <1>3, <1>7, <2>1, <2>4 DEF AppType
    <2>8. AppsClose'
      BY <1>1, <2>1, <2>4 DEF AppsClose, AppType
    <2>9. \A u \in AppScripts : \A i \in 1..Len(requestsOf'[u]) : call'[requestsOf'[u][i]] = "open"
      BY <1>9, <1>12, <2>6
    <2>10. ASSUME NEW u \in AppScripts, NEW v \in AppScripts,
                  NEW i \in 1..Len(requestsOf'[u]), NEW j \in 1..Len(requestsOf'[v]),
                  requestsOf'[u][i] = requestsOf'[v][j]
           PROVE  u = v /\ i = j
      <3>1. CASE i \in 1..Len(requestsOf[u]) /\ requestsOf'[u][i] = requestsOf[u][i]
        <4>1. requestsOf'[u][i] # r
          BY <1>5, <3>1
        <4>2. j \in 1..Len(requestsOf[v]) /\ requestsOf'[v][j] = requestsOf[v][j]
          BY <2>6, <2>10, <4>1
        <4>3. requestsOf[u][i] = requestsOf[v][j] /\ Apart(requestsOf)
          BY <1>1, <2>10, <3>1, <4>2 DEF RequestsKept
        <4> QED
          BY <3>1, <4>2, <4>3 DEF Apart
      <3>2. CASE u = s /\ i = n + 1 /\ requestsOf'[u][i] = r
        <4>1. ~(j \in 1..Len(requestsOf[v]) /\ requestsOf'[v][j] = requestsOf[v][j])
          BY <1>5, <2>10, <3>2
        <4> QED
          BY <2>6, <3>2, <4>1
      <3> QED
        BY <2>6, <3>1, <3>2
    <2>11. Apart(requestsOf')
      BY <2>10 DEF Apart
    <2>12. \A u, v \in AppScripts : script[u].at = "dispatch" =>
              \A i \in 1..Len(requestsOf'[v]) : requestsOf'[v][i] # script[u].request
      BY <1>1, <1>5, <2>6 DEF RequestsKept
    <2>13. RequestsKept'
      BY <1>1, <1>8, <1>10, <2>9, <2>11, <2>12 DEF RequestsKept
    <2> QED
      BY <2>7, <2>8, <2>13 DEF AppInv
  <1>13. \A s \in registered : requestsOf' = [requestsOf EXCEPT ![s] = Append(@, asked')] =>
            requestsOf' = [requestsOf EXCEPT ![s] = Append(requestsOf[s], r)]
    BY <1>3
  <1>14. \A s : call' = [call EXCEPT ![asked'] = "open"] => call'[r] = "open"
    BY <1>1, <1>3 DEF AppType
  <1> QED
    BY <1>11, <1>12, <1>13, <1>14 DEF L!Request, L!Callable

\* The server is done with a request, or leaves it where it is.
LEMMA AnswerKeeps ==
    ASSUME AppInv, L!Answer \/ L!TimesOut
    PROVE  AppInv'
  <1>1. /\ AppType /\ AppsClose /\ RequestsKept
        /\ UNCHANGED <<script, registered, requestsOf, gone, asked, lost>>
    BY DEF L!Answer, L!TimesOut, AppInv
  <1>2. CASE call' = call
    BY <1>1, <1>2 DEF AppType, AppsClose, RequestsKept, Apart, AppInv
  <1>3. ASSUME NEW r \in Asks, call[r] = "done", call' = [call EXCEPT ![r] = "freed"]
        PROVE  AppInv'
    <2>1. /\ call' \in [Asks -> CallFates]
          /\ \A a \in Asks : a # r => call'[a] = call[a]
      BY <1>1, <1>3 DEF AppType, CallFates
    <2>2. AppType'
      BY <1>1, <2>1 DEF AppType
    <2>3. AppsClose'
      BY <1>1 DEF AppsClose
    <2>4. \A a \in Asks : call[a] \in {"new", "open"} => call'[a] = call[a]
      BY <1>3, <2>1
    <2>5. RequestsKept'
      BY <1>1, <2>4, Queues DEF RequestsKept, AppType, Apart
    <2> QED
      BY <2>2, <2>3, <2>5 DEF AppInv
  <1>4. CASE L!Answer
    BY <1>3, <1>4 DEF L!Answer, L!Requests, Asks
  <1>5. CASE L!TimesOut
    <2>1. PICK r \in Asks : call' = [call EXCEPT ![r] = call[r]]
      BY <1>5 DEF L!TimesOut, L!LeftBehind, L!Requests, Asks
    <2>2. call' = call
      BY <1>1, <2>1 DEF AppType
    <2> QED
      BY <1>2, <2>2
  <1> QED
    BY <1>4, <1>5

LEMMA AppKept ==
    ASSUME AppInv, UNCHANGED <<script, registered, requestsOf, gone, asked, call, lost>>
    PROVE  AppInv'
  BY DEF AppInv, AppType, AppsClose, RequestsKept, Apart

LEMMA AppStarts ==
    ASSUME L!Init
    PROVE  AppInv
  <1>1. \A s \in AppScripts : Len(requestsOf[s]) = 0 /\ script[s].at = "begin"
    BY DEF L!Init
  <1>2. AppType
    <2>1. 0 \in 0..MaxAsked /\ <<>> \in Seq(Asks)
      BY AppAssumption
    <2>2. [at |-> "begin", request |-> 0] \in [at : AppSpots, request : Nat]
      BY DEF AppSpots
    <2>3. call \in [Asks -> CallFates]
      BY DEF L!Init, CallFates, Asks, L!Requests
    <2> QED
      BY <1>1, <2>1, <2>2, <2>3 DEF L!Init, AppType
  <1>3. AppsClose
    BY <1>1 DEF L!Init, AppsClose
  <1>4. RequestsKept
    BY <1>1 DEF L!Init, RequestsKept, Apart, Asks, L!Requests
  <1> QED
    BY <1>2, <1>3, <1>4 DEF AppInv

LEMMA AppStep ==
    ASSUME AppInv, L!Next
    PROVE  AppInv'
  <1>1. CASE L!Serves
    <2>1. CASE L!Static
      BY <2>1, AppKept DEF L!Static
    <2> QED
      BY <1>1, <2>1, RequestKeeps, AnswerKeeps DEF L!Serves
  <1>2. ASSUME NEW s \in AppScripts, L!Run(s)
        PROVE  AppInv'
    BY <1>2, LookKeeps, CreateKeeps, MountKeeps, ServeKeeps, AppReceiveKeeps, DispatchKeeps,
       UnregisterKeeps, FailPendingKeeps, FreeKeeps DEF L!Run, L!Closes
  <1> QED
    BY <1>1, <1>2 DEF L!Next

LEMMA AppCardinality == \A S : L!Cardinality(S) = Cardinality(S)
  BY DEF L!Cardinality, Cardinality

\* LuaHttpServer: whatever scripts and requests come, two scripts never have the id at
\* a time, no answer is written to a request that was freed, and no request is put on
\* the queue of an app that is gone or left on it.
THEOREM AppsAreKept == L!AppSpec => [](L!OneApp /\ L!RequestsInOrder)
  <1>1. L!Init => AppInv
    BY AppStarts
  <1>2. AppInv /\ [L!Next]_(L!hvars) => AppInv'
    <2> SUFFICES ASSUME AppInv, [L!Next]_(L!hvars) PROVE AppInv'
      OBVIOUS
    <2>1. CASE L!Next
      BY <2>1, AppStep
    <2>2. CASE UNCHANGED L!hvars
      BY <2>2, AppKept DEF L!hvars, L!http
    <2> QED
      BY <2>1, <2>2
  <1>3. AppInv => L!OneApp /\ L!RequestsInOrder
    <2> SUFFICES ASSUME AppInv PROVE L!OneApp /\ L!RequestsInOrder
      OBVIOUS
    <2>1. L!OneApp
      BY OneAtMost, AppCardinality DEF AppInv, AppsClose, L!OneApp
    <2>2. \A r \in Asks : call[r] # "corrupt"
      BY DEF AppInv, AppType, CallFates
    <2> QED
      BY <2>1, <2>2 DEF AppInv, AppsClose, L!RequestsInOrder, L!Requests, Asks
  <1> QED
    BY <1>1, <1>2, <1>3, PTL DEF L!AppSpec

-----------------------------------------------------------------------------
(* WechatGateway: messages.                                                   *)

\* The numbers after lo up to hi.
Numbers(s, lo, hi) ==
    /\ lo <= hi /\ s \in Seq(Nat) /\ Len(s) = hi - lo
    /\ \A i \in 1..(hi - lo) : s[i] = lo + i

\* Where the messages are that are remembered, after a up to z, and those to be
\* processed, after h up to e, seen from the position f that is asked from.
Fits(pl, a, z, h, e, f) ==
    /\ a < z => a <= f /\ z <= f + BatchLen
    /\ h < e => f <= e /\ e <= f + BatchLen
    /\ h < e /\ a < z => a <= h /\ h <= z
    /\ h < e /\ a = z => h <= f
    /\ h = e /\ a < z => f <= z
    /\ pl \in {"off", "top", "ask"} => h = e
    /\ pl \in {"token", "publish"} => h < e /\ a < z /\ z = h + 1

\* What was published is increasing, and remembered or older.
Told(pl, p, a, z) ==
    /\ p \in Seq(Nat)
    /\ \A i, j \in 1..Len(p) : i < j => p[i] < p[j]
    /\ a = z => p = <<>>
    /\ \A i \in 1..Len(p) : p[i] <= z
    /\ pl \in {"token", "publish"} => \A i \in 1..Len(p) : p[i] < z

Reads(pl, b, s, p, f) ==
    \E a, z, h, e \in Nat :
        Numbers(s, a, z) /\ Numbers(b, h, e) /\ Fits(pl, a, z, h, e, f) /\ Told(pl, p, a, z)

Reading(pl, b, s, p, f) == AnswersFitSeen => Reads(pl, b, s, p, f)

\* The gateway's state and its task.
GwType == [alive : BOOLEAN, configured : BOOLEAN, stop : BOOLEAN, task : BOOLEAN, sync : Nat]
Polling(g, pl) ==
    /\ g \in GwType
    /\ pl \in {"off", "top", "ask", "process", "token", "publish"}
    /\ pl # "off" <=> g.task
    /\ g.task => g.alive
    /\ ~g.alive => g.sync = 0

Position(g, c) == IF g.sync = 0 THEN c ELSE g.sync

\* The row of stage messages of a chat whose count is n.
Row(n, row) ==
    /\ n \in 0..CountMax
    /\ row \in [stage : Nat, notice : Nat, missed : Nat]
    /\ row.stage <= n + row.missed /\ row.stage <= StageLimit + row.missed
    /\ row.notice <= 1 /\ (n <= StageLimit => row.notice = 0)

ChatInv ==
    /\ Polling(gw, at) /\ Reading(at, batch, seen, published, Position(gw, confirmed))
    /\ arrived \in Nat /\ confirmed \in Nat
    /\ gw.sync <= arrived /\ confirmed <= arrived
    /\ stages = [c \in G!Chats |-> stages[c]] /\ rows = [c \in G!Chats |-> rows[c]]
    /\ \A c \in G!Chats : Row(stages[c], rows[c])

-----------------------------------------------------------------------------
(* Runs of numbers.                                                           *)

LEMMA NoNumbers == \A n \in Nat : Numbers(<<>>, n, n)
  BY DEF Numbers

LEMMA OneLess ==
    ASSUME NEW s, NEW lo \in Nat, NEW hi \in Nat, Numbers(s, lo, hi), s # <<>>
    PROVE  Head(s) = lo + 1 /\ lo < hi /\ Numbers(Tail(s), lo + 1, hi)
  <1>1. s \in Seq(Nat) /\ Len(s) \in Nat /\ Len(s) = hi - lo /\ Len(s) # 0
    BY EmptySeq, LenProperties DEF Numbers
  <1>2. /\ Head(s) = s[1] /\ Tail(s) \in Seq(Nat) /\ Len(Tail(s)) = Len(s) - 1
        /\ \A i \in 1..(Len(s) - 1) : Tail(s)[i] = s[i + 1]
    BY <1>1, HeadTailProperties
  <1>3. lo < hi /\ 1 \in 1..(hi - lo) /\ lo + 1 <= hi /\ Len(s) - 1 = hi - (lo + 1)
    BY <1>1
  <1>4. \A i \in 1..(hi - (lo + 1)) : i + 1 \in 1..(hi - lo) /\ (lo + 1) + i = lo + (i + 1)
    BY <1>1
  <1>5. \A i \in 1..(hi - (lo + 1)) : Tail(s)[i] = (lo + 1) + i
    BY <1>1, <1>2, <1>3, <1>4 DEF Numbers
  <1> QED
    BY <1>2, <1>3, <1>5 DEF Numbers

LEMMA OneMore ==
    ASSUME NEW s, NEW lo \in Nat, NEW hi \in Nat, Numbers(s, lo, hi)
    PROVE  Numbers(Append(s, hi + 1), lo, hi + 1)
  <1>1. s \in Seq(Nat) /\ Len(s) \in Nat /\ Len(s) = hi - lo /\ lo <= hi
    BY LenProperties DEF Numbers
  <1>2. /\ Append(s, hi + 1) \in Seq(Nat) /\ Len(Append(s, hi + 1)) = Len(s) + 1
        /\ Append(s, hi + 1)[Len(s) + 1] = hi + 1
        /\ \A i \in 1..Len(s) : Append(s, hi + 1)[i] = s[i]
    BY <1>1, AppendProperties
  <1>3. lo <= hi + 1 /\ Len(s) + 1 = (hi + 1) - lo /\ lo + (Len(s) + 1) = hi + 1
    BY <1>1
  <1>4. \A i \in 1..((hi + 1) - lo) : i \in 1..Len(s) \/ i = Len(s) + 1
    BY <1>1
  <1>5. \A i \in 1..((hi + 1) - lo) : Append(s, hi + 1)[i] = lo + i
    BY <1>1, <1>2, <1>3, <1>4 DEF Numbers
  <1> QED
    BY <1>2, <1>3, <1>5 DEF Numbers

LEMMA IsAmong ==
    ASSUME NEW s, NEW lo \in Nat, NEW hi \in Nat, Numbers(s, lo, hi), NEW m \in Nat
    PROVE  (\E i \in DOMAIN s : s[i] = m) <=> lo < m /\ m <= hi
  <1>1. DOMAIN s = 1..(hi - lo) /\ lo <= hi
    BY DEF Numbers
  <1>2. ASSUME lo < m, m <= hi PROVE \E i \in DOMAIN s : s[i] = m
    <2>1. m - lo \in 1..(hi - lo) /\ lo + (m - lo) = m
      BY <1>2
    <2> QED
      BY <1>1, <2>1 DEF Numbers
  <1>3. ASSUME NEW i \in DOMAIN s, s[i] = m PROVE lo < m /\ m <= hi
    <2>1. m = lo + i /\ i \in 1..(hi - lo)
      BY <1>1, <1>3 DEF Numbers
    <2> QED
      BY <1>1, <2>1
  <1> QED
    BY <1>2, <1>3

-----------------------------------------------------------------------------
(* What becomes of the messages.                                              *)

\* Where nothing is taken from the answer the task goes on.
LEMMA ReadsOn ==
    ASSUME NEW pl, NEW ql, NEW b, NEW s, NEW p, NEW f, Reads(pl, b, s, p, f),
           \/ pl \in {"off", "top", "ask"} /\ ql \in {"off", "top", "ask"}
           \/ pl = "token" /\ ql = "publish"
           \/ pl = "process" /\ b = <<>> /\ ql = "top"
    PROVE  Reads(ql, b, s, p, f)
  <1>1. PICK a, z, h, e \in Nat : /\ Numbers(s, a, z) /\ Numbers(b, h, e)
                                  /\ Fits(pl, a, z, h, e, f) /\ Told(pl, p, a, z)
    BY DEF Reads
  <1>2. b = <<>> => h = e
    BY <1>1 DEF Numbers
  <1>3. Fits(ql, a, z, h, e, f)
    BY <1>1, <1>2 DEF Fits
  <1>4. Told(ql, p, a, z)
    BY <1>1 DEF Told
  <1> QED
    BY <1>1, <1>3, <1>4 DEF Reads

\* An answer: the messages after f up to u, the position f or u.
LEMMA Answered ==
    ASSUME NEW b, NEW s, NEW p, NEW f \in Nat, Reads("ask", b, s, p, f), NEW u \in Nat,
           f <= u, u <= f + BatchLen, NEW g \in {f, u},
           NEW c, c = [i \in 1..(u - f) |-> f + i]
    PROVE  Reads("process", c, s, p, g)
  <1>1. PICK a, z, h, e \in Nat : /\ Numbers(s, a, z) /\ Numbers(b, h, e)
                                  /\ Fits("ask", a, z, h, e, f) /\ Told("ask", p, a, z)
    BY DEF Reads
  <1>3. Numbers(c, f, u)
    <2>1. u - f \in Nat /\ \A i \in 1..(u - f) : f + i \in Nat
      OBVIOUS
    <2>2. c \in [1..(u - f) -> Nat] /\ \A i \in 1..(u - f) : c[i] = f + i
      BY <2>1
    <2>3. c \in Seq(Nat) /\ Len(c) = u - f
      BY <2>1, <2>2, SeqDef, LenProperties
    <2> QED
      BY <2>2, <2>3 DEF Numbers
  <1>4. h = e
    BY <1>1 DEF Fits
  <1>5. Fits("process", a, z, f, u, g)
    BY <1>1, <1>4, ChatAssumption DEF Fits
  <1>6. Told("process", p, a, z)
    BY <1>1 DEF Told
  <1> QED
    BY <1>1, <1>3, <1>5, <1>6 DEF Reads

\* A message that is remembered is passed over.
LEMMA PassedOver ==
    ASSUME NEW b, NEW s, NEW p, NEW f \in Nat, Reads("process", b, s, p, f), b # <<>>,
           \E i \in DOMAIN s : s[i] = Head(b)
    PROVE  Reads("process", Tail(b), s, p, f)
  <1>1. PICK a, z, h, e \in Nat : /\ Numbers(s, a, z) /\ Numbers(b, h, e)
                                  /\ Fits("process", a, z, h, e, f)
                                  /\ Told("process", p, a, z)
    BY DEF Reads
  <1>2. Head(b) = h + 1 /\ h < e /\ Numbers(Tail(b), h + 1, e) /\ h + 1 \in Nat
    BY <1>1, OneLess
  <1>3. a < h + 1 /\ h + 1 <= z
    BY <1>1, <1>2, IsAmong
  <1>4. Fits("process", a, z, h + 1, e, f)
    BY <1>1, <1>2, <1>3, ChatAssumption DEF Fits
  <1> QED
    BY <1>1, <1>2, <1>4 DEF Reads

\* A message that is new is remembered, the oldest one is forgotten.
LEMMA IsNew ==
    ASSUME AnswersFitSeen,
           NEW b, NEW s, NEW p, NEW f \in Nat, Reads("process", b, s, p, f), b # <<>>,
           ~(\E i \in DOMAIN s : s[i] = Head(b)), NEW ql \in {"token", "publish"}
    PROVE  Reads(ql, b, Append(IF Len(s) < SeenLen THEN s ELSE Tail(s), Head(b)), p, f)
  <1>1. PICK a, z, h, e \in Nat : /\ Numbers(s, a, z) /\ Numbers(b, h, e)
                                  /\ Fits("process", a, z, h, e, f)
                                  /\ Told("process", p, a, z)
    BY DEF Reads
  <1>2. Head(b) = h + 1 /\ h < e /\ h + 1 \in Nat
    BY <1>1, OneLess
  <1>3. a <= z /\ Len(s) = z - a
    BY <1>1 DEF Numbers
  <1>4. ~(a < h + 1 /\ h + 1 <= z)
    BY <1>1, <1>2, IsAmong
  <1>5. PICK r : r = Append(IF Len(s) < SeenLen THEN s ELSE Tail(s), Head(b))
    OBVIOUS
  <1>6. CASE a = z
    <2>1. Len(s) < SeenLen /\ s = <<>> /\ p = <<>>
      BY <1>1, <1>3, <1>6, ChatAssumption, EmptySeq DEF Numbers, Told
    <2>2. r = Append(<<>>, h + 1)
      BY <1>2, <1>5, <2>1
    <2>3. Numbers(r, h, h + 1)
      BY <2>2, NoNumbers, OneMore
    <2>4. Fits(ql, h, h + 1, h, e, f)
      BY <1>1, <1>2, <1>6, ChatAssumption DEF Fits
    <2>5. Told(ql, p, h, h + 1)
      BY <2>1 DEF Told
    <2> QED
      BY <1>1, <1>2, <1>5, <2>3, <2>4, <2>5 DEF Reads
  <1>7. CASE a < z
    <2>1. h = z /\ e <= f + BatchLen
      BY <1>1, <1>2, <1>4, <1>7 DEF Fits
    <2>2. Told(ql, p, a, z + 1) /\ Told(ql, p, a + 1, z + 1)
      <3>1. /\ p \in Seq(Nat) /\ \A i, j \in 1..Len(p) : i < j => p[i] < p[j]
            /\ \A i \in 1..Len(p) : p[i] <= z /\ p[i] \in Nat
        BY <1>1, ElementOfSeq DEF Told
      <3>2. \A i \in 1..Len(p) : p[i] <= z + 1 /\ p[i] < z + 1
        BY <3>1
      <3>3. a # z + 1 /\ a + 1 # z + 1
        BY <1>7
      <3> QED
        BY <3>1, <3>2, <3>3 DEF Told
    <2>3. CASE Len(s) < SeenLen
      <3>1. r = Append(s, z + 1)
        BY <1>2, <1>5, <2>1, <2>3
      <3>2. Numbers(r, a, z + 1) /\ z + 1 \in Nat
        <4>1. Numbers(Append(s, z + 1), a, z + 1)
          BY <1>1, OneMore
        <4> QED
          BY <3>1, <4>1
      <3>3. Fits(ql, a, z + 1, h, e, f)
        BY <1>1, <1>2, <1>7, <2>1, ChatAssumption DEF Fits, AnswersFitSeen
      <3> QED
        BY <1>1, <1>5, <2>2, <3>2, <3>3 DEF Reads
    <2>4. CASE ~(Len(s) < SeenLen)
      <3>1. r = Append(Tail(s), z + 1)
        BY <1>2, <1>5, <2>1, <2>4
      <3>2. s # <<>>
        BY <1>3, <1>7
      <3>3. Numbers(Tail(s), a + 1, z) /\ a + 1 \in Nat
        <4>1. Numbers(Tail(s), a + 1, z)
          BY <1>1, <3>2, OneLess
        <4> QED
          BY <4>1
      <3>4. Numbers(r, a + 1, z + 1) /\ z + 1 \in Nat
        BY <3>1, <3>3, OneMore
      <3>5. Fits(ql, a + 1, z + 1, h, e, f)
        BY <1>1, <1>2, <1>3, <1>7, <2>1, <2>4, ChatAssumption
           DEF Fits, AnswersFitSeen
      <3> QED
        BY <1>1, <1>5, <2>2, <3>3, <3>4, <3>5 DEF Reads
    <2> QED
      BY <2>3, <2>4
  <1> QED
    BY <1>3, <1>6, <1>7

\* A message is published, or the router has no room for it.
LEMMA IsPublished ==
    ASSUME NEW b, NEW s, NEW p, NEW f \in Nat, Reads("publish", b, s, p, f),
           NEW q \in {p, Append(p, Head(b))}
    PROVE  Reads("process", Tail(b), s, q, f)
  <1>1. PICK a, z, h, e \in Nat : /\ Numbers(s, a, z) /\ Numbers(b, h, e)
                                  /\ Fits("publish", a, z, h, e, f)
                                  /\ Told("publish", p, a, z)
    BY DEF Reads
  <1>2. h < e /\ a < z /\ z = h + 1
    BY <1>1 DEF Fits
  <1>3. b # <<>>
    BY <1>1, <1>2 DEF Numbers
  <1>4. Head(b) = z /\ Numbers(Tail(b), z, e)
    BY <1>1, <1>2, <1>3, OneLess
  <1>5. Fits("process", a, z, z, e, f)
    BY <1>1, <1>2, ChatAssumption DEF Fits
  <1>6. Told("process", q, a, z)
    <2>1. PICK n : n = Len(p)
      OBVIOUS
    <2>2. /\ p \in Seq(Nat) /\ n \in Nat /\ \A i, j \in 1..n : i < j => p[i] < p[j]
          /\ \A i \in 1..n : p[i] < z /\ p[i] <= z
      BY <1>1, <2>1, LenProperties DEF Told
    <2>3. CASE q = p
      BY <1>2, <2>1, <2>2, <2>3 DEF Told
    <2>4. CASE q = Append(p, z)
      <3>1. /\ q \in Seq(Nat) /\ Len(q) = n + 1 /\ q[n + 1] = z
            /\ \A i \in 1..n : q[i] = p[i]
        BY <1>1, <2>1, <2>2, <2>4, AppendProperties
      <3>2. \A i \in 1..(n + 1) : i \in 1..n \/ i = n + 1
        BY <2>2
      <3>3. \A i, j \in 1..(n + 1) : i < j => i \in 1..n
        BY <2>2
      <3>4. \A i \in 1..(n + 1) : q[i] <= z
        BY <2>2, <3>1, <3>2
      <3>5. \A i, j \in 1..(n + 1) : i < j => q[i] < q[j]
        BY <2>2, <3>1, <3>2, <3>3
      <3> QED
        BY <1>2, <3>1, <3>4, <3>5 DEF Told
    <2> QED
      BY <1>4, <2>3, <2>4
  <1> QED
    BY <1>1, <1>4, <1>5, <1>6 DEF Reads

-----------------------------------------------------------------------------
(* The steps of the gateway.                                                  *)

LEMMA PositionIs ==
    /\ G!From = Position(gw, confirmed)
    /\ ChatInv => G!From \in Nat /\ G!From <= arrived
  BY DEF G!From, Position, ChatInv, Polling, GwType

\* Limits and rows stay as they are.
LEMMA RowsKept ==
    ASSUME ChatInv, UNCHANGED <<stages, rows>>
    PROVE  /\ stages' = [c \in G!Chats |-> stages'[c]] /\ rows' = [c \in G!Chats |-> rows'[c]]
           /\ \A c \in G!Chats : Row(stages'[c], rows'[c])
  BY DEF ChatInv

\* A step that leaves the messages alone.
LEMMA MessagesKept ==
    ASSUME ChatInv, UNCHANGED <<at, batch, seen, published, arrived, confirmed, stages, rows>>,
           Polling(gw', at), gw'.sync = gw.sync
    PROVE  ChatInv'
  <1>1. Position(gw', confirmed') = Position(gw, confirmed)
    BY DEF Position
  <1> QED
    BY <1>1 DEF ChatInv

LEMMA TopKeeps ==
    ASSUME ChatInv, G!Top
    PROVE  ChatInv'
  <1>1. /\ at = "top" /\ at' \in {"off", "ask"}
        /\ UNCHANGED <<batch, seen, published, arrived, confirmed, stages, rows>>
        /\ Polling(gw, at) /\ Reading(at, batch, seen, published, Position(gw, confirmed))
    BY DEF G!Top, G!talks, ChatInv
  <1>2. gw \in GwType /\ gw.task /\ gw.alive
    BY <1>1 DEF Polling
  <1>3. Polling(gw', at') /\ gw'.sync = gw.sync
    <2>1. CASE at' = "off" /\ gw' = [gw EXCEPT !.task = FALSE]
      <3>1. gw' \in GwType /\ gw'.task = FALSE /\ gw'.alive = gw.alive /\ gw'.sync = gw.sync
        BY <1>2, <2>1 DEF GwType
      <3> QED
        BY <1>2, <2>1, <3>1 DEF Polling
    <2>2. CASE at' = "ask" /\ gw' = gw
      BY <1>1, <1>2, <2>2 DEF Polling
    <2> QED
      BY <2>1, <2>2 DEF G!Top
  <1>4. Reading(at', batch, seen, published, Position(gw, confirmed))
    BY <1>1, ReadsOn DEF Reading
  <1>5. Position(gw', confirmed') = Position(gw, confirmed)
    BY <1>1, <1>3 DEF Position
  <1> QED
    BY <1>1, <1>3, <1>4, <1>5 DEF ChatInv

LEMMA PolledKeeps ==
    ASSUME ChatInv, G!Polled
    PROVE  ChatInv'
  <1>1. PICK f, u : f = G!From /\ u = G!Upto
    OBVIOUS
  <1>2. /\ at = "ask" /\ at' = "process" /\ confirmed' = f
        /\ batch' = [i \in 1..(u - f) |-> f + i]
        /\ UNCHANGED <<seen, published, arrived, stages, rows>>
        /\ gw' = [gw EXCEPT !.sync = u] \/ gw' = gw
        /\ Polling(gw, at) /\ Reading(at, batch, seen, published, f)
    BY <1>1, PositionIs DEF G!Polled, G!Confirmed, G!talks, ChatInv
  <1>3. f \in Nat /\ f <= arrived /\ arrived \in Nat /\ f = Position(gw, confirmed)
        /\ gw.sync <= arrived
    BY <1>1, PositionIs DEF ChatInv
  <1>4. u \in Nat /\ f <= u /\ u <= f + BatchLen /\ u <= arrived
    <2>1. u = IF f + BatchLen < arrived THEN f + BatchLen ELSE arrived
      BY <1>1 DEF G!Upto
    <2> QED
      BY <1>3, <2>1, ChatAssumption
  <1>5. gw \in GwType /\ gw.task /\ gw.alive
    BY <1>2 DEF Polling
  <1>6. Polling(gw', at') /\ Position(gw', confirmed') \in {f, u} /\ gw'.sync <= arrived
    <2>1. CASE gw' = [gw EXCEPT !.sync = u]
      <3>1. gw' \in GwType /\ gw'.task = gw.task /\ gw'.alive = gw.alive /\ gw'.sync = u
        BY <1>4, <1>5, <2>1 DEF GwType
      <3> QED
        BY <1>2, <1>4, <1>5, <3>1 DEF Polling, Position
    <2>2. CASE gw' = gw
      BY <1>2, <1>3, <1>5, <2>2 DEF Polling, Position
    <2> QED
      BY <1>2, <2>1, <2>2
  <1>7. Reading("process", [i \in 1..(u - f) |-> f + i], seen, published,
                Position(gw', confirmed'))
    <2>1. PICK g : g = Position(gw', confirmed')
      OBVIOUS
    <2>2. g \in {f, u} /\ Reading("ask", batch, seen, published, f)
      BY <1>2, <1>6, <2>1
    <2>3. PICK c : c = [i \in 1..(u - f) |-> f + i]
      OBVIOUS
    <2>4. Reading("process", c, seen, published, g)
      BY <1>3, <1>4, <2>2, <2>3, Answered DEF Reading
    <2> QED
      BY <2>1, <2>3, <2>4
  <1> QED
    BY <1>2, <1>3, <1>6, <1>7, RowsKept DEF ChatInv

LEMMA PollFailsKeeps ==
    ASSUME ChatInv, G!PollFails
    PROVE  ChatInv'
  <1>1. /\ at = "ask" /\ at' = "top" /\ confirmed' \in {confirmed, G!From}
        /\ UNCHANGED <<gw, batch, seen, published, arrived, stages, rows>>
        /\ Polling(gw, at) /\ Reading(at, batch, seen, published, Position(gw, confirmed))
    BY DEF G!PollFails, G!talks, ChatInv
  <1>2. Position(gw', confirmed') = Position(gw, confirmed)
    BY <1>1 DEF Position, G!From
  <1>3. confirmed' \in Nat /\ confirmed' <= arrived
    BY <1>1, PositionIs DEF ChatInv
  <1>4. Reading(at', batch, seen, published, Position(gw, confirmed))
    BY <1>1, ReadsOn DEF Reading
  <1>5. Polling(gw', at')
    BY <1>1 DEF Polling
  <1> QED
    BY <1>1, <1>2, <1>3, <1>4, <1>5 DEF ChatInv

LEMMA ProcessKeeps ==
    ASSUME ChatInv, G!Process
    PROVE  ChatInv'
  <1>1. PICK m, f : m = Head(batch) /\ f = Position(gw, confirmed)
    OBVIOUS
  <1>2. /\ at = "process" /\ batch # <<>>
        /\ UNCHANGED <<gw, published, arrived, confirmed, stages, rows>>
        /\ Polling(gw, at) /\ Reading("process", batch, seen, published, f)
        /\ G!Remembered(m)
    BY <1>1 DEF G!Process, G!talks, ChatInv
  <1>3. f \in Nat
    BY <1>1, PositionIs
  <1>4. CASE /\ \E i \in DOMAIN seen : seen[i] = m
             /\ batch' = Tail(batch) /\ at' = at /\ seen' = seen
    <2>1. Reading("process", Tail(batch), seen, published, f)
      BY <1>1, <1>2, <1>3, <1>4, PassedOver DEF Reading
    <2> QED
      BY <1>1, <1>2, <1>4, <2>1 DEF ChatInv
  <1>5. CASE /\ ~(\E i \in DOMAIN seen : seen[i] = m)
             /\ batch' = batch /\ at' \in {"token", "publish"}
             /\ seen' = Append(IF Len(seen) < SeenLen THEN seen ELSE Tail(seen), m)
    <2>1. Reading(at', batch, seen', published, f)
      BY <1>1, <1>2, <1>3, <1>5, IsNew DEF Reading
    <2>2. Polling(gw', at')
      BY <1>2, <1>5 DEF Polling
    <2> QED
      BY <1>1, <1>2, <1>5, <2>1, <2>2 DEF ChatInv
  <1> QED
    BY <1>1, <1>2, <1>4, <1>5 DEF G!Process, G!Remembered, G!Seen

LEMMA TokenKeeps ==
    ASSUME ChatInv, G!Token \/ G!PollEnds
    PROVE  ChatInv'
  <1>1. /\ UNCHANGED <<gw, batch, seen, published, arrived, confirmed, stages, rows>>
        /\ Polling(gw, at) /\ Reading(at, batch, seen, published, Position(gw, confirmed))
        /\ \/ at = "token" /\ at' = "publish"
           \/ at = "process" /\ batch = <<>> /\ at' = "top"
    BY DEF G!Token, G!PollEnds, G!talks, ChatInv
  <1>2. Reading(at', batch, seen, published, Position(gw, confirmed))
    BY <1>1, ReadsOn DEF Reading
  <1>3. Polling(gw', at')
    BY <1>1 DEF Polling
  <1> QED
    BY <1>1, <1>2, <1>3 DEF ChatInv

LEMMA PublishKeeps ==
    ASSUME ChatInv, G!Publish
    PROVE  ChatInv'
  <1>1. PICK f : f = Position(gw, confirmed)
    OBVIOUS
  <1>2. /\ at = "publish" /\ at' = "process" /\ batch' = Tail(batch)
        /\ UNCHANGED <<gw, seen, arrived, confirmed, stages, rows>>
        /\ Polling(gw, at) /\ Reading("publish", batch, seen, published, f)
        /\ published' \in {published, Append(published, Head(batch))}
    BY <1>1 DEF G!Publish, G!talks, ChatInv
  <1>3. f \in Nat
    BY <1>1, PositionIs
  <1>4. Reading("process", Tail(batch), seen, published', f)
    BY <1>2, <1>3, IsPublished DEF Reading
  <1>5. Polling(gw', at')
    BY <1>2 DEF Polling
  <1> QED
    BY <1>1, <1>2, <1>4, <1>5 DEF ChatInv

LEMMA ArrivesKeeps ==
    ASSUME ChatInv, G!Arrives
    PROVE  ChatInv'
  <1>1. /\ arrived' = arrived + 1
        /\ UNCHANGED <<gw, at, batch, seen, published, confirmed, stages, rows>>
    BY DEF G!Arrives, G!talks
  <1>2. gw.sync \in Nat /\ arrived \in Nat
    BY DEF ChatInv, Polling, GwType
  <1>3. arrived' \in Nat /\ gw.sync <= arrived' /\ confirmed <= arrived'
    BY <1>1, <1>2 DEF ChatInv
  <1> QED
    BY <1>1, <1>3 DEF ChatInv

\* State that is allocated when there is none.
LEMMA Allocated ==
    ASSUME NEW g, NEW pl, Polling(g, pl)
    PROVE  LET n == IF g.alive THEN g ELSE G!Fresh
           IN  Polling(n, pl) /\ n.sync = g.sync /\ n.alive = TRUE /\ n.task = g.task
  <1>1. /\ G!Fresh \in GwType /\ G!Fresh.alive = TRUE /\ G!Fresh.task = FALSE
        /\ G!Fresh.sync = 0
    BY DEF G!Fresh, GwType
  <1>2. g \in GwType /\ g.alive \in BOOLEAN /\ g.task \in BOOLEAN
    BY DEF Polling, GwType
  <1>3. CASE g.alive
    BY <1>2, <1>3
  <1>4. CASE ~g.alive
    <2>1. g.task = FALSE /\ g.sync = 0
      BY <1>2, <1>4 DEF Polling
    <2> QED
      BY <1>1, <1>4, <2>1 DEF Polling
  <1> QED
    BY <1>3, <1>4

LEMMA ConfigureKeeps ==
    ASSUME ChatInv, G!Configure \/ G!Stop
    PROVE  ChatInv'
  <1>1. UNCHANGED <<at, batch, seen, published, arrived, confirmed, stages, rows>>
        /\ Polling(gw, at)
    BY DEF G!Configure, G!Stop, G!polls, G!talks, ChatInv
  <1>2. PICK n : n = IF gw.alive THEN gw ELSE G!Fresh
    OBVIOUS
  <1>3. Polling(n, at) /\ n.sync = gw.sync /\ n \in GwType
    BY <1>1, <1>2, Allocated DEF Polling
  <1>4. gw' = [n EXCEPT !.configured = TRUE] \/ gw' = [n EXCEPT !.stop = TRUE]
    BY <1>2 DEF G!Configure, G!Stop
  <1>5. /\ gw' \in GwType /\ gw'.alive = n.alive /\ gw'.task = n.task /\ gw'.sync = n.sync
    BY <1>3, <1>4 DEF GwType
  <1>6. Polling(gw', at)
    BY <1>3, <1>5 DEF Polling
  <1> QED
    BY <1>1, <1>3, <1>5, <1>6, MessagesKept

LEMMA StartKeeps ==
    ASSUME ChatInv, G!Start
    PROVE  ChatInv'
  <1>1. UNCHANGED <<batch, seen, published, arrived, confirmed, stages, rows>>
        /\ Polling(gw, at) /\ Reading(at, batch, seen, published, Position(gw, confirmed))
    BY DEF G!Start, G!talks, ChatInv
  <1>2. PICK n : n = IF gw.alive THEN gw ELSE G!Fresh
    OBVIOUS
  <1>3. Polling(n, at) /\ n.sync = gw.sync /\ n \in GwType /\ n.alive = TRUE
    BY <1>1, <1>2, Allocated DEF Polling
  <1>4. CASE gw.task
    BY <1>1, <1>4, MessagesKept DEF G!Start
  <1>5. CASE ~gw.task
    <2>1. at = "off" /\ at' = "top" /\ gw' = [[n EXCEPT !.stop = FALSE] EXCEPT !.task = TRUE]
      BY <1>1, <1>2, <1>3, <1>5 DEF G!Start, Polling
    <2>2. /\ gw' \in GwType /\ gw'.alive = n.alive /\ gw'.task = TRUE /\ gw'.sync = n.sync
      BY <1>3, <2>1 DEF GwType
    <2>3. Polling(gw', at')
      BY <1>3, <2>1, <2>2 DEF Polling
    <2>4. Reading(at', batch, seen, published, Position(gw, confirmed))
      BY <1>1, <2>1, ReadsOn DEF Reading
    <2>5. Position(gw', confirmed') = Position(gw, confirmed)
      BY <1>1, <1>3, <2>2 DEF Position
    <2> QED
      BY <1>1, <1>3, <2>2, <2>3, <2>4, <2>5 DEF ChatInv
  <1> QED
    BY <1>4, <1>5

LEMMA StoppedKeeps ==
    ASSUME ChatInv, G!Stopped
    PROVE  ChatInv'
  <1>1. UNCHANGED <<at, batch, arrived, confirmed>> /\ Polling(gw, at)
        /\ Reading(at, batch, seen, published, Position(gw, confirmed))
    BY DEF G!Stopped, ChatInv
  <1>2. CASE gw.task
    BY <1>1, <1>2, MessagesKept DEF G!Stopped, G!MayFree
  <1>3. CASE ~gw.task
    <2>1. /\ gw' = G!Freed /\ seen' = <<>> /\ published' = <<>>
          /\ stages' = [c \in G!Chats |-> 0] /\ rows' = [c \in G!Chats |-> G!NoRow]
      BY <1>3 DEF G!Stopped, G!MayFree
    <2>2. /\ gw' \in GwType /\ gw'.alive = FALSE /\ gw'.task = FALSE /\ gw'.sync = 0
      BY <2>1 DEF G!Freed, G!Fresh, GwType
    <2>3. at = "off"
      BY <1>1, <1>3 DEF Polling
    <2>4. Polling(gw', at')
      BY <1>1, <2>2, <2>3 DEF Polling
    <2>5. ASSUME AnswersFitSeen
          PROVE  Reads(at', batch', seen', published', Position(gw', confirmed'))
      <3>1. PICK h \in Nat, e \in Nat : Numbers(batch, h, e) /\ h = e
        BY <1>1, <2>3, <2>5 DEF Reading, Reads, Fits
      <3>2. Fits("off", h, h, h, e, Position(gw', confirmed')) /\ Told("off", <<>>, h, h)
        BY <3>1 DEF Fits, Told
      <3> QED
        BY <1>1, <2>1, <2>3, <3>1, <3>2, NoNumbers DEF Reads
    <2>6. Reading(at', batch', seen', published', Position(gw', confirmed'))
      BY <2>5 DEF Reading
    <2>7. \A c \in G!Chats : Row(stages'[c], rows'[c])
      BY <2>1, ChatAssumption DEF Row, G!NoRow
    <2> QED
      BY <1>1, <2>1, <2>2, <2>4, <2>6, <2>7 DEF ChatInv
  <1> QED
    BY <1>2, <1>3

LEMMA SendKeeps ==
    ASSUME ChatInv, NEW s \in ChatSenders, G!Send(s)
    PROVE  ChatInv'
  <1>1. UNCHANGED <<at, batch, seen, published, arrived, confirmed, stages, rows>>
        /\ Polling(gw, at) /\ gw' = IF gw.alive THEN gw ELSE G!Fresh
    BY DEF G!Send, G!polls, ChatInv
  <1>2. Polling(gw', at) /\ gw'.sync = gw.sync
    BY <1>1, Allocated
  <1> QED
    BY <1>1, <1>2, MessagesKept

\* The rows of stage messages: one that is counted, one that is not, a reply.
LEMMA RowGrows ==
    ASSUME NEW n, NEW row, Row(n, row), NEW k, k = G!Counted(n)
    PROVE  /\ k <= StageLimit => Row(k, [row EXCEPT !.stage = row.stage + 1])
           /\ k = StageLimit + 1 => Row(k, [row EXCEPT !.notice = row.notice + 1])
           /\ k > StageLimit + 1 => Row(k, row)
           /\ Row(n, [[row EXCEPT !.stage = row.stage + 1] EXCEPT !.missed = row.missed + 1])
           /\ Row(0, G!NoRow)
  <1>1. PICK a, b, c : a = row.stage /\ b = row.notice /\ c = row.missed
    OBVIOUS
  <1>2. /\ a \in Nat /\ b \in Nat /\ c \in Nat /\ n \in 0..CountMax
        /\ a <= n + c /\ a <= StageLimit + c /\ b <= 1 /\ (n <= StageLimit => b = 0)
        /\ row = [stage |-> a, notice |-> b, missed |-> c]
    BY <1>1 DEF Row
  <1>3. k = IF n < CountMax THEN n + 1 ELSE n
    BY DEF G!Counted
  <1>4. k \in 0..CountMax /\ (k <= StageLimit + 1 => k = n + 1) /\ a <= k + c
    BY <1>2, <1>3, ChatAssumption
  <1>5. ASSUME k <= StageLimit PROVE Row(k, [row EXCEPT !.stage = row.stage + 1])
    <2>1. [row EXCEPT !.stage = row.stage + 1] = [stage |-> a + 1, notice |-> b, missed |-> c]
      BY <1>2
    <2>2. a + 1 \in Nat /\ a + 1 <= k + c /\ a + 1 <= StageLimit + c /\ b = 0
      BY <1>2, <1>4, <1>5, ChatAssumption
    <2> QED
      BY <1>2, <1>4, <2>1, <2>2 DEF Row
  <1>6. ASSUME k = StageLimit + 1 PROVE Row(k, [row EXCEPT !.notice = row.notice + 1])
    <2>1. [row EXCEPT !.notice = row.notice + 1] = [stage |-> a, notice |-> b + 1, missed |-> c]
      BY <1>2
    <2>2. b = 0 /\ ~(k <= StageLimit) /\ b + 1 = 1
      BY <1>2, <1>4, <1>6, ChatAssumption
    <2> QED
      BY <1>2, <1>4, <2>1, <2>2 DEF Row
  <1>7. ASSUME k > StageLimit + 1 PROVE Row(k, row)
    BY <1>2, <1>4, <1>7, ChatAssumption DEF Row
  <1>8. Row(n, [[row EXCEPT !.stage = row.stage + 1] EXCEPT !.missed = row.missed + 1])
    <2>1. [[row EXCEPT !.stage = row.stage + 1] EXCEPT !.missed = row.missed + 1]
              = [stage |-> a + 1, notice |-> b, missed |-> c + 1]
      <3>1. PICK r : r = [row EXCEPT !.stage = row.stage + 1]
        OBVIOUS
      <3>2. r = [stage |-> a + 1, notice |-> b, missed |-> c]
        BY <1>2, <3>1
      <3>3. row.missed + 1 = c + 1
        BY <1>1
      <3>4. [r EXCEPT !.missed = c + 1] = [stage |-> a + 1, notice |-> b, missed |-> c + 1]
        BY <3>2
      <3> QED
        BY <3>1, <3>3, <3>4
    <2>2. /\ a + 1 \in Nat /\ c + 1 \in Nat /\ a + 1 <= n + (c + 1)
          /\ a + 1 <= StageLimit + (c + 1)
      BY <1>2, ChatAssumption
    <2> QED
      BY <1>2, <2>1, <2>2 DEF Row
  <1>9. Row(0, G!NoRow)
    BY ChatAssumption DEF Row, G!NoRow
  <1> QED
    BY <1>5, <1>6, <1>7, <1>8, <1>9

LEMMA DecideKeeps ==
    ASSUME ChatInv, NEW s \in ChatSenders, G!Decide(s)
    PROVE  ChatInv'
  <1>1. UNCHANGED <<at, batch, seen, published, arrived, confirmed>>
        /\ Polling(gw, at) /\ gw' = IF gw.alive THEN gw ELSE G!Fresh
    BY DEF G!Decide, G!polls, ChatInv
  <1>2. Polling(gw', at) /\ gw'.sync = gw.sync
    BY <1>1, Allocated
  <1>3. PICK chat \in G!Chats : G!Stage(s, chat) \/ G!StageUncounted(s, chat) \/ G!Reply(s, chat)
    BY DEF G!Decide
  <1>4. /\ stages = [c \in G!Chats |-> stages[c]] /\ rows = [c \in G!Chats |-> rows[c]]
        /\ \A c \in G!Chats : Row(stages[c], rows[c])
    BY DEF ChatInv
  <1>5. PICK n, row, k : n = stages[chat] /\ row = rows[chat] /\ k = G!Counted(n)
    OBVIOUS
  <1>6. /\ k <= StageLimit => Row(k, [row EXCEPT !.stage = row.stage + 1])
        /\ k = StageLimit + 1 => Row(k, [row EXCEPT !.notice = row.notice + 1])
        /\ k > StageLimit + 1 => Row(k, row)
        /\ Row(n, [[row EXCEPT !.stage = row.stage + 1] EXCEPT !.missed = row.missed + 1])
        /\ Row(0, G!NoRow)
    BY <1>4, <1>5, RowGrows
  <1>7. PICK m, r : Row(m, r) /\ stages' = [stages EXCEPT ![chat] = m]
                    /\ rows' = [rows EXCEPT ![chat] = r]
    <2>1. CASE G!Stage(s, chat)
      <3>1. stages' = [stages EXCEPT ![chat] = k]
        BY <1>5, <2>1 DEF G!Stage
      <3>2. CASE k <= StageLimit /\ rows' = [rows EXCEPT ![chat].stage = @ + 1]
        <4>1. rows' = [rows EXCEPT ![chat] = [row EXCEPT !.stage = row.stage + 1]]
          BY <1>5, <3>2
        <4> QED
          BY <1>6, <3>1, <3>2, <4>1
      <3>3. CASE k = StageLimit + 1 /\ rows' = [rows EXCEPT ![chat].notice = @ + 1]
        <4>1. rows' = [rows EXCEPT ![chat] = [row EXCEPT !.notice = row.notice + 1]]
          BY <1>5, <3>3
        <4> QED
          BY <1>6, <3>1, <3>3, <4>1
      <3>4. CASE k > StageLimit + 1 /\ rows' = rows
        <4>1. rows' = [rows EXCEPT ![chat] = row]
          BY <1>4, <1>5, <3>4
        <4> QED
          BY <1>6, <3>1, <3>4, <4>1
      <3> QED
        BY <1>5, <2>1, <3>2, <3>3, <3>4 DEF G!Stage
    <2>2. CASE G!StageUncounted(s, chat)
      <3>1. stages' = [stages EXCEPT ![chat] = n]
        BY <1>4, <1>5, <2>2 DEF G!StageUncounted
      <3>2. rows' = [rows EXCEPT ![chat] = [[row EXCEPT !.stage = row.stage + 1]
                                               EXCEPT !.missed = row.missed + 1]]
        BY <1>4, <1>5, <2>2 DEF G!StageUncounted
      <3> QED
        BY <1>6, <3>1, <3>2
    <2>3. CASE G!Reply(s, chat)
      BY <1>6, <2>3 DEF G!Reply
    <2> QED
      BY <1>3, <2>1, <2>2, <2>3
  <1>8. /\ stages' = [c \in G!Chats |-> stages'[c]] /\ rows' = [c \in G!Chats |-> rows'[c]]
        /\ \A c \in G!Chats : Row(stages'[c], rows'[c])
    BY <1>4, <1>7
  <1>9. Position(gw', confirmed') = Position(gw, confirmed)
    BY <1>1, <1>2 DEF Position
  <1> QED
    BY <1>1, <1>2, <1>8, <1>9 DEF ChatInv

LEMMA ChatStarts ==
    ASSUME G!Init
    PROVE  ChatInv
  <1>1. /\ gw \in GwType /\ gw.alive = TRUE /\ gw.task = TRUE /\ gw.sync = 0 /\ at = "top"
    BY DEF G!Init, G!Fresh, GwType
  <1>2. Polling(gw, at)
    BY <1>1 DEF Polling
  <1>3. /\ batch = <<>> /\ seen = <<>> /\ published = <<>> /\ confirmed = 0 /\ arrived = 0
        /\ stages = [c \in G!Chats |-> 0] /\ rows = [c \in G!Chats |-> G!NoRow]
    BY DEF G!Init
  <1>4. Fits("top", 0, 0, 0, 0, 0) /\ Told("top", <<>>, 0, 0)
    BY DEF Fits, Told
  <1>5. Reading(at, batch, seen, published, 0)
    BY <1>1, <1>3, <1>4, NoNumbers DEF Reading, Reads
  <1>6. Position(gw, confirmed) = 0
    BY <1>1, <1>3 DEF Position
  <1>7. \A c \in G!Chats : Row(stages[c], rows[c])
    BY <1>3, ChatAssumption DEF Row, G!NoRow
  <1> QED
    BY <1>1, <1>2, <1>3, <1>5, <1>6, <1>7 DEF ChatInv

LEMMA ChatStep ==
    ASSUME ChatInv, G!Next
    PROVE  ChatInv'
  <1>1. CASE G!Polls
    BY <1>1, TopKeeps, PolledKeeps, PollFailsKeeps, ProcessKeeps, TokenKeeps, PublishKeeps
       DEF G!Polls
  <1>2. CASE G!Console
    BY <1>2, ConfigureKeeps, StartKeeps, StoppedKeeps DEF G!Console
  <1>3. ASSUME NEW s \in ChatSenders, G!Decide(s) \/ G!Send(s) PROVE ChatInv'
    BY <1>3, DecideKeeps, SendKeeps
  <1> QED
    BY <1>1, <1>2, <1>3, ArrivesKeeps DEF G!Next

\* WechatGateway: whatever arrives, is lost, ordered and sent, the state is not freed under
\* its task and a row of stage messages keeps its limit; and while the gateway lives each
\* message is published once and in order, as far as the ring of ids holds an answer.
THEOREM ChatsAreKept == G!GatewaySpec =>
    [](G!PollerHasState /\ G!StageRowsBounded /\ (AnswersFitSeen => G!PublishedInOrder))
  <1>1. G!Init => ChatInv
    BY ChatStarts
  <1>2. ChatInv /\ [G!Next]_(G!gvars) => ChatInv'
    <2> SUFFICES ASSUME ChatInv, [G!Next]_(G!gvars) PROVE ChatInv'
      OBVIOUS
    <2>1. CASE G!Next
      BY <2>1, ChatStep
    <2>2. CASE UNCHANGED G!gvars
      BY <2>2 DEF G!gvars, G!polls, G!talks, ChatInv
    <2> QED
      BY <2>1, <2>2
  <1>3. ChatInv => G!PollerHasState /\ G!StageRowsBounded
                     /\ (AnswersFitSeen => G!PublishedInOrder)
    <2> SUFFICES ASSUME ChatInv
                 PROVE  G!PollerHasState /\ G!StageRowsBounded
                            /\ (AnswersFitSeen => G!PublishedInOrder)
      OBVIOUS
    <2>1. ASSUME AnswersFitSeen PROVE G!PublishedInOrder
      <3>1. PICK a, z \in Nat : Told(at, published, a, z)
        BY <2>1 DEF ChatInv, Reading, Reads
      <3>2. DOMAIN published = 1..Len(published)
        BY <3>1 DEF Told
      <3> QED
        BY <3>1, <3>2 DEF Told, G!PublishedInOrder
    <2>2. G!PollerHasState
      BY DEF ChatInv, Polling, G!PollerHasState
    <2>3. G!StageRowsBounded
      BY DEF ChatInv, Row, G!StageRowsBounded
    <2> QED
      BY <2>1, <2>2, <2>3
  <1> QED
    BY <1>1, <1>2, <1>3, PTL DEF G!GatewaySpec

-----------------------------------------------------------------------------
(* The instances together: a behaviour of MCServices is one of one of them,   *)
(* while the others stay at their beginning.                                  *)

LEMMA RouterRuns == ServicesSafe => Spec
  <1>1. ServicesInit => Init
    BY DEF ServicesInit
  <1>2. [ServicesNext]_servicesVars => [Next]_vars
    BY DEF ServicesNext, servicesVars
  <1> QED
    BY <1>1, <1>2, PTL DEF ServicesSafe, Spec

LEMMA AppsRun == ServicesSafe => L!AppSpec
  <1>1. ServicesInit => L!Init
    BY DEF ServicesInit
  <1>2. [ServicesNext]_servicesVars => [L!Next]_(L!hvars)
    BY DEF ServicesNext, servicesVars, appVars, L!hvars, L!http
  <1> QED
    BY <1>1, <1>2, PTL DEF ServicesSafe, L!AppSpec

LEMMA PoolRuns == ServicesSafe => H!PoolSpec
  <1>1. ServicesInit => H!Init
    BY DEF ServicesInit
  <1>2. [ServicesNext]_servicesVars => [H!Next]_(H!poolVars)
    BY DEF ServicesNext, servicesVars, httpVars, H!poolVars
  <1> QED
    BY <1>1, <1>2, PTL DEF ServicesSafe, H!PoolSpec

LEMMA GatewayRuns == ServicesSafe => G!GatewaySpec
  <1>1. ServicesInit => G!Init
    BY DEF ServicesInit
  <1>2. [ServicesNext]_servicesVars => [G!Next]_(G!gvars)
    BY DEF ServicesNext, servicesVars, chatVars, G!gvars, G!polls, G!talks
  <1> QED
    BY <1>1, <1>2, PTL DEF ServicesSafe, G!GatewaySpec

\* EventRouter: the router task drops no event that no cancel addressed, in the instance
\* with the others too.
THEOREM SkippedOnlyWhenAddressed == ServicesSafe => []SkippedOnlyIfCancelled
  BY RouterRuns, SkipsAreAddressed, PTL

\* LuaHttpServer and HttpReuse: requests to scripts and requests over pooled clients are
\* in order, for any number of scripts, tasks, requests, servers and clients.
THEOREM HttpStaysInOrder == ServicesSafe => []HttpInOrder
  <1>1. (L!OneApp /\ L!RequestsInOrder) /\ (H!ClientsInOrder /\ H!SentAgainOnce) => HttpInOrder
    BY DEF HttpInOrder
  <1> QED
    BY <1>1, AppsRun, PoolRuns, AppsAreKept, ClientsAreKept, PTL

\* WechatGateway: messages are published once and in order, the poll task has its state
\* and a row of stage messages its limit, for any traffic, senders and limits, as far as
\* the ring of ids holds an answer.
THEOREM ChatsStayInOrder ==
    /\ ServicesSafe => [](G!PollerHasState /\ G!StageRowsBounded)
    /\ AnswersFitSeen => (ServicesSafe => []ChatsInOrder)
  <1>1. G!PublishedInOrder /\ G!PollerHasState /\ G!StageRowsBounded => ChatsInOrder
    BY DEF ChatsInOrder
  <1>2. CASE AnswersFitSeen
    BY <1>1, <1>2, GatewayRuns, ChatsAreKept, PTL
  <1>3. CASE ~AnswersFitSeen
    BY <1>3, GatewayRuns, ChatsAreKept, PTL
  <1> QED
    BY <1>2, <1>3
=============================================================================
