----------------------------- MODULE EventRouter -----------------------------
(***************************************************************************)
(* The event router, components/claw_modules/claw_event_router/src/        *)
(* claw_event_router.c: publishers on any task, a bounded event queue, the *)
(* pending table through which a queued event can be cancelled, and the    *)
(* router task that runs the matching rules under the router's recursive   *)
(* mutex.  A rule may itself publish (emit_event), from that very task.    *)
(*                                                                         *)
(* An event is one call of claw_event_router_publish, made once.  Its      *)
(* event_id is "msg-<ms>" or "evt-<ms>", so events of one millisecond may  *)
(* share it.                                                               *)
(***************************************************************************)
EXTENDS Naturals, Sequences, FiniteSets, SequencesExt

CONSTANTS
    Events,       \* the publish calls of a run
    Ids,          \* the event_id strings
    IdOf,         \* the event_id of each event
    Publishers,   \* the tasks that publish; emit_event actions are not among them
    Published,    \* the events those tasks publish
    SelfSourced,  \* the events whose source_cap is "claw_event_router"
    Rules,        \* per event, the rules it matches; a rule is its action sequence
    QueueLen,     \* event_queue_len
    TableSize,    \* CLAW_EVENT_ROUTER_PENDING_TABLE_SIZE
    NoEvent

\* An action is an emit_event of an event, or any other one (emit = NoEvent).
Action == [emit : Events \cup {NoEvent}, fail_open : BOOLEAN]

ASSUME ConstantsOK ==
    /\ IdOf \in [Events -> Ids]
    /\ Published \subseteq Events /\ SelfSourced \subseteq Events
    /\ Rules \in [Events -> Seq(Seq(Action))]
    /\ NoEvent \notin Events
    /\ QueueLen \in Nat \ {0} /\ TableSize \in Nat \ {0}
    /\ QueueLen <= TableSize          \* claw_event_router_init refuses others

VARIABLES
    queue,      \* event_queue
    pending,    \* the pending table: per slot used, cancelled and event_id
    publisher,  \* per publisher: the event it publishes and how far it is
    pc,         \* where the router task is
    cur,        \* the event it took from the queue
    left,       \* the rules it still has to run for cur, the current one first
    mutex,      \* the recursive mutex is held across calls by the router task
    fate,       \* history: what became of each event
    addressed,  \* history: events pending while a cancel or purge marked their id
    displaced   \* history: events that had no slot to themselves while pending

taskVars == <<pc, cur, left, mutex>>
vars     == <<queue, pending, publisher, taskVars, fate, addressed, displaced>>

Slots    == 1 .. TableSize
Slot     == [used : BOOLEAN, cancelled : BOOLEAN, id : Ids \cup {NoEvent}]
FreeSlot == [used |-> FALSE, cancelled |-> FALSE, id |-> NoEvent]
Fates    == {"new", "tracked", "queued", "taken", "processed", "skipped", "rejected"}
TaskPcs  == {"idle", "taken", "process", "rules", "emit", "agent"}

Idle == [event |-> NoEvent, at |-> "idle"]

Init ==
    /\ queue = <<>>
    /\ pending = [s \in Slots |-> FreeSlot]
    /\ publisher = [p \in Publishers |-> Idle]
    /\ pc = "idle" /\ cur = NoEvent /\ left = <<>> /\ mutex = FALSE
    /\ fate = [e \in Events |-> "new"]
    /\ addressed = {} /\ displaced = {}
-----------------------------------------------------------------------------
(* The pending table. *)

SlotsOf(id) == {s \in Slots : pending[s].used /\ pending[s].id = id}

Lowest(S) == CHOOSE s \in S : \A t \in S : s <= t

AllocFirst == 1                          \* mutant: another's slot although one is free

\* pending_alloc_slot_locked: a free slot, else the first one not cancelled,
\* else the first one.
AllocSlot ==
    LET free == {s \in Slots : ~pending[s].used}
        live == {s \in Slots : ~pending[s].cancelled}
    IN  IF free # {} THEN Lowest(free) ELSE IF live # {} THEN Lowest(live) ELSE 1

SlotFor(id) == IF SlotsOf(id) # {} THEN Lowest(SlotsOf(id)) ELSE AllocSlot

\* mutant: a slot found for the id keeps its cancelled flag
TrackKeepsFlag(e) ==
    pending' = [pending EXCEPT ![SlotFor(IdOf[e])] =
                  [used |-> TRUE, id |-> IdOf[e],
                   cancelled |-> SlotsOf(IdOf[e]) # {} /\ @.cancelled]]

\* pending_track: the id's own slot if it has one, else an allocated one, which
\* may evict another event; either way the slot starts uncancelled.
Track(e) ==
    pending' = [pending EXCEPT ![SlotFor(IdOf[e])] =
                  [used |-> TRUE, cancelled |-> FALSE, id |-> IdOf[e]]]

\* mutant: the first used slot is freed, whatever its id
TakesFirst(e) ==
    pending' = [s \in Slots |-> IF pending[s].used /\ \A t \in Slots : pending[t].used => s <= t
                               THEN FreeSlot ELSE pending[s]]

\* pending_take_for_event_id frees the id's slot ...
Take(e) == pending' = [s \in Slots |-> IF s \in SlotsOf(IdOf[e]) THEN FreeSlot
                                       ELSE pending[s]]

\* ... and returns its cancelled flag.
WasCancelled(e) == \E s \in SlotsOf(IdOf[e]) : pending[s].cancelled

IsPending(e) == fate[e] \in {"tracked", "queued", "taken"}

PendingWith(id) == {f \in Events : IsPending(f) /\ IdOf[f] = id}

\* Tracking e takes their slot from the pending events of its id, with whom it shares
\* one from now on, and from those of the id it evicts.
Displaces(e) ==
    LET twins == PendingWith(IdOf[e])
        slot  == pending[SlotFor(IdOf[e])]
    IN  displaced' = displaced \cup twins \cup (IF twins = {} THEN {} ELSE {e})
                     \cup (IF slot.used THEN PendingWith(slot.id) ELSE {})

(* The queue. *)

HasRoom == Len(queue) < QueueLen

NeverTimesOut == FALSE                   \* mutant: xQueueSend with portMAX_DELAY
TimesOut == Len(queue) = QueueLen

AtFront(e) == <<e>> \o queue             \* mutant: xQueueSendToFront
AtBack(e) == Append(queue, e)
-----------------------------------------------------------------------------
(* Publishers: claw_event_router_publish. *)

\* pending_track, which waits for the mutex ...
PublishTrack(p, e) ==
    /\ publisher[p] = Idle /\ e \in Published /\ fate[e] = "new"
    /\ ~mutex
    /\ Track(e) /\ Displaces(e)
    /\ publisher' = [publisher EXCEPT ![p] = [event |-> e, at |-> "send"]]
    /\ fate' = [fate EXCEPT ![e] = "tracked"]
    /\ UNCHANGED <<queue, taskVars, addressed>>

\* ... then xQueueSend without it ...
PublishSend(p) ==
    /\ publisher[p].at = "send"
    /\ HasRoom
    /\ queue' = AtBack(publisher[p].event)
    /\ publisher' = [publisher EXCEPT ![p] = Idle]
    /\ fate' = [fate EXCEPT ![publisher[p].event] = "queued"]
    /\ UNCHANGED <<pending, taskVars, addressed, displaced>>

\* ... which gives up after a second of a full queue ...
PublishTimeout(p) ==
    /\ publisher[p].at = "send"
    /\ TimesOut
    /\ publisher' = [publisher EXCEPT ![p].at = "untrack"]
    /\ UNCHANGED <<queue, pending, taskVars, fate, addressed, displaced>>

\* ... and takes the event back out of the table.
PublishUntrack(p) ==
    /\ publisher[p].at = "untrack"
    /\ ~mutex
    /\ Take(publisher[p].event)
    /\ publisher' = [publisher EXCEPT ![p] = Idle]
    /\ fate' = [fate EXCEPT ![publisher[p].event] = "rejected"]
    /\ UNCHANGED <<queue, taskVars, addressed, displaced>>
-----------------------------------------------------------------------------
(* Cancelling: both mark slots under the mutex. *)

Mark(S) ==
    /\ pending' = [s \in Slots |-> [pending[s] EXCEPT !.cancelled = @ \/ s \in S]]
    /\ addressed' = addressed \cup
         {e \in Events : IsPending(e) /\ \E s \in S : pending[s].id = IdOf[e]}
    /\ UNCHANGED <<queue, publisher, taskVars, fate, displaced>>

\* claw_event_router_cancel_event, when it finds an uncancelled slot.
CancelEvent(id) ==
    /\ ~mutex
    /\ \E s \in SlotsOf(id) : ~pending[s].cancelled
    /\ Mark(SlotsOf(id))

\* claw_event_router_purge_queue; F stands for the ids its filters match.
PurgeQueue(F) ==
    /\ ~mutex
    /\ LET matching == {s \in Slots : pending[s].used /\ ~pending[s].cancelled
                                      /\ pending[s].id \in F}
       IN  matching # {} /\ Mark(matching)
-----------------------------------------------------------------------------
(* The router task. *)

Receive ==
    /\ pc = "idle" /\ queue # <<>>
    /\ cur' = Head(queue) /\ queue' = Tail(queue)
    /\ pc' = "taken"
    /\ fate' = [fate EXCEPT ![Head(queue)] = "taken"]
    /\ UNCHANGED <<pending, publisher, left, mutex, addressed, displaced>>

\* The pending slot is taken; a cancelled event is dropped unprocessed.
CheckCancelled ==
    /\ pc = "taken"
    /\ Take(cur)
    /\ IF WasCancelled(cur)
       THEN /\ fate' = [fate EXCEPT ![cur] = "skipped"]
            /\ pc' = "idle" /\ cur' = NoEvent
       ELSE /\ fate' = [fate EXCEPT ![cur] = "processed"]
            /\ pc' = "process" /\ UNCHANGED cur
    /\ UNCHANGED <<queue, publisher, left, mutex, addressed, displaced>>

\* claw_event_router_process_event up to the rule loop: an event the router
\* made itself is dropped, one without a rule may go to the agent without the
\* mutex, the others run their rules with it.
ProcessEvent ==
    /\ pc = "process"
    /\ IF cur \in SelfSourced
       THEN pc' = "idle" /\ cur' = NoEvent /\ UNCHANGED <<left, mutex>>
       ELSE IF Rules[cur] = <<>>
       THEN pc' = "agent" /\ UNCHANGED <<cur, left, mutex>>
       ELSE pc' = "rules" /\ left' = Rules[cur] /\ mutex' = TRUE /\ UNCHANGED cur
    /\ UNCHANGED <<queue, pending, publisher, fate, addressed, displaced>>

\* run_default_agent: claw_core_submit, which may time out.
DefaultAgent ==
    /\ pc = "agent"
    /\ pc' = "idle" /\ cur' = NoEvent
    /\ UNCHANGED <<queue, pending, publisher, left, mutex, fate, addressed, displaced>>

\* What the rule loop does after an action: go on with the rule, or, after a
\* failure that is not fail_open or the last action, with the next rule.
AfterAction(ok) ==
    LET rule == Head(left)
    IN  left' = IF Len(rule) > 1 /\ (ok \/ Head(rule).fail_open)
                THEN <<Tail(rule)>> \o Tail(left) ELSE Tail(left)

\* A capability, script, message, agent or drop action, ending well or not.
RunAction ==
    /\ pc = "rules" /\ left # <<>>
    /\ Head(left) = <<>> \/ Head(Head(left)).emit = NoEvent
    /\ IF Head(left) = <<>> THEN left' = Tail(left)
       ELSE \E ok \in BOOLEAN : AfterAction(ok)
    /\ UNCHANGED <<queue, pending, publisher, pc, cur, mutex, fate, addressed, displaced>>

\* emit_event publishes from the router task, which holds the mutex: it tracks ...
EmitTrack ==
    /\ pc = "rules" /\ left # <<>> /\ Head(left) # <<>>
    /\ LET e == Head(Head(left)).emit IN
         /\ e # NoEvent /\ fate[e] = "new"
         /\ Track(e) /\ Displaces(e)
         /\ fate' = [fate EXCEPT ![e] = "tracked"]
    /\ pc' = "emit"
    /\ UNCHANGED <<queue, publisher, cur, left, mutex, addressed>>

\* ... sends ...
EmitSend ==
    /\ pc = "emit"
    /\ HasRoom
    /\ queue' = AtBack(Head(Head(left)).emit)
    /\ fate' = [fate EXCEPT ![Head(Head(left)).emit] = "queued"]
    /\ AfterAction(TRUE)
    /\ pc' = "rules"
    /\ UNCHANGED <<pending, publisher, cur, mutex, addressed, displaced>>

\* ... or waits in vain for room in the queue that only it drains.
EmitTimeout ==
    /\ pc = "emit"
    /\ TimesOut
    /\ Take(Head(Head(left)).emit)
    /\ fate' = [fate EXCEPT ![Head(Head(left)).emit] = "rejected"]
    /\ AfterAction(FALSE)
    /\ pc' = "rules"
    /\ UNCHANGED <<queue, publisher, cur, mutex, addressed, displaced>>

GiveMutex == mutex' = FALSE

\* The end of the rule loop stores last_result and gives the mutex.
FinishRules ==
    /\ pc = "rules" /\ left = <<>>
    /\ GiveMutex
    /\ pc' = "idle" /\ cur' = NoEvent
    /\ UNCHANGED <<queue, pending, publisher, left, fate, addressed, displaced>>

RouterTask == \/ Receive \/ CheckCancelled \/ ProcessEvent \/ DefaultAgent
              \/ RunAction \/ EmitTrack \/ EmitSend \/ EmitTimeout \/ FinishRules

Publish(p) == PublishSend(p) \/ PublishTimeout(p) \/ PublishUntrack(p)

Next == \/ RouterTask
        \/ \E p \in Publishers : Publish(p) \/ \E e \in Events : PublishTrack(p, e)
        \/ \E id \in Ids : CancelEvent(id)
        \/ \E F \in SUBSET Ids : PurgeQueue(F)

Spec == Init /\ [][Next]_vars

(* The router task runs whenever it is ready.  A publisher that is in the    *)
(* middle of claw_event_router_publish goes on; its send is retried by       *)
(* FreeRTOS whenever there is room, and its untrack waits for a mutex the    *)
(* router task gives between events.                                         *)
FairSpec ==
    /\ Spec
    /\ WF_vars(RouterTask)
    /\ \A p \in Publishers : SF_vars(Publish(p))
-----------------------------------------------------------------------------
(* Properties. *)

TypeOK ==
    /\ queue \in Seq(Events) /\ Len(queue) <= QueueLen
    /\ pending \in [Slots -> Slot]
    /\ publisher \in [Publishers -> [event : Events \cup {NoEvent},
                                     at : {"idle", "send", "untrack"}]]
    /\ pc \in TaskPcs /\ cur \in Events \cup {NoEvent}
    /\ left \in Seq(Seq(Action)) /\ mutex \in BOOLEAN
    /\ fate \in [Events -> Fates]
    /\ addressed \subseteq Events /\ displaced \subseteq Events

\* The router task never drops an event that no cancel or purge addressed,
\* although it finds its verdict by event_id in a table that ids may share and
\* from which slots are evicted.
SkippedOnlyIfCancelled == \A e \in Events : fate[e] = "skipped" => e \in addressed

\* The table holds no slot of an event that is gone: a leftover cancelled slot
\* would drop the next event with its id.
NoStaleSlot ==
    \A s \in Slots : pending[s].used =>
        \E e \in Events : IsPending(e) /\ IdOf[e] = pending[s].id

\* claw_event_router_cancel_event "cancels (skips) one pending event": what a
\* successful cancel or purge addressed is never processed.
CancelledNeverProcessed == \A e \in addressed : fate[e] # "processed"

\* claw_event_router_cancel_event answers ESP_ERR_NOT_FOUND only for an event
\* that is not pending: every event in the queue has its slot.
PendingIsCancellable == \A i \in DOMAIN queue : SlotsOf(IdOf[queue[i]]) # {}

\* Neither holds of every event.  They hold of one whose id no other pending event has
\* had and whose slot was not evicted: the loss of one does not spread to others.
OwnNeverProcessed == \A e \in addressed \ displaced : fate[e] # "processed"
OwnIsCancellable ==
    \A i \in DOMAIN queue : queue[i] \notin displaced => SlotsOf(IdOf[queue[i]]) # {}

\* Every publish call returns and every queued event is taken, although a rule
\* may publish into a full queue from the only task that drains it.
EveryPublishSettles ==
    \A e \in Events : IsPending(e) ~> fate[e] \in {"processed", "skipped", "rejected"}

\* No task waits for the router's mutex forever.
MutexIsGivenBack == mutex ~> ~mutex

\* The router keeps moving: publish calls settle and the mutex is given back.
RouterMoves == EveryPublishSettles /\ MutexIsGivenBack
-----------------------------------------------------------------------------
(* The router as a CancelableQueue. *)

Outcome(e) == CASE fate[e] \in {"processed", "skipped"} -> fate[e]
                [] fate[e] = "rejected" -> "withdrawn"
                [] OTHER -> "none"

Announced == {e \in Events : fate[e] = "tracked"}
Waiting   == (IF pc = "taken" THEN <<cur>> ELSE <<>>) \o queue
Marked    == {e \in addressed : IsPending(e)}

AbstractQueue == INSTANCE CancelableQueue WITH
    Capacity <- QueueLen, Room <- TableSize, announced <- Announced, waiting <- Waiting,
    marked <- Marked, lost <- displaced, outcome <- [e \in Events |-> Outcome(e)]

\* Queue and table together are the queue the documentation describes, for all events
\* but those that share an id while they are pending, or are evicted from a table in
\* which as many ids are pending as it has slots.
ImplementsCancelableQueue == AbstractQueue!Spec
=============================================================================
