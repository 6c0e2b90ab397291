--------------------------- MODULE TelegramGateway ---------------------------
(* The Telegram gateway (cap_im_tg.c): a task polls getUpdates, publishes     *)
(* texts to the event router and hands attachments to a second task, while    *)
(* the operator disables and enables the group and the power may fail.        *)
(* Telegram keeps the updates it was not asked to forget: a poll with an      *)
(* offset confirms everything before it.                                      *)
EXTENDS Naturals, Sequences, FiniteSets

CONSTANTS
    Traffic,      \* what users send, in order: "text", "photo", or "other" for an
                  \* update without a message, like an edited one
    QueueLen,     \* places for attachments (8 in the code)
    RingLen,      \* updates the duplicate cache remembers (64 in the code)
    BatchLen,     \* updates in one answer: RingLen at most, or a repeated answer
                  \* is not recognised (Telegram sends up to 100)
    MaxOrders, MaxFaults, MaxCuts

Updates == 1..Len(Traffic)
Workers == 1..2         \* attachment tasks that may live at a time

VARIABLES
    sent, confirmed,    \* updates sent so far, updates Telegram has forgotten
    offset, ring, slot, \* next_update_id, seen_update_keys, seen_update_idx
    poll, asked, batch, \* the poll task: where it is, its request, its updates
    alive, hand,        \* attachment tasks and the update each has in hand, or 0
    attached,           \* attachment_task is set
    jobs, queue,        \* the attachment queue, and whether it exists
    stop, on, oper,     \* stop_requested, the group's state, the operator's call
    orders, faults, cuts,
    texts, saved,       \* times a text or an attachment_saved was published
    handled, overrun    \* updates looked at; a start met a live attachment task

server  == <<sent, confirmed>>
memory  == <<offset, ring, slot>>
poller  == <<poll, asked, batch>>
loader  == <<alive, hand, attached, jobs, queue>>
order   == <<stop, on, oper, orders>>
told    == <<texts, saved, handled>>
gvars   == <<server, memory, poller, loader, order, told, faults, cuts, overrun>>

Fault == faults < MaxFaults /\ faults' = faults + 1
Greater(a, b) == IF a > b THEN a ELSE b
Smaller(a, b) == IF a < b THEN a ELSE b
-----------------------------------------------------------------------------
(* Telegram and its users.                                                    *)

UserSends ==
    /\ sent < Len(Traffic) /\ sent' = sent + 1
    /\ UNCHANGED <<confirmed, memory, poller, loader, order, told, faults, cuts, overrun>>

\* mutant: the update after the one that was handled is confirmed with it.
AfterNext(u) == u + 2

\* cap_im_tg_handle_update: the offset that confirms update u.
After(u) == u + 1

-----------------------------------------------------------------------------
(* cap_im_tg_poll_task.                                                       *)

Ask ==
    /\ poll = "loop" /\ ~stop
    /\ poll' = "asked" /\ asked' = offset
    /\ UNCHANGED <<server, memory, batch, loader, order, told, faults, cuts, overrun>>

\* What Telegram has forgotten once it has seen the request.
Upto == IF asked > confirmed + 1 THEN asked - 1 ELSE confirmed

\* Request and answer get through; an empty answer is a long poll that ended.  In
\* a replay the offset counts for nothing and the last updates come again.
Answer ==
    /\ poll = "asked"
    /\ \/ confirmed' = Upto /\ UNCHANGED faults
       \/ Upto # confirmed /\ Fault /\ UNCHANGED confirmed
    /\ batch' = [i \in 1..Smaller(BatchLen, sent - confirmed') |-> confirmed' + i]
    /\ poll' = IF batch' = <<>> THEN "loop" ELSE "handle"
    /\ UNCHANGED <<sent, memory, asked, loader, order, told, cuts, overrun>>

\* Request or answer is lost; the task waits and polls again.
NoAnswer ==
    /\ poll = "asked" /\ Fault /\ poll' = "loop" /\ confirmed' \in {confirmed, Upto}
    /\ UNCHANGED <<sent, memory, asked, batch, loader, order, told, cuts, overrun>>

\* cap_im_tg_dedup_check_and_record
Seen(u)   == \E i \in DOMAIN ring : ring[i] = u
Record(u) == ring' = [ring EXCEPT ![slot] = u] /\ slot' = (slot + 1) % RingLen

\* A photo is queued, or dropped when the queue is full.
QueueAttachment(u) ==
    /\ jobs' = IF queue /\ Len(jobs) < QueueLen THEN Append(jobs, u) ELSE jobs
    /\ UNCHANGED <<texts, faults>>

\* A text is published, or dropped when the router does not take it.
PublishText(u) ==
    /\ \/ texts' = [texts EXCEPT ![u] = @ + 1] /\ UNCHANGED faults
       \/ Fault /\ UNCHANGED texts
    /\ UNCHANGED jobs

\* cap_im_tg_handle_update: the offset moves first, whatever comes of a message;
\* an update without one leaves it and comes again until a message follows.
HandleUpdate ==
    /\ poll = "handle"
    /\ LET u == Head(batch)
       IN  /\ offset' = IF Traffic[u] = "other" THEN offset ELSE Greater(offset, After(u))
           /\ IF Seen(u) \/ Traffic[u] = "other"
              THEN UNCHANGED <<ring, slot, texts, jobs, faults>>
              ELSE /\ Record(u)
                   /\ IF Traffic[u] = "photo" THEN QueueAttachment(u) ELSE PublishText(u)
           /\ handled' = handled \cup {u}
    /\ batch' = Tail(batch) /\ poll' = IF Tail(batch) = <<>> THEN "loop" ELSE "handle"
    /\ UNCHANGED <<server, asked, alive, hand, attached, queue, order, saved, cuts, overrun>>

PollEnds ==
    /\ poll = "loop" /\ stop /\ poll' = "off"
    /\ UNCHANGED <<server, memory, asked, batch, loader, order, told, faults, cuts, overrun>>

-----------------------------------------------------------------------------
(* cap_im_tg_attachment_task                                                  *)

Receive(k) ==
    /\ k \in alive /\ hand[k] = 0 /\ jobs # <<>>
    /\ hand' = [hand EXCEPT ![k] = Head(jobs)] /\ jobs' = Tail(jobs)
    /\ UNCHANGED <<server, memory, poller, alive, attached, queue, order, told, faults, cuts,
                   overrun>>

\* cap_im_tg_save_attachment: the file and its event, or neither reaches anybody.
Save(k) ==
    /\ k \in alive /\ hand[k] # 0 /\ hand' = [hand EXCEPT ![k] = 0]
    /\ \/ saved' = [saved EXCEPT ![hand[k]] = @ + 1] /\ UNCHANGED faults
       \/ Fault /\ UNCHANGED saved
    /\ UNCHANGED <<server, memory, poller, alive, attached, jobs, queue, order, texts, handled,
                   cuts, overrun>>

\* It looks at stop_requested only when the queue is empty.
AttachmentEnds(k) ==
    /\ k \in alive /\ hand[k] = 0 /\ jobs = <<>> /\ stop
    /\ alive' = alive \ {k} /\ attached' = FALSE
    /\ UNCHANGED <<server, memory, poller, hand, jobs, queue, order, told, faults, cuts, overrun>>

-----------------------------------------------------------------------------
(* The operator, through claw_cap_disable_group and claw_cap_enable_group.    *)

Begin == oper = "idle" /\ orders < MaxOrders /\ orders' = orders + 1

\* cap_im_tg_gateway_stop; the group is disabled first and a failure only logged.
Disable ==
    /\ Begin /\ on /\ on' = FALSE
    /\ IF poll = "off" THEN UNCHANGED <<stop, oper>>
       ELSE stop' = TRUE /\ oper' = "stopping"
    /\ UNCHANGED <<server, memory, poller, loader, told, faults, cuts, overrun>>

\* cap_im_tg_gateway_stop: both tasks have cleared their handles.
TasksGone == poll = "off" /\ ~attached

Stopped ==
    /\ oper = "stopping" /\ TasksGone /\ oper' = "idle"
    /\ jobs' = <<>> /\ queue' = FALSE
    /\ UNCHANGED <<server, memory, poller, alive, hand, attached, stop, on, orders, told, faults,
                   cuts, overrun>>

\* Five seconds have passed; a long poll takes up to 25, a download has no limit.
StopTimesOut ==
    /\ oper = "stopping" /\ (poll # "off" \/ attached) /\ oper' = "idle"
    /\ UNCHANGED <<server, memory, poller, loader, stop, on, orders, told, faults, cuts, overrun>>

\* cap_im_tg_gateway_start.  Nothing is started while poll_task is set.
EnablePolling ==
    /\ Begin /\ ~on /\ poll # "off" /\ on' = TRUE
    /\ UNCHANGED <<server, memory, poller, loader, stop, oper, told, faults, cuts, overrun>>

Enable ==
    /\ Begin /\ ~on /\ poll = "off" /\ on' = TRUE
    /\ stop' = FALSE /\ queue' = TRUE /\ poll' = "loop"
    /\ \E k \in Workers \ alive : alive' = alive \cup {k}
    /\ attached' = TRUE /\ overrun' = (overrun \/ alive # {})
    /\ UNCHANGED <<server, memory, asked, batch, hand, jobs, oper, told, faults, cuts>>

\* The attachment task cannot be created.
EnableFails ==
    /\ Begin /\ ~on /\ poll = "off" /\ Fault
    /\ stop' = FALSE /\ queue' = FALSE /\ jobs' = <<>> /\ attached' = FALSE
    /\ overrun' = (overrun \/ alive # {})
    /\ UNCHANGED <<server, memory, poller, alive, hand, on, oper, told, cuts>>

\* The poll task cannot be created: the attachment task is stopped again.
EnableHalf ==
    /\ Begin /\ ~on /\ poll = "off" /\ Fault
    /\ stop' = TRUE /\ queue' = TRUE /\ oper' = "undoing"
    /\ \E k \in Workers \ alive : alive' = alive \cup {k}
    /\ attached' = TRUE /\ overrun' = (overrun \/ alive # {})
    /\ UNCHANGED <<server, memory, poller, hand, jobs, on, told, cuts>>

Undone ==
    /\ oper = "undoing" /\ ~attached /\ oper' = "idle"
    /\ queue' = FALSE /\ jobs' = <<>>
    /\ UNCHANGED <<server, memory, poller, alive, hand, attached, stop, on, orders, told, faults,
                   cuts, overrun>>

-----------------------------------------------------------------------------
EmptyRing == [i \in 0..(RingLen - 1) |-> 0]

\* Nothing of it is kept over a power cut; the gateway starts with the device.
PowerCut ==
    /\ cuts < MaxCuts /\ cuts' = cuts + 1
    /\ offset' = 0 /\ ring' = EmptyRing /\ slot' = 0
    /\ poll' = "loop" /\ asked' = 0 /\ batch' = <<>>
    /\ alive' = {1} /\ hand' = [k \in Workers |-> 0] /\ attached' = TRUE
    /\ jobs' = <<>> /\ queue' = TRUE /\ stop' = FALSE /\ on' = TRUE /\ oper' = "idle"
    /\ overrun' = FALSE
    /\ UNCHANGED <<server, orders, told, faults>>

Init ==
    /\ sent = 0 /\ confirmed = 0 /\ orders = 0 /\ faults = 0 /\ cuts = 0
    /\ texts = [u \in Updates |-> 0] /\ saved = [u \in Updates |-> 0] /\ handled = {}
    /\ offset = 0 /\ ring = EmptyRing /\ slot = 0
    /\ poll = "loop" /\ asked = 0 /\ batch = <<>>
    /\ alive = {1} /\ hand = [k \in Workers |-> 0] /\ attached = TRUE
    /\ jobs = <<>> /\ queue = TRUE /\ stop = FALSE /\ on = TRUE /\ oper = "idle"
    /\ overrun = FALSE

Poll    == Ask \/ Answer \/ NoAnswer \/ HandleUpdate \/ PollEnds
Load(k) == Receive(k) \/ Save(k) \/ AttachmentEnds(k)
Operate == Disable \/ EnablePolling \/ Enable \/ EnableFails \/ EnableHalf
Wait    == Stopped \/ StopTimesOut \/ Undone

Next ==
    \/ UserSends \/ Poll \/ (\E k \in Workers : Load(k))
    \/ Operate \/ Wait \/ PowerCut

\* Polls are answered or time out, the tasks run, calls come to their deadline.
FairSpec ==
    /\ Init /\ [][Next]_gvars
    /\ WF_gvars(Poll) /\ \A k \in Workers : WF_gvars(Load(k))
    /\ WF_gvars(Wait)

-----------------------------------------------------------------------------
TypeOK ==
    /\ sent \in 0..Len(Traffic) /\ confirmed \in 0..sent
    /\ offset \in 0..(Len(Traffic) + 1) /\ ring \in [0..(RingLen - 1) -> 0..Len(Traffic)]
    /\ poll \in {"off", "loop", "asked", "handle"} /\ batch \in Seq(Updates)
    /\ alive \subseteq Workers /\ hand \in [Workers -> 0..Len(Traffic)]
    /\ Len(jobs) <= QueueLen /\ oper \in {"idle", "stopping", "undoing"}

\* "Network jitter can replay updates" (cap-im-platform.mdx): over repeated
\* answers, lost ones and restarts of the gateway, an update is published once
\* at most for each time the device was switched on.
HandledOnce == \A u \in Updates : texts[u] <= 1 + cuts /\ saved[u] <= 1 + cuts

\* Telegram forgets an update only after the device has looked at it, although
\* offset and answers cross, get lost and the offset starts over with the device.
ForgottenWasHandled == 1..confirmed \subseteq handled

\* A stop that succeeds deletes the queue under no attachment task, unless a
\* start met one that an earlier stop had given up.
QueueOutlivesTasks == alive # {} /\ ~overrun => queue

\* The same without exception: the second task is left with a deleted queue.
NoTaskWithoutQueue == alive # {} => queue

\* A start that answered ESP_OK leaves a gateway that polls; it does not when it
\* met the poll task that an earlier stop had given up.
StartMeansPolling == on /\ oper = "idle" => poll # "off" /\ ~stop

\* What is sent is looked at while the gateway runs, and stops and starts return.
MessagesArrive ==
    \A u \in Updates : (sent >= u) ~> (u \in handled \/ stop \/ poll = "off")
CallsEnd == (oper # "idle") ~> (oper = "idle")
WaitsEnd == MessagesArrive /\ CallsEnd
=============================================================================
