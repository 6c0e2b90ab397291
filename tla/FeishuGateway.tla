---------------------------- MODULE FeishuGateway ----------------------------
(* The Feishu gateway (cap_im_feishu.c): a task keeps a websocket to Feishu   *)
(* open, the websocket's own thread handles each event and acknowledges it,   *)
(* an attachment task downloads what messages carry, and the operator         *)
(* disables and enables the group.  Feishu pushes an event again when it does *)
(* not hear that it arrived.                                                  *)
(*                                                                            *)
(* The parsing of frames, messages and rich texts, pings, and the settings    *)
(* Feishu sends with the address are left out.                                *)
EXTENDS Naturals, Sequences, FiniteSets

LOCAL INSTANCE Functions

CONSTANTS
    Traffic,      \* what users send, in order: "text", "file", "post" (text with two
                  \* pictures) or "files" (text with two files of one name)
    QueueLen,     \* places for attachments (8 in the code)
    RingLen,      \* messages the duplicate cache remembers (64 in the code)
    MaxOrders, MaxFaults

VARIABLES
    pushed, acked,              \* Feishu: messages pushed, and those it knows arrived
    ws, live, up,               \* the ws task, its client runs, it is connected
    jobs, queue,                \* attachment_queue and whether it exists
    loader, attached,           \* the attachment task, attachment_task is set
    ring, slot,                 \* seen_message_keys, seen_message_idx
    stop, on, oper, orders,     \* stop_requested, the group's state, the call, bound
    faults,                     \* bound
    texts, files, disk,         \* published texts and attachments; what is saved where
    tried,                      \* history: attachments that had their turn
    late                        \* a stop timed out

cloud  == <<pushed, acked>>
socket == <<ws, live, up>>
loads  == <<jobs, queue, loader, attached>>
memory == <<ring, slot>>
order  == <<stop, on, oper, orders>>
told   == <<texts, files, disk, tried>>
fvars  == <<cloud, socket, loads, memory, order, faults, told, late>>

Fault   == faults < MaxFaults /\ faults' = faults + 1
NoJob   == [message |-> 0, key |-> 0]
Waiting == [pc |-> "receive", job |-> NoJob]
Gone    == [pc |-> "gone", job |-> NoJob]
-----------------------------------------------------------------------------
(* The websocket's thread: cap_im_feishu_ws_event_handler.                    *)

\* WEBSOCKET_EVENT_CONNECTED; the client connects again by itself.
Connects ==
    /\ live /\ ~up /\ up' = TRUE
    /\ UNCHANGED <<cloud, ws, live, loads, memory, order, faults, told, late>>

\* WEBSOCKET_EVENT_DISCONNECTED
Disconnects ==
    /\ up /\ Fault /\ up' = FALSE
    /\ UNCHANGED <<cloud, ws, live, loads, memory, order, told, late>>

\* cap_im_feishu_dedup_check_and_record
Seen(m)   == \E i \in DOMAIN ring : ring[i] = m
Record(m) == ring' = [ring EXCEPT ![slot] = m] /\ slot' = (slot + 1) % RingLen

\* What a message carries besides its text, by key.
Keys(m) == CASE Traffic[m] \in {"post", "files"} -> 1..2 [] Traffic[m] = "file" -> {1}
             [] OTHER -> {}

\* cap_im_feishu_queue_attachment, for each: what finds no place is dropped.
Queued(m) ==
    LET room == IF queue THEN QueueLen - Len(jobs) ELSE 0
        new  == [key \in Keys(m) |-> [message |-> m, key |-> key]]
    IN  jobs' = jobs \o SubSeq(new, 1, IF Len(new) < room THEN Len(new) ELSE room)

Said(m, out) == texts' = IF Traffic[m] # "file" /\ out THEN Append(texts, m) ELSE texts

\* cap_im_feishu_handle_message_event: the message is remembered before anything
\* of it is published, and the pictures of a rich text are queued before its text.
Handle(m, out) == Record(m) /\ Queued(m) /\ Said(m, out)

\* cap_im_feishu_handle_ws_frame: an event is acknowledged whatever came of it.
\* Publishing may fail, and so may telling Feishu.
HandleFrame(m) ==
    /\ \E out, heard \in BOOLEAN :
          /\ IF out /\ heard THEN UNCHANGED faults ELSE Fault
          /\ IF Seen(m) THEN UNCHANGED <<memory, jobs, texts>> ELSE Handle(m, out)
          /\ acked' = IF heard THEN acked \union {m} ELSE acked
    /\ UNCHANGED <<socket, queue, loader, attached, order, files, disk, tried, late>>

Pushes == up /\ pushed < Len(Traffic) /\ pushed' = pushed + 1 /\ HandleFrame(pushed + 1)

\* What Feishu does not know arrived comes again, if it is of late.
PushesAgain ==
    /\ up /\ UNCHANGED pushed
    /\ \E m \in 1..pushed \ acked : pushed - m < RingLen /\ HandleFrame(m)

Thread == Connects \/ Pushes \/ PushesAgain
-----------------------------------------------------------------------------
(* cap_im_feishu_ws_task                                                      *)

\* The address is fetched, a client made and started; or one of these fails.
Opens ==
    /\ ws = "config"
    /\ \/ ws' = "run" /\ live' = TRUE /\ UNCHANGED faults
       \/ ws' = (IF stop THEN "off" ELSE "rest") /\ Fault /\ UNCHANGED live
    /\ UNCHANGED <<cloud, up, loads, memory, order, told, late>>

\* The first connection, or the next one, takes too long.
GivesUp ==
    /\ ws = "run" /\ ~up /\ Fault /\ ws' = "close"
    /\ UNCHANGED <<cloud, live, up, loads, memory, order, told, late>>

Notices ==
    /\ ws = "run" /\ stop /\ ws' = "close"
    /\ UNCHANGED <<cloud, live, up, loads, memory, order, faults, told, late>>

Closes ==
    /\ ws = "close" /\ live' = FALSE /\ up' = FALSE
    /\ ws' = IF stop THEN "off" ELSE "rest"
    /\ UNCHANGED <<cloud, loads, memory, order, faults, told, late>>

\* The delay has passed, or the task begins.
Turns ==
    /\ ws = "rest" /\ ws' = IF stop THEN "off" ELSE "config"
    /\ UNCHANGED <<cloud, live, up, loads, memory, order, faults, told, late>>

Socket == Opens \/ Notices \/ Closes \/ Turns
-----------------------------------------------------------------------------
(* cap_im_feishu_attachment_task                                              *)

Receive ==
    /\ loader.pc = "receive" /\ jobs # <<>>
    /\ loader' = [pc |-> "save", job |-> Head(jobs)] /\ jobs' = Tail(jobs)
    /\ UNCHANGED <<cloud, socket, queue, attached, memory, order, faults, told, late>>

\* cap_im_feishu_build_attachment_path: a file is named after its message and the name it
\* came with, or "file"; a picture's name is made of its key.
FileName(m, key) == IF Traffic[m] = "files" THEN 1 ELSE key

\* cap_im_feishu_save_attachment_metadata: the data is named after the message.
Name(job, loaded) == IF loaded THEN FileName(job.message, job.key) ELSE 0

\* cap_im_feishu_save_attachment: what cannot be downloaded is published with the data it
\* came with.  A file that was opened for writing and then failed is removed.
Save ==
    /\ loader.pc = "save" /\ loader' = Waiting
    /\ \E loaded, saved, out \in BOOLEAN :
       \E opened \in SUBSET {Name(loader.job, TRUE), Name(loader.job, FALSE)} :
          LET file == [message |-> loader.job.message, name |-> Name(loader.job, loaded),
                       holds |-> loader.job.key]
          IN  /\ loaded => saved /\ opened = {file.name}
              /\ saved => file.name \in opened
              /\ out => saved
              /\ IF loaded /\ out THEN UNCHANGED faults ELSE Fault
              /\ disk' = {f \in disk : f.message # file.message \/ f.name \notin opened}
                            \union (IF saved THEN {file} ELSE {})
              /\ files' = IF out THEN Append(files, file) ELSE files
    /\ tried' = tried \union {loader.job}
    /\ UNCHANGED <<cloud, socket, jobs, queue, attached, memory, order, texts, late>>

\* It looks at stop_requested only when the queue is empty.
Leave ==
    /\ loader.pc = "receive" /\ jobs = <<>> /\ stop /\ loader' = [Waiting EXCEPT !.pc = "leave"]
    /\ UNCHANGED <<cloud, socket, jobs, queue, attached, memory, order, faults, told, late>>

Ends ==
    /\ loader.pc = "leave" /\ loader' = Gone /\ attached' = FALSE
    /\ UNCHANGED <<cloud, socket, jobs, queue, memory, order, faults, told, late>>

Load == Receive \/ Save \/ Leave \/ Ends
-----------------------------------------------------------------------------
(* The operator, through claw_cap_disable_group and claw_cap_enable_group.    *)

Begin == oper = "idle" /\ orders < MaxOrders /\ orders' = orders + 1

TasksGone == ws = "off" /\ ~attached

\* cap_im_feishu_stop up to its wait; stopping the client ends its thread.
Disable ==
    /\ Begin /\ on /\ on' = FALSE
    /\ IF TasksGone THEN UNCHANGED <<stop, oper, live, up>>
       ELSE stop' = TRUE /\ oper' = "stopping" /\ live' = FALSE /\ up' = FALSE
    /\ UNCHANGED <<cloud, ws, loads, memory, faults, told, late>>

Stopped ==
    /\ oper = "stopping" /\ TasksGone /\ oper' = "idle"
    /\ jobs' = <<>> /\ queue' = FALSE
    /\ UNCHANGED <<cloud, socket, loader, attached, memory, stop, on, orders, faults, told, late>>

\* Five seconds have passed: fetching the address may take 15, a download 30.
StopTimesOut ==
    /\ oper = "stopping" /\ (ws \in {"config", "close"} \/ loader.pc = "save")
    /\ oper' = "idle" /\ late' = TRUE
    /\ UNCHANGED <<cloud, socket, loads, memory, stop, on, orders, faults, told>>

\* cap_im_feishu_start.  Nothing is started while ws_task is set.
EnableRunning ==
    /\ Begin /\ ~on /\ ws # "off" /\ on' = TRUE
    /\ UNCHANGED <<cloud, socket, loads, memory, stop, oper, faults, told, late>>

\* An attachment task whose handle is set is taken for one that goes on.
Attach ==
    /\ queue' = TRUE /\ attached' = TRUE
    /\ loader' = IF attached THEN loader ELSE Waiting

Enable ==
    /\ Begin /\ ~on /\ ws = "off" /\ Attach
    /\ on' = TRUE /\ stop' = FALSE /\ ws' = "rest"
    /\ UNCHANGED <<cloud, live, up, jobs, memory, oper, faults, told, late>>

\* A task cannot be created: all is taken down again.
EnableFails ==
    /\ Begin /\ ~on /\ ws = "off" /\ Fault
    /\ \/ ~attached /\ UNCHANGED stop
       \/ stop' = FALSE
    /\ loader' = Gone /\ attached' = FALSE /\ jobs' = <<>> /\ queue' = FALSE
    /\ UNCHANGED <<cloud, socket, memory, on, oper, told, late>>

Operate == Disable \/ EnableRunning \/ Enable \/ EnableFails
Wait    == Stopped \/ StopTimesOut
-----------------------------------------------------------------------------
Init ==
    /\ pushed = 0 /\ acked = {}
    /\ ws = "rest" /\ live = FALSE /\ up = FALSE
    /\ jobs = <<>> /\ queue = TRUE /\ loader = Waiting /\ attached = TRUE
    /\ ring = [i \in 0..(RingLen - 1) |-> 0] /\ slot = 0
    /\ stop = FALSE /\ on = TRUE /\ oper = "idle" /\ orders = 0 /\ faults = 0
    /\ texts = <<>> /\ files = <<>> /\ disk = {} /\ tried = {} /\ late = FALSE

Next == Thread \/ Disconnects \/ GivesUp \/ Socket \/ Load \/ Operate \/ Wait

\* Both tasks run, requests are answered or time out, a connection comes about
\* unless it fails, calls come to their deadline.
FairSpec ==
    /\ Init /\ [][Next]_fvars
    /\ WF_fvars(Connects) /\ WF_fvars(Socket) /\ WF_fvars(Load) /\ WF_fvars(Wait)

-----------------------------------------------------------------------------
TypeOK ==
    /\ pushed \in 0..Len(Traffic) /\ acked \subseteq 1..pushed
    /\ ws \in {"off", "rest", "config", "run", "close"} /\ (up => live)
    /\ {live, up, queue, attached, stop, on, late} \subseteq BOOLEAN
    /\ Len(jobs) <= QueueLen /\ oper \in {"idle", "stopping"}
    /\ loader.pc \in {"receive", "save", "leave", "gone"}
    /\ attached = (loader # Gone)

\* What Feishu pushes again because it did not hear of it, over this connection or
\* the next, before or after the gateway was disabled and enabled, is published
\* once: its text, and its attachment.
PublishedOnce ==
    /\ \A i, j \in DOMAIN texts : texts[i] = texts[j] => i = j
    /\ \A i, j \in DOMAIN files :
          files[i].message = files[j].message /\ files[i].holds = files[j].holds => i = j

\* A saved attachment stays what it was published as, until another of its message that
\* has the same name, or was not downloaded either, has had its turn.
FilesStay ==
    \A i \in DOMAIN files :
        \/ files[i] \in disk
        \/ \E key \in Keys(files[i].message) \ {files[i].holds} :
              /\ files[i].name \in {0, FileName(files[i].message, key)}
              /\ [message |-> files[i].message, key |-> key] \in tried

\* A file that was downloaded stays what it was published as.
DownloadsStay == \A i \in DOMAIN files : files[i].name = 0 \/ files[i] \in disk

\* The queue of attachments is never deleted under the task that receives from it.
QueueOutlivesTask == loader.pc \in {"receive", "save"} => queue

\* The gateway gets its connection or is switched off, although connections fail.
GetsConnected == (ws = "rest" /\ ~stop) ~> (up \/ stop \/ ws = "off")
\* An attachment that was queued is worked off, or the gateway is switched off,
\* unless a stop timed out.
JobsAreServed == (jobs # <<>>) ~> (jobs = <<>> \/ late)
\* Stops return.
CallsEnd == (oper # "idle") ~> (oper = "idle")
WaitsEnd == GetsConnected /\ JobsAreServed /\ CallsEnd

\* Attachments are worked off after a stop that timed out, too.
JobsAreAlwaysServed == (jobs # <<>>) ~> (jobs = <<>>)

\* A start that succeeded means that the task that connects goes on.
StartMeansConnection == on /\ oper = "idle" => ws # "off" /\ ~stop

\* What Feishu was told arrived is published or about to be.
NothingForgotten ==
    \A m \in acked :
        /\ Traffic[m] # "file" => \E i \in DOMAIN texts : texts[i] = m
        /\ \A key \in Keys(m) :
              \/ \E i \in DOMAIN files : files[i].message = m /\ files[i].holds = key
              \/ [message |-> m, key |-> key] \in {loader.job} \union Range(jobs)
=============================================================================
