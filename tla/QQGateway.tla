------------------------------ MODULE QQGateway ------------------------------
(* The QQ gateway (cap_im_qq.c): a task keeps a websocket to QQ open and      *)
(* greets it, the websocket's own thread queues what arrives, and an inbound  *)
(* task handles the queue, downloads included, while the operator disables    *)
(* and enables the group.  QQ pushes messages once it knows the bot, sends    *)
(* again what it is not sure of, and may ask for a new connection.            *)
EXTENDS Naturals, Sequences, FiniteSets

CONSTANTS
    Traffic,      \* what users send, in order: "text" or "photo"
    QueueLen,     \* places for frames (8 in the code)
    RingLen,      \* messages the duplicate cache remembers (64 in the code)
    MaxOrders, MaxFaults

Messages == 1..Len(Traffic)
Workers  == 1..2        \* inbound tasks that may live at a time

VARIABLES
    pushed, ready, greeted, up, \* QQ: messages pushed, the bot is known, HELLO is
                                \* out, the connection is up
    ws, client, conns,          \* the ws task, ws_client (0: none), connections made
    connected, identify, reconnect, stop,       \* the flags of these names
    frames, queue,              \* the inbound queue and whether it exists
    inbound, attached,          \* what each inbound task does; inbound_task is set
    ring, slot,                 \* seen_msg_keys, seen_msg_idx
    on, oper, orders, faults,   \* the group's state, the operator's call, bounds
    published, deaf, overrun    \* messages published; a HELLO was dropped; a start
                                \* met a live inbound task

qq     == <<pushed, ready, greeted, up>>
socket == <<ws, client, conns>>
flags  == <<connected, identify, reconnect>>
loader == <<frames, queue, inbound, attached>>
memory == <<ring, slot>>
order  == <<stop, on, oper, orders>>
qvars  == <<qq, socket, flags, loader, memory, order, faults, published, deaf, overrun>>

Fault == faults < MaxFaults /\ faults' = faults + 1
Idle  == [pc |-> "receive", frame |-> 0]
Gone  == [pc |-> "gone", frame |-> 0]
Alive == {k \in Workers : inbound[k] # Gone}

\* A frame: what it asks for, its message, and the connection it came over.
Frame(op, m) == [op |-> op, message |-> m, of |-> client]
-----------------------------------------------------------------------------
(* The websocket's thread: cap_im_qq_ws_event_handler and what QQ does.       *)

\* WEBSOCKET_EVENT_CONNECTED
Connects ==
    /\ client # 0 /\ ~up /\ ~greeted /\ up' = TRUE
    /\ connected' = TRUE /\ reconnect' = FALSE
    /\ UNCHANGED <<pushed, ready, greeted, socket, identify, loader, memory, order, faults,
                   published, deaf, overrun>>

\* WEBSOCKET_EVENT_DISCONNECTED, also of a connection that never came about.
Disconnects ==
    /\ client # 0 /\ (up \/ ~greeted) /\ Fault
    /\ up' = FALSE /\ ready' = FALSE /\ greeted' = TRUE
    /\ connected' = FALSE /\ identify' = FALSE /\ reconnect' = TRUE
    /\ UNCHANGED <<pushed, socket, loader, memory, order, published, deaf, overrun>>

\* cap_im_qq_handle_inbound_ws_data: what finds no place is dropped.
Arrives(frame) ==
    /\ frames' = IF queue /\ Len(frames) < QueueLen THEN Append(frames, frame) ELSE frames
    /\ deaf'   = (deaf \/ (frame.op = "hello" /\ frames' = frames))
    /\ UNCHANGED <<up, socket, flags, queue, inbound, attached, memory, order, published,
                   overrun>>

Greets == up /\ ~greeted /\ greeted' = TRUE /\ Arrives(Frame("hello", 0))
          /\ UNCHANGED <<pushed, ready, faults>>

Pushes == up /\ ready /\ pushed < Len(Traffic) /\ pushed' = pushed + 1
          /\ Arrives(Frame("dispatch", pushed + 1)) /\ UNCHANGED <<ready, greeted, faults>>

\* A message of late comes again, over this connection or a later one: at most half
\* the cache later, so that it is known whatever else was late.
PushesAgain ==
    /\ up /\ ready /\ Fault
    /\ \E m \in 1..pushed : 2 * (pushed - m) < RingLen /\ Arrives(Frame("dispatch", m))
    /\ UNCHANGED <<pushed, ready, greeted>>

AsksToReconnect == up /\ greeted /\ Fault /\ Arrives(Frame("reconnect", 0))
                   /\ UNCHANGED <<pushed, ready, greeted>>

Thread == Connects \/ Greets \/ Pushes
Trouble == Disconnects \/ PushesAgain \/ AsksToReconnect
-----------------------------------------------------------------------------
(* cap_im_qq_ws_task                                                          *)

\* The address of the gateway is fetched, a client made and started.
Opens ==
    /\ ws = "open"
    /\ \/ /\ ws' = "run" /\ conns' = conns + 1 /\ client' = conns + 1 /\ UNCHANGED faults
          /\ greeted' = FALSE
          /\ connected' = FALSE /\ identify' = FALSE /\ reconnect' = FALSE
       \/ Fault /\ ws' = (IF stop THEN "off" ELSE "rest") /\ UNCHANGED <<client, conns, greeted, flags>>
    /\ UNCHANGED <<pushed, ready, up, loader, memory, order, published, deaf, overrun>>

\* The loop goes on unless sending failed or a new connection is wanted.
GoesOn(sent) == sent /\ ~reconnect

\* A pass of the inner loop: identify when HELLO was handled, or else a heartbeat.
Passes ==
    /\ ws = "run" /\ ~stop
    /\ \E sent \in {TRUE, FALSE} :
          /\ sent \/ (~up /\ (identify \/ connected))
          /\ identify => (sent <=> up)
          /\ identify' = (identify /\ ~sent)
          /\ ready' = (ready \/ (identify /\ sent))
          /\ ws' = IF GoesOn(sent) THEN "run" ELSE "close"
          /\ reconnect' = (reconnect \/ ~sent)
    /\ UNCHANGED <<pushed, greeted, up, client, conns, connected, loader, memory, order, faults,
                   published, deaf, overrun>>

Notices ==
    /\ ws = "run" /\ stop /\ ws' = "close"
    /\ UNCHANGED <<qq, client, conns, flags, loader, memory, order, faults, published, deaf,
                   overrun>>

\* The client is stopped and destroyed.
Closes ==
    /\ ws = "close" /\ client' = 0
    /\ up' = FALSE /\ ready' = FALSE
    /\ connected' = FALSE /\ identify' = FALSE /\ reconnect' = FALSE
    /\ ws' = IF stop THEN "off" ELSE "rest"
    /\ UNCHANGED <<pushed, greeted, conns, loader, memory, order, faults, published, deaf,
                   overrun>>

\* Five seconds pass: frames are handled meanwhile, except behind a download.
Settled == \A k \in Workers :
    inbound[k].pc # "process" /\ (inbound[k] = Idle => frames = <<>>)
Turns ==
    /\ ws = "top" \/ (ws = "rest" /\ Settled)
    /\ ws' = IF stop THEN "off" ELSE "open"
    /\ UNCHANGED <<qq, client, conns, flags, loader, memory, order, faults, published, deaf,
                   overrun>>

Socket == Opens \/ Passes \/ Notices \/ Closes \/ Turns
-----------------------------------------------------------------------------
(* cap_im_qq_inbound_task                                                     *)

Receive(k) ==
    /\ inbound[k] = Idle /\ frames # <<>>
    /\ inbound' = [inbound EXCEPT ![k] = [pc |-> "process", frame |-> Head(frames)]]
    /\ frames' = Tail(frames)
    /\ UNCHANGED <<qq, socket, flags, queue, attached, memory, order, faults, published, deaf,
                   overrun>>

\* cap_im_qq_dedup_check_and_record
Seen(m)   == \E i \in DOMAIN ring : ring[i] = m
Record(m) == ring' = [ring EXCEPT ![slot] = m] /\ slot' = (slot + 1) % RingLen

Publish(m) ==
    \/ published' = Append(published, m) /\ UNCHANGED faults
    \/ Fault /\ UNCHANGED published

\* cap_im_qq_process_frame: it is not asked which connection the frame is of.
Process(k) ==
    LET frame == inbound[k].frame
    IN  /\ inbound[k].pc = "process"
        /\ identify'  = (identify \/ frame.op = "hello")
        /\ connected' = (connected \/ frame.op = "hello")
        /\ reconnect' = (reconnect \/ frame.op = "reconnect")
        /\ IF frame.op # "dispatch" \/ Seen(frame.message)
           THEN inbound' = [inbound EXCEPT ![k] = Idle] /\ UNCHANGED <<memory, faults, published>>
           ELSE /\ Record(frame.message)
                /\ IF Traffic[frame.message] = "photo"
                   THEN /\ inbound' = [inbound EXCEPT ![k].pc = "download"]
                        /\ UNCHANGED <<faults, published>>
                   ELSE inbound' = [inbound EXCEPT ![k] = Idle] /\ Publish(frame.message)
        /\ UNCHANGED <<qq, socket, frames, queue, attached, order, deaf, overrun>>

\* cap_im_qq_save_attachment
Save(k) ==
    /\ inbound[k].pc = "download" /\ Publish(inbound[k].frame.message)
    /\ inbound' = [inbound EXCEPT ![k] = Idle]
    /\ UNCHANGED <<qq, socket, flags, frames, queue, attached, memory, order, deaf, overrun>>

\* It looks at stop_requested only when the queue is empty.
Leave(k) ==
    /\ inbound[k] = Idle /\ frames = <<>> /\ stop
    /\ inbound' = [inbound EXCEPT ![k] = Gone] /\ attached' = FALSE
    /\ UNCHANGED <<qq, socket, flags, frames, queue, memory, order, faults, published, deaf,
                   overrun>>

Handle(k) == Receive(k) \/ Process(k) \/ Save(k) \/ Leave(k)
-----------------------------------------------------------------------------
(* The operator, through claw_cap_disable_group and claw_cap_enable_group.    *)

Begin == oper = "idle" /\ orders < MaxOrders /\ orders' = orders + 1

\* cap_im_qq_reset_runtime_state; the callers see to it that there is no client.
Reset ==
    /\ connected' = FALSE /\ identify' = FALSE /\ reconnect' = FALSE
    /\ stop' = FALSE /\ attached' = FALSE

\* cap_im_qq_gateway_stop of a gateway whose ws task has gone: an inbound task
\* that is still there is forgotten, and told to go on.
DisableGone ==
    /\ Begin /\ on /\ on' = FALSE /\ ws = "off" /\ Reset
    /\ UNCHANGED <<qq, socket, frames, queue, inbound, memory, oper, faults, published, deaf,
                   overrun>>

\* cap_im_qq_gateway_stop up to its wait; stopping the client ends its thread.
Disable ==
    /\ Begin /\ on /\ on' = FALSE /\ ws # "off"
    /\ stop' = TRUE /\ reconnect' = TRUE /\ oper' = "stopping"
    /\ up' = FALSE /\ ready' = FALSE /\ greeted' = (greeted \/ client # 0)
    /\ UNCHANGED <<pushed, socket, connected, identify, loader, memory, faults, published, deaf,
                   overrun>>

\* cap_im_qq_gateway_stop: both tasks have cleared their handles.
TasksGone == ws = "off" /\ ~attached

Stopped ==
    /\ oper = "stopping" /\ TasksGone /\ oper' = "idle" /\ Reset
    /\ frames' = <<>> /\ queue' = FALSE
    /\ UNCHANGED <<qq, socket, inbound, memory, on, orders, faults, published, deaf, overrun>>

\* Ten seconds have passed: fetching the address may take longer, and so may
\* waiting for the websocket's thread and a download.
StopTimesOut ==
    /\ oper = "stopping" /\ oper' = "idle"
    /\ ws \in {"open", "close"} \/ \E k \in Workers : inbound[k].pc = "download"
    /\ UNCHANGED <<qq, socket, flags, loader, memory, stop, on, orders, faults, published, deaf,
                   overrun>>

\* cap_im_qq_gateway_start.  Nothing is started while ws_task is set.
EnableRunning ==
    /\ Begin /\ ~on /\ ws # "off" /\ on' = TRUE
    /\ UNCHANGED <<qq, socket, flags, loader, memory, stop, oper, faults, published, deaf,
                   overrun>>

\* A new inbound task, on the queue that is there or on a new one.
Attach ==
    /\ \E k \in Workers : inbound[k] = Gone /\ inbound' = [inbound EXCEPT ![k] = Idle]
    /\ attached' = TRUE /\ queue' = TRUE /\ overrun' = (overrun \/ Alive # {})

Enable ==
    /\ Begin /\ ~on /\ ws = "off" /\ Attach
    /\ on' = TRUE /\ stop' = FALSE /\ ws' = "top"
    /\ UNCHANGED <<qq, client, conns, flags, frames, memory, oper, faults, published, deaf>>

\* The inbound task cannot be created.
EnableFails ==
    /\ Begin /\ ~on /\ ws = "off" /\ Fault
    /\ stop' = FALSE /\ frames' = <<>> /\ queue' = FALSE /\ attached' = FALSE
    /\ overrun' = (overrun \/ Alive # {})
    /\ UNCHANGED <<qq, socket, flags, inbound, memory, on, oper, published, deaf>>

\* The ws task cannot be created: the inbound task is stopped again.
EnableHalf ==
    /\ Begin /\ ~on /\ ws = "off" /\ Fault /\ Attach
    /\ stop' = TRUE /\ oper' = "undoing"
    /\ UNCHANGED <<qq, socket, flags, frames, memory, on, published, deaf>>

Undone ==
    /\ oper = "undoing" /\ ~attached /\ oper' = "idle"
    /\ frames' = <<>> /\ queue' = FALSE
    /\ UNCHANGED <<qq, socket, flags, inbound, attached, memory, stop, on, orders, faults,
                   published, deaf, overrun>>

Operate == Disable \/ DisableGone \/ EnableRunning \/ Enable \/ EnableFails \/ EnableHalf
Wait    == Stopped \/ StopTimesOut \/ Undone
-----------------------------------------------------------------------------
Init ==
    /\ pushed = 0 /\ ready = FALSE /\ greeted = FALSE /\ up = FALSE
    /\ ws = "top" /\ client = 0 /\ conns = 0
    /\ connected = FALSE /\ identify = FALSE /\ reconnect = FALSE
    /\ frames = <<>> /\ queue = TRUE
    /\ inbound = [k \in Workers |-> IF k = 1 THEN Idle ELSE Gone] /\ attached = TRUE
    /\ ring = [i \in 0..(RingLen - 1) |-> 0] /\ slot = 0
    /\ stop = FALSE /\ on = TRUE /\ oper = "idle" /\ orders = 0 /\ faults = 0
    /\ published = <<>> /\ deaf = FALSE /\ overrun = FALSE

Next ==
    \/ Thread \/ Trouble \/ Socket \/ (\E k \in Workers : Handle(k))
    \/ Operate \/ Wait

\* Both tasks run, requests are answered or time out, the connection comes about
\* and greets unless it fails, calls come to their deadline.
FairSpec ==
    /\ Init /\ [][Next]_qvars
    /\ WF_qvars(Thread) /\ WF_qvars(Socket) /\ WF_qvars(Wait)
    /\ \A k \in Workers : WF_qvars(Handle(k))

-----------------------------------------------------------------------------
TypeOK ==
    /\ pushed \in 0..Len(Traffic) /\ {ready, greeted, up} \subseteq BOOLEAN
    /\ ws \in {"off", "top", "open", "run", "close", "rest"} /\ client \in 0..conns
    /\ {connected, identify, reconnect, stop, queue, attached, on} \subseteq BOOLEAN
    /\ Len(frames) <= QueueLen /\ oper \in {"idle", "stopping", "undoing"}
    /\ (ws \in {"run", "close"}) = (client # 0)

\* What QQ sends again, over the same connection or the next, before or after the
\* gateway was disabled and enabled, is published once, unless two inbound tasks
\* mixed up its order.
PublishedOnce ==
    ~overrun => \A i, j \in DOMAIN published : published[i] = published[j] => i = j

\* A stop that succeeds deletes the queue under no inbound task, and no two of
\* them take turns at it, unless a start met one that an earlier stop gave up.
OneHandler == ~overrun => Cardinality(Alive) <= 1 /\ (Alive # {} => queue)

\* The same without exception.
NoSecondHandler == Cardinality(Alive) <= 1

\* HELLO and RECONNECT count for the connection they came over.
FramesOfThisConnection ==
    \A k \in Workers : (inbound[k].pc = "process" /\ inbound[k].frame.op \in {"hello", "reconnect"}
                        /\ client # 0) => inbound[k].frame.of = client

\* The gateway gets known to QQ or is switched off, although connections fail,
\* QQ wants new ones and frames of the old one are handled late, unless HELLO
\* itself found the queue full.
GetsReady == (ws = "open" /\ ~stop) ~> (ready \/ stop \/ ws = "off" \/ deaf)
\* Stops and failing starts return.
CallsEnd == (oper # "idle") ~> (oper = "idle")
WaitsEnd == GetsReady /\ CallsEnd

\* HELLO does not get lost between the websocket's thread and the inbound task.
HelloIsHeard == (ws = "open" /\ ~stop) ~> (ready \/ stop \/ ws = "off")
=============================================================================
