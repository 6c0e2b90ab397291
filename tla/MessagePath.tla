----------------------------- MODULE MessagePath -----------------------------
(* The way of a message from its chat through the router to the agent, and of *)
(* the answer back: the gateways that publish it, the router task that runs   *)
(* the rules it matches one action at a time, with the router's mutex held    *)
(* (claw_event_router.c), the agent's task with its queue of requests         *)
(* (claw_core.c), and the answer that is published as an event again.         *)
(*                                                                            *)
(* Router and agent put into each other's queue and wait a second for room.   *)
(* Cancelling and the pending table are in EventRouter, what the agent does   *)
(* with a request in ClawCore, the sending to a platform in ChatSend.         *)
EXTENDS Naturals, Sequences, FiniteSets

CONSTANTS
    Traffic,     \* what users write, in order: [chat, text], text "new" or "talk"
    Bound,       \* chats whose channel has an outbound binding
    OtherRules,  \* rules the router may have instead of the shipped ones
    QueueLen,    \* event_queue_len
    RequestLen,  \* request_queue_len (4 in app_claw.c)
    MaxFaults

VARIABLES
    rules,       \* the rules, as loaded
    gate,        \* per chat: the last message its gateway took up, and how far it is
    queue,       \* event_queue
    router,      \* the router task: its event, rule, action and ctx.last.output
    requests,    \* request_queue: what each request answers
    agent,       \* the agent's task
    chat,        \* per chat: what its users see, in order
    result,      \* last_result: failed_actions, and how many actions did fail
    lost,        \* history: messages something of which was given up
    faults       \* bound

pvars == <<rules, gate, queue, router, requests, agent, chat, result, lost, faults>>

Chats == {Traffic[m].chat : m \in DOMAIN Traffic}

Fault == faults < MaxFaults /\ faults' = faults + 1

\* No text: any will do for a rule, and the last output for an action.
Empty == ""

Rule(type, text, consume, actions) ==
    [type |-> type, text |-> text, consume |-> consume, actions |-> actions]
Does(kind, text, open) == [kind |-> kind, text |-> text, open |-> open]

\* fatfs_image/router_rules/router_rules.json, without what no message triggers.
Shipped ==
    << Rule("message", "new", TRUE, <<Does("cap", Empty, FALSE), Does("send", "fresh", FALSE)>>),
       Rule("message", Empty, FALSE, <<Does("send", "note", FALSE)>>),
       Rule("message", Empty, TRUE, <<Does("agent", Empty, FALSE)>>),
       Rule("out_message", Empty, TRUE, <<Does("send", "event", FALSE)>>) >>

NoEvent == [type |-> Empty, of |-> 0, text |-> Empty]
Resting == [at |-> "idle", event |-> NoEvent, rule |-> 0, action |-> 0, last |-> Empty]
Off     == [at |-> "idle", of |-> 0, text |-> Empty]

\* The router task holds its recursive mutex while it runs rules.
Held == router.at = "rules"

Room == Len(queue) < QueueLen
-----------------------------------------------------------------------------
(* A gateway: claw_event_router_publish_message.                              *)

Unpublished(c) == {m \in DOMAIN Traffic : Traffic[m].chat = c /\ m > gate[c].of}

Tracks(c) ==
    /\ gate[c].at = "idle" /\ ~Held
    /\ \E m \in Unpublished(c) :
          /\ \A n \in Unpublished(c) : m <= n
          /\ gate' = [gate EXCEPT ![c] = [of |-> m, at |-> "send"]]
    /\ UNCHANGED <<rules, queue, router, requests, agent, chat, result, lost, faults>>

At(c, place) == gate' = [gate EXCEPT ![c].at = place]

Sends(c) ==
    /\ gate[c].at = "send" /\ Room /\ At(c, "idle")
    /\ queue' = Append(queue, [type |-> "message", of |-> gate[c].of,
                               text |-> Traffic[gate[c].of].text])
    /\ UNCHANGED <<rules, router, requests, agent, chat, result, lost, faults>>

\* A second has passed, and the pending table is put right.
GivesUp(c) ==
    /\ gate[c].at = "send" /\ ~Room /\ At(c, "untrack")
    /\ UNCHANGED <<rules, queue, router, requests, agent, chat, result, lost, faults>>

Untracks(c) ==
    /\ gate[c].at = "untrack" /\ ~Held /\ At(c, "idle") /\ lost' = lost \union {gate[c].of}
    /\ UNCHANGED <<rules, queue, router, requests, agent, chat, result, faults>>

Publish(c) == Sends(c) \/ GivesUp(c) \/ Untracks(c)
-----------------------------------------------------------------------------
(* The router task: claw_event_router_process_event.                          *)

\* claw_event_router_rule_matches
Matches(rule, event) ==
    rule.type \in {Empty, event.type} /\ rule.text \in {Empty, event.text}

\* The next rule that matches, or none.
NextRule(event, after) ==
    LET more == {i \in DOMAIN rules : i > after /\ Matches(rules[i], event)}
    IN  IF more = {} THEN 0 ELSE CHOOSE i \in more : \A j \in more : i <= j

\* mutant: any event does
ToAgentAll(event) == TRUE

\* Without a rule a message goes to the agent, and nothing else anywhere.
ToAgent(event) == event.type = "message"

Receive ==
    /\ router.at = "idle" /\ queue # <<>> /\ queue' = Tail(queue)
    /\ LET event == Head(queue)
           first == NextRule(event, 0)
       IN  IF first = 0 /\ ~ToAgent(event)
           THEN UNCHANGED router /\ lost' = lost \union {event.of}
           ELSE /\ router' = [Resting EXCEPT !.at = IF first = 0 THEN "default" ELSE "rules",
                                !.event = event, !.rule = first, !.action = 1]
                /\ UNCHANGED lost
    /\ result' = [failed |-> 0, told |-> 0]
    /\ UNCHANGED <<rules, gate, requests, agent, chat, faults>>

Now == rules[router.rule].actions[router.action]

\* The loops over actions and rules; ctx.last stays for the rules that follow.
After(ok, last) ==
    LET rule == rules[router.rule]
        next == IF rule.consume THEN 0 ELSE NextRule(router.event, router.rule)
    IN  router' =
          IF router.action < Len(rule.actions) /\ (ok \/ Now.open)
          THEN [router EXCEPT !.action = @ + 1, !.last = last]
          ELSE IF next = 0 THEN Resting
          ELSE [router EXCEPT !.rule = next, !.action = 1, !.last = last]

\* How an action ended: in last_result if told, and in truth.
Counted(ok, told) ==
    /\ result' = [failed |-> result.failed + (IF ok THEN 0 ELSE 1),
                  told   |-> result.told + (IF ok \/ ~told THEN 0 ELSE 1)]
    /\ lost' = IF ok THEN lost ELSE lost \union {router.event.of}

Home == Traffic[router.event.of].chat

\* claw_event_router_execute_cap_action: its output is kept whether it succeeded
\* or not.
RunCap ==
    /\ Held /\ Now.kind = "cap"
    /\ \E ok \in BOOLEAN :
          /\ IF ok THEN UNCHANGED faults ELSE Fault
          /\ After(ok, IF ok THEN "output" ELSE "cap error") /\ Counted(ok, TRUE)
    /\ UNCHANGED <<rules, gate, queue, requests, agent, chat>>

\* claw_event_router_execute_send_message_action: its own text, the event's, or
\* else the last output.
Said == CASE Now.text = "event" -> router.event.text
          [] Now.text = Empty   -> router.last
          [] OTHER              -> Now.text

\* Without a text or a binding it ends before it is counted.
SendNothing ==
    /\ Held /\ Now.kind = "send" /\ (Said = Empty \/ Home \notin Bound)
    /\ After(FALSE, router.last) /\ Counted(FALSE, FALSE)
    /\ UNCHANGED <<rules, gate, queue, requests, agent, chat, faults>>

Shown(c) == chat' = [chat EXCEPT ![c] = Append(@, [of |-> router.event.of, what |-> Said])]

Send ==
    /\ Held /\ Now.kind = "send" /\ Said # Empty /\ Home \in Bound
    /\ \E ok \in BOOLEAN :
          /\ IF ok THEN UNCHANGED faults ELSE Fault
          /\ \/ Shown(Home)
             \/ ~ok /\ UNCHANGED chat
          /\ After(ok, IF ok THEN Said ELSE "send error") /\ Counted(ok, TRUE)
    /\ UNCHANGED <<rules, gate, queue, requests, agent>>

\* mutant: xQueueSendToFront
QueuedFirst(request) == <<request>> \o requests

Queued(request) == Append(requests, request)

SubmitTimesOut == Len(requests) = RequestLen

\* claw_event_router_execute_agent_action: there is room, or none for a second.
Submit(ok) ==
    IF ok THEN Len(requests) < RequestLen /\ requests' = Queued(router.event.of)
    ELSE SubmitTimesOut /\ UNCHANGED requests

RunAgent ==
    /\ Held /\ Now.kind = "agent"
    /\ \E ok \in BOOLEAN :
          Submit(ok) /\ After(ok, IF ok THEN "queued" ELSE "timeout") /\ Counted(ok, TRUE)
    /\ UNCHANGED <<rules, gate, queue, agent, chat, faults>>

\* claw_event_router_execute_action: a drop ends neither the rule nor the event.
Drop ==
    /\ Held /\ Now.kind = "drop" /\ After(TRUE, Empty) /\ Counted(TRUE, TRUE)
    /\ UNCHANGED <<rules, gate, queue, requests, agent, chat, faults>>

\* claw_event_router_run_default_agent, without the mutex.
RunDefault ==
    /\ router.at = "default" /\ router' = Resting
    /\ \E ok \in BOOLEAN : Submit(ok) /\ Counted(ok, TRUE)
    /\ UNCHANGED <<rules, gate, queue, agent, chat, faults>>

RouterTask ==
    Receive \/ RunCap \/ SendNothing \/ Send \/ RunAgent \/ Drop \/ RunDefault
-----------------------------------------------------------------------------
(* The agent's task: claw_core_task.                                          *)

Take ==
    /\ agent.at = "idle" /\ requests # <<>> /\ requests' = Tail(requests)
    /\ agent' = [Off EXCEPT !.at = "think", !.of = Head(requests)]
    /\ UNCHANGED <<rules, gate, queue, router, chat, result, lost, faults>>

\* The model answers, fails, or calls a tool that needs the router's mutex.
Think ==
    /\ agent.at = "think"
    /\ \/ agent' = [agent EXCEPT !.at = "track", !.text = "answer"] /\ UNCHANGED faults
       \/ agent' = [agent EXCEPT !.at = "track", !.text = "error"] /\ Fault
       \/ agent' = [agent EXCEPT !.at = "tool"] /\ UNCHANGED faults
    /\ UNCHANGED <<rules, gate, queue, router, requests, chat, result, lost>>

Tool ==
    /\ agent.at = "tool" /\ ~Held
    /\ agent' = [agent EXCEPT !.at = "track", !.text = "answer"]
    /\ UNCHANGED <<rules, gate, queue, router, requests, chat, result, lost, faults>>

\* publish_out_message_if_requested: tracked, then sent, or withdrawn after a second.
AgentTracks ==
    /\ agent.at = "track" /\ ~Held /\ agent' = [agent EXCEPT !.at = "send"]
    /\ UNCHANGED <<rules, gate, queue, router, requests, chat, result, lost, faults>>

AgentSends ==
    /\ agent.at = "send" /\ Room /\ agent' = Off
    /\ queue' = Append(queue, [type |-> "out_message", of |-> agent.of, text |-> agent.text])
    /\ UNCHANGED <<rules, gate, router, requests, chat, result, lost, faults>>

AgentGivesUp ==
    /\ agent.at = "send" /\ ~Room /\ agent' = [agent EXCEPT !.at = "untrack"]
    /\ UNCHANGED <<rules, gate, queue, router, requests, chat, result, lost, faults>>

AgentUntracks ==
    /\ agent.at = "untrack" /\ ~Held /\ agent' = Off /\ lost' = lost \union {agent.of}
    /\ UNCHANGED <<rules, gate, queue, router, requests, chat, result, faults>>

AgentTask ==
    Take \/ Think \/ Tool \/ AgentTracks \/ AgentSends \/ AgentGivesUp \/ AgentUntracks
-----------------------------------------------------------------------------
Init ==
    /\ rules \in {Shipped} \union OtherRules
    /\ gate = [c \in Chats |-> [of |-> 0, at |-> "idle"]]
    /\ queue = <<>> /\ router = Resting /\ requests = <<>> /\ agent = Off
    /\ chat = [c \in Chats |-> <<>>] /\ result = [failed |-> 0, told |-> 0]
    /\ lost = {} /\ faults = 0

Next == RouterTask \/ AgentTask \/ \E c \in Chats : Tracks(c) \/ Publish(c)

Spec == Init /\ [][Next]_pvars

\* Both tasks run, a platform or the model answers or fails, and what waits for the
\* mutex gets it: the router gives it after each event, and events are as few as
\* the queue holds.
FairSpec ==
    /\ Spec
    /\ WF_pvars(RouterTask) /\ SF_pvars(AgentTask)
    /\ \A c \in Chats : SF_pvars(Publish(c))

-----------------------------------------------------------------------------
TypeOK ==
    /\ Len(queue) <= QueueLen /\ Len(requests) <= RequestLen
    /\ router.at \in {"idle", "rules", "default"}
    /\ agent.at \in {"idle", "think", "tool", "track", "send", "untrack"}
    /\ \A c \in Chats : gate[c].at \in {"idle", "send", "untrack"}
    /\ lost \subseteq DOMAIN Traffic

IsAnswer(item) == item.what \in {"answer", "error"}

\* In each chat the answers come in the order of the messages, one at most for each.
AnswersAreSorted ==
    \A c \in Chats : \A i, j \in DOMAIN chat[c] :
        i < j /\ IsAnswer(chat[c][i]) /\ IsAnswer(chat[c][j]) => chat[c][i].of < chat[c][j].of

\* With the shipped rules the note that a message is being worked on comes before its
\* answer, unless it was lost.
NotesComeFirst ==
    rules = Shipped =>
        \A c \in Chats : \A k \in DOMAIN chat[c] :
            IsAnswer(chat[c][k]) =>
                \/ chat[c][k].of \in lost
                \/ \E j \in 1 .. k - 1 : chat[c][j] = [of |-> chat[c][k].of, what |-> "note"]

Answered(m) ==
    \E i \in DOMAIN chat[Traffic[m].chat] :
        /\ chat[Traffic[m].chat][i].of = m
        /\ chat[Traffic[m].chat][i].what \in {"answer", "error", "fresh"}

AtRest ==
    /\ queue = <<>> /\ requests = <<>> /\ agent = Off /\ router = Resting
    /\ \A c \in Chats : gate[c].at = "idle"

\* When nothing is on its way, every message that was published is answered, or was
\* given up by a task that waited for room or met a failure.
EachIsAnswered ==
    AtRest => \A m \in DOMAIN Traffic :
                  m \in lost \/ Answered(m) \/ m \in Unpublished(Traffic[m].chat)

\* Through three queues and two tasks, whatever is given up: in each chat the answers
\* come in the order of the messages, one at most for each, after its note, and at rest
\* no message waits for one.
AnswersInOrder == AnswersAreSorted /\ NotesComeFirst /\ EachIsAnswered

\* All comes to rest: router and agent, each waiting for the other, give up, and the
\* agent does not answer its own answers.
ComesToRest == <>[]AtRest

\* A message is turned away only while the agent works.
TurnedAwayOnlyWhenBusy ==
    [][Held /\ Now.kind = "agent" /\ result'.told > result.told => agent.at \in {"think", "tool"}]_pvars

\* Who was told that the message is being worked on gets an answer.
PromisedIsAnswered ==
    \A m \in DOMAIN Traffic :
        (\E c \in Chats : \E i \in DOMAIN chat[c] : chat[c][i] = [of |-> m, what |-> "note"])
            ~> Answered(m)

\* last_result counts the actions that failed.
FailuresAreCounted == result.told = result.failed

\* A message without a text of its own gives the output of its own rule.
OutputIsOwn ==
    Held /\ router.action = 1 /\ Now.kind = "send" /\ Now.text = Empty => Said = Empty
=============================================================================
