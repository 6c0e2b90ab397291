------------------------------ MODULE ClawCore ------------------------------
(***************************************************************************)
(* The agent core, components/claw_modules/claw_core/src/claw_core.c: a    *)
(* bounded request queue, one worker task that runs the context / LLM /    *)
(* tool loop, the in-flight slot that cooperative cancellation uses, a     *)
(* bounded response queue and the pending list in which a receiver parks   *)
(* the responses it was not waiting for.                                   *)
(*                                                                         *)
(* A request is its id.  Ids are positive: 0 is "no request in flight" in  *)
(* inflight_request_id and "any request" for receive and cancel.           *)
(***************************************************************************)
EXTENDS Naturals, Sequences, FiniteSets, SequencesExt

CONSTANTS
    Requests,           \* the request ids clients may submit
    Clients,            \* the tasks that submit and then receive
    PublishOut,         \* requests with CLAW_CORE_REQUEST_FLAG_PUBLISH_OUT_MESSAGE
    SkipQueue,          \* requests with CLAW_CORE_REQUEST_FLAG_SKIP_RESPONSE_QUEUE
    HasSession,         \* requests with a non-empty session_id
    RequestQueueLen,    \* request_queue_len
    ResponseQueueLen,   \* response_queue_len
    MaxToolIterations,  \* max_tool_iterations
    NoClient            \* nobody holds response_lock

ASSUME ConstantsOK ==
    /\ Requests \subseteq Nat \ {0}
    /\ PublishOut \subseteq Requests
    /\ SkipQueue \subseteq Requests
    /\ HasSession \subseteq Requests
    /\ RequestQueueLen \in Nat \ {0}
    /\ ResponseQueueLen \in Nat \ {0}
    /\ MaxToolIterations \in Nat \ {0}
    /\ NoClient \notin Clients

VARIABLES
    requestQ,       \* request_queue
    responseQ,      \* response_queue
    pending,        \* pending_head .. pending_tail
    lockOwner,      \* holder of response_lock
    inflight,       \* inflight_request_id
    inflightAbort,  \* inflight_abort
    armed,          \* claw_llm_http's s_abort_flag points at inflight_abort
    pc,             \* where the worker task is in claw_core_task
    cur,            \* the request item the worker owns
    err,            \* its local err, as ESP_OK or not
    reply,          \* its response item: status, text and error_message
    iteration,      \* its tool iteration counter
    client,         \* per client: where it is, and the id it receives for
    submitted,      \* history: ids accepted by claw_core_submit, in order
    finished,       \* history: responses built, in order, at the in-flight clear
    delivered,      \* per id, how many receivers got its response
    lost,           \* ids whose response was freed: no memory for a pending node
    cancelAsked,    \* ids a successful claw_core_cancel_request addressed
    sessionLog,     \* per id, what append_session_turn stored for it
    observed,       \* ids the completion observers were called for
    outMessages     \* ids whose out_message reached the event router

coreVars   == <<requestQ, pc, cur, err, reply, iteration>>
flightVars == <<inflight, inflightAbort, armed, cancelAsked>>
replyVars  == <<responseQ, pending, lockOwner, client, delivered, lost>>
logVars    == <<submitted, finished, sessionLog, observed, outMessages>>
vars       == <<coreVars, flightVars, replyVars, logVars>>

Texts  == {"none", "empty", "answer"}
Errors == {"none", "no_memory", "failed", "aborted", "cancelled"}
Reply    == [status : {"ok", "error"}, text : Texts, error : Errors]
Response == [id : Requests, reply : Reply]

\* response.view as claw_core_task initialises it for every request.
FreshReply == [status |-> "error", text |-> "none", error |-> "none"]

WorkerPcs == {"idle", "begin", "start", "context", "llm", "tools", "complete",
              "disarm", "clear", "trace", "publish", "push"}
ClientPcs == {"idle", "submitted", "wait"}

Init ==
    /\ requestQ = <<>> /\ responseQ = <<>> /\ pending = <<>>
    /\ lockOwner = NoClient
    /\ inflight = 0 /\ inflightAbort = FALSE /\ armed = FALSE
    /\ pc = "idle" /\ cur = 0 /\ err = "ok" /\ reply = FreshReply /\ iteration = 0
    /\ client = [c \in Clients |-> [pc |-> "idle", want |-> 0]]
    /\ submitted = <<>> /\ finished = <<>> /\ lost = {} /\ cancelAsked = {}
    /\ delivered = [r \in Requests |-> 0]
    /\ sessionLog = [r \in Requests |-> <<>>]
    /\ observed = {} /\ outMessages = {}
-----------------------------------------------------------------------------
(* Clients.  An application task submits a request and, unless the response *)
(* queue is skipped, receives for that id (or for any id).                  *)

EnqueueInFront(r) == <<r>> \o requestQ     \* mutant: xQueueSendToFront
Enqueue(r) == Append(requestQ, r)

\* claw_core_submit: the item is queued, or the queue stays full until the
\* timeout and the call fails with nothing changed.
Submit(c, r) ==
    /\ client[c].pc = "idle" /\ r \notin ToSet(submitted)
    /\ Len(requestQ) < RequestQueueLen
    /\ requestQ' = Enqueue(r)
    /\ submitted' = Append(submitted, r)
    /\ client' = IF r \in SkipQueue THEN client
                 ELSE [client EXCEPT ![c] = [pc |-> "submitted", want |-> r]]
    /\ UNCHANGED <<pc, cur, err, reply, iteration, flightVars, responseQ, pending,
                   lockOwner, delivered, lost, finished, sessionLog, observed,
                   outMessages>>

Matches(want, resp) == want = 0 \/ resp.id = want

\* pop_pending_response unlinks and returns the first pending node that matches.
FirstMatch(want, i) ==
    /\ i \in DOMAIN pending
    /\ Matches(want, pending[i])
    /\ \A j \in DOMAIN pending : Matches(want, pending[j]) => i <= j

KeepLinked(i) == pending                   \* mutant: the node stays in the list
Unlink(i) == RemoveAt(pending, i)

AlwaysLocks(c) == TRUE                     \* mutant: response_lock is not taken
CanLock(c) == lockOwner = NoClient

NoUnlock == UNCHANGED lockOwner            \* mutant: leaves without the give
Unlock == lockOwner' = NoClient

Deliver(c, resp) ==
    /\ delivered' = [delivered EXCEPT ![resp.id] = @ + 1]
    /\ client' = [client EXCEPT ![c] = [pc |-> "idle", want |-> 0]]

\* claw_core_receive_for up to the wait: take response_lock, then either leave
\* with a pending response or keep the lock and wait on the queue.
ReceiveBegin(c, want) ==
    /\ client[c].pc = "submitted" /\ want \in {client[c].want, 0}
    /\ CanLock(c)
    /\ \/ \E i \in DOMAIN pending :
            /\ FirstMatch(want, i)
            /\ pending' = Unlink(i)
            /\ Deliver(c, pending[i])
            /\ UNCHANGED lockOwner
       \/ /\ \A i \in DOMAIN pending : ~Matches(want, pending[i])
          /\ lockOwner' = c
          /\ client' = [client EXCEPT ![c] = [pc |-> "wait", want |-> want]]
          /\ UNCHANGED <<pending, delivered>>
    /\ UNCHANGED <<responseQ, lost, coreVars, flightVars, logVars>>

\* The loop of claw_core_receive_for: a response for this receiver is handed
\* over; any other one goes to the pending list, or is freed when its node
\* cannot be allocated.
ReceiveItem(c) ==
    /\ client[c].pc = "wait" /\ responseQ # <<>>
    /\ responseQ' = Tail(responseQ)
    /\ LET resp == Head(responseQ) IN
         \/ /\ Matches(client[c].want, resp)
            /\ Unlock
            /\ Deliver(c, resp)
            /\ UNCHANGED <<pending, lost>>
         \/ /\ ~Matches(client[c].want, resp)
            /\ \/ pending' = Append(pending, resp) /\ UNCHANGED lost
               \/ lost' = lost \cup {resp.id} /\ UNCHANGED pending
            /\ UNCHANGED <<lockOwner, client, delivered>>
    /\ UNCHANGED <<coreVars, flightVars, logVars>>

\* ... and the timeout of that loop: the receiver leaves, its response may
\* still come.
ReceiveTimeout(c) ==
    /\ client[c].pc = "wait"
    /\ Unlock
    /\ client' = [client EXCEPT ![c] = [pc |-> "idle", want |-> 0]]
    /\ UNCHANGED <<responseQ, pending, delivered, lost, coreVars, flightVars, logVars>>

AnyInFlight(q) == inflight # 0             \* mutant: the id is not compared
Addressed(q) == inflight # 0 /\ q \in {0, inflight}

\* claw_core_cancel_request, one critical section of inflight_lock.
Cancel(q) ==
    /\ Addressed(q)
    /\ inflightAbort' = TRUE
    /\ cancelAsked' = cancelAsked \cup (IF q = 0 THEN {inflight} ELSE {q})
    /\ UNCHANGED <<inflight, armed, coreVars, replyVars, logVars>>
-----------------------------------------------------------------------------
(* The worker task. *)

Goto(label) == pc' = label

\* xQueueReceive on the request queue; every local is reset for the request.
Dequeue ==
    /\ pc = "idle" /\ requestQ # <<>>
    /\ requestQ' = Tail(requestQ)
    /\ cur' = Head(requestQ)
    /\ err' = "ok" /\ reply' = FreshReply /\ iteration' = 0
    /\ Goto("begin")
    /\ UNCHANGED <<flightVars, replyVars, logVars>>

\* The first critical section: publish the in-flight id, clear the abort flag.
BeginFlight ==
    /\ pc = "begin"
    /\ inflight' = cur /\ inflightAbort' = FALSE
    /\ Goto("start")
    /\ UNCHANGED <<armed, cancelAsked, requestQ, cur, err, reply, iteration,
                   replyVars, logVars>>

\* Arm the transport, build the response shell and the message array, call
\* on_request_start.  A failed allocation ends the request with err as it is:
\* ESP_OK for the response target, and what on_request_start returned for the
\* message array.
StartRequest ==
    /\ pc = "start"
    /\ armed' = TRUE
    /\ \/ Goto("context") /\ UNCHANGED <<err, reply>>
       \/ /\ err' \in {"ok", "fail"}
          /\ reply' = [reply EXCEPT !.error = "no_memory"]
          /\ Goto("disarm")
    /\ UNCHANGED <<inflight, inflightAbort, cancelAsked, requestQ, cur, iteration,
                   replyVars, logVars>>

Fail(error) ==
    /\ err' = "fail"
    /\ reply' = [reply EXCEPT !.error = error]
    /\ Goto("disarm")

\* build_iteration_context: every provider contributes, or the request fails.
BuildContext ==
    /\ pc = "context"
    /\ \/ Goto("llm") /\ err' = "ok" /\ UNCHANGED reply
       \/ Fail("failed")
    /\ UNCHANGED <<requestQ, cur, iteration, flightVars, replyVars, logVars>>

\* claw_llm_http_post_json words a failed transfer by its armed abort flag, and
\* the HTTP event callback turns that flag into the failure.
TransportError == IF armed /\ inflightAbort THEN "aborted" ELSE "failed"

\* claw_core_llm_chat_messages returns: final text (possibly empty, or lost to
\* a failed copy), tool calls, or an error.
LlmReturn ==
    /\ pc = "llm"
    /\ \/ \E t \in Texts : reply' = [reply EXCEPT !.text = t]
          /\ Goto("complete") /\ UNCHANGED err
       \/ Goto("tools") /\ UNCHANGED <<err, reply>>
       \/ Fail(TransportError)
    /\ UNCHANGED <<requestQ, cur, iteration, flightVars, replyVars, logVars>>

NextIteration == iteration + 1

LimitReached == NextIteration >= MaxToolIterations

\* append_assistant_tool_calls, append_tool_results_message and the iteration
\* limit.  A failing capability is a tool message, not an error of the request.
RunTools ==
    /\ pc = "tools"
    /\ \/ Fail("failed") /\ UNCHANGED iteration
       \/ /\ iteration' = NextIteration
          /\ IF LimitReached
             THEN Fail("failed")
             ELSE Goto("context") /\ UNCHANGED <<err, reply>>
    /\ UNCHANGED <<requestQ, cur, flightVars, replyVars, logVars>>

Remember(what) == sessionLog' = [sessionLog EXCEPT ![cur] = Append(@, what)]

\* After the loop: mark the reply OK, append the turn (whose result overwrites
\* err), call the observers; without text, only an error message is set.
Complete ==
    /\ pc = "complete"
    /\ IF reply.text # "none"
       THEN /\ reply' = [reply EXCEPT !.status = "ok"]
            /\ observed' = observed \cup {cur}
            /\ IF reply.text = "answer" /\ cur \in HasSession
               THEN \/ Remember("turn") /\ UNCHANGED err
                    \/ err' = "fail" /\ UNCHANGED sessionLog
               ELSE UNCHANGED <<err, sessionLog>>
       ELSE /\ reply' = [reply EXCEPT !.error = "no_memory"]
            /\ UNCHANGED <<err, observed, sessionLog>>
    /\ Goto("disarm")
    /\ UNCHANGED <<requestQ, cur, iteration, flightVars, replyVars, submitted,
                   finished, outMessages>>

\* finish_request: claw_llm_http_disarm_abort ...
Disarm ==
    /\ pc = "disarm"
    /\ armed' = FALSE
    /\ Goto("clear")
    /\ UNCHANGED <<inflight, inflightAbort, cancelAsked, requestQ, cur, err, reply,
                   iteration, replyVars, logVars>>

\* mutant: the flag is read after its reset
WasCancelledLate == inflightAbort' /\ err # "ok" /\ reply.error # "none"
WasCancelled == inflightAbort /\ err # "ok" /\ reply.error # "none"

\* ... then the second critical section: read and clear the in-flight slot; a
\* failure of a cancelled request gets the error "request cancelled".
ClearFlight ==
    /\ pc = "clear"
    /\ inflight' = 0 /\ inflightAbort' = FALSE
    /\ reply' = IF WasCancelled
                THEN [reply EXCEPT !.error = "cancelled"] ELSE reply
    /\ finished' = Append(finished, [id |-> cur, reply |-> reply'])
    /\ Goto("trace")
    /\ UNCHANGED <<armed, cancelAsked, requestQ, cur, err, iteration, replyVars,
                   submitted, sessionLog, observed, outMessages>>

NoteEveryEnd == cur \in HasSession         \* mutant: err is not asked
NeedsFailureNote == err # "ok" /\ cur \in HasSession

\* The failure note appended to the session when err is not ESP_OK.
FailureTrace ==
    /\ pc = "trace"
    /\ IF NeedsFailureNote
       THEN Remember("failure") \/ UNCHANGED sessionLog
       ELSE UNCHANGED sessionLog
    /\ Goto("publish")
    /\ UNCHANGED <<requestQ, cur, err, reply, iteration, flightVars, replyVars,
                   submitted, finished, observed, outMessages>>

\* publish_out_message_if_requested: the event needs a non-empty text, which is
\* the error message of a failed request; the router may refuse the event.
PublishReply ==
    /\ pc = "publish"
    /\ \/ /\ cur \in PublishOut
          /\ IF reply.status = "ok" THEN reply.text = "answer" ELSE reply.error # "none"
          /\ outMessages' = outMessages \cup {cur}
       \/ UNCHANGED outMessages
    /\ Goto("push")
    /\ UNCHANGED <<requestQ, cur, err, reply, iteration, flightVars, replyVars,
                   submitted, finished, sessionLog, observed>>

\* push_response waits for room without a timeout, unless the queue is skipped.
PushResponse ==
    /\ pc = "push"
    /\ IF cur \in SkipQueue THEN UNCHANGED responseQ
       ELSE /\ Len(responseQ) < ResponseQueueLen
            /\ responseQ' = Append(responseQ, [id |-> cur, reply |-> reply])
    /\ Goto("idle")
    /\ cur' = 0
    /\ UNCHANGED <<requestQ, err, reply, iteration, flightVars, pending, lockOwner,
                   client, delivered, lost, logVars>>

Worker == \/ Dequeue \/ BeginFlight \/ StartRequest \/ BuildContext \/ LlmReturn
          \/ RunTools \/ Complete \/ Disarm \/ ClearFlight \/ FailureTrace
          \/ PublishReply \/ PushResponse

ClientStep(c) == \/ \E r \in Requests : Submit(c, r)
                 \/ \E want \in Requests \cup {0} : ReceiveBegin(c, want)
                 \/ ReceiveItem(c)
                 \/ ReceiveTimeout(c)

Next == \/ Worker
        \/ \E c \in Clients : ClientStep(c)
        \/ \E q \in Requests \cup {0} : Cancel(q)

Spec == Init /\ [][Next]_vars

(* The worker is one task that runs whenever it is ready; a client that      *)
(* submitted always goes on to receive, as submit_and_print does, and its    *)
(* wait is bounded by a timeout.  Submitting and cancelling are the users'   *)
(* choice and get no fairness.                                               *)
FairSpec ==
    /\ Spec
    /\ WF_vars(Worker)
    /\ \A c \in Clients :
         /\ SF_vars(\E want \in Requests \cup {0} : ReceiveBegin(c, want))
         /\ WF_vars(ReceiveItem(c) \/ ReceiveTimeout(c))
-----------------------------------------------------------------------------
(* Properties. *)

TypeOK ==
    /\ requestQ \in Seq(Requests) /\ Len(requestQ) <= RequestQueueLen
    /\ responseQ \in Seq(Response) /\ Len(responseQ) <= ResponseQueueLen
    /\ pending \in Seq(Response)
    /\ lockOwner \in Clients \cup {NoClient}
    /\ inflight \in Requests \cup {0} /\ inflightAbort \in BOOLEAN /\ armed \in BOOLEAN
    /\ pc \in WorkerPcs /\ cur \in Requests \cup {0} /\ err \in {"ok", "fail"}
    /\ reply \in Reply /\ iteration \in 0 .. MaxToolIterations
    /\ client \in [Clients -> [pc : ClientPcs, want : Requests \cup {0}]]
    /\ submitted \in Seq(Requests) /\ finished \in Seq(Response)
    /\ delivered \in [Requests -> Nat]
    /\ lost \subseteq Requests /\ cancelAsked \subseteq Requests
    /\ sessionLog \in [Requests -> Seq({"turn", "failure"})]
    /\ observed \subseteq Requests /\ outMessages \subseteq Requests

\* The cancel path of claw_core_cancel_request and finish_request never hits a
\* bystander: a request ends as "request cancelled" only if a cancel that
\* named it, or named whatever was in flight while it was, was accepted.
CancelHitsOnlyItsTarget ==
    \A i \in DOMAIN finished :
        finished[i].reply.error = "cancelled" => finished[i].id \in cancelAsked

\* And an accepted cancel is never silently forgotten: the addressed request is
\* the one in flight, or it ended, either answered, or cancelled, or in one of
\* the two out-of-memory ends that leave err at ESP_OK.
CancelIsReported ==
    \A r \in cancelAsked :
        \/ inflight = r /\ inflightAbort
        \/ \E i \in DOMAIN finished :
              /\ finished[i].id = r
              /\ \/ finished[i].reply.status = "ok"
                 \/ finished[i].reply.error \in {"cancelled", "no_memory"}

\* claw_core_receive_for never sleeps on the queue while the response it wants
\* already sits in the pending list: another receiver may have parked it there
\* at any time before.
WaiterMissesNothing ==
    \A c \in Clients : client[c].pc = "wait" =>
        \A i \in DOMAIN pending : ~Matches(client[c].want, pending[i])

Copies(seq, r) == Cardinality({i \in DOMAIN seq : seq[i].id = r})

\* A response built for the queue is in exactly one place: still with the
\* worker, queued, pending, with one receiver, or freed for want of memory.
ResponseExactlyOnce ==
    \A r \in Requests \ SkipQueue :
        (\E i \in DOMAIN finished : finished[i].id = r) =>
            (IF cur = r THEN 1 ELSE 0) + Copies(responseQ, r) + Copies(pending, r)
              + delivered[r] + (IF r \in lost THEN 1 ELSE 0) = 1

\* The session never records both the answer and the failure note of one
\* request: err, overwritten by the append, selects one of them.
OneRecordPerRequest ==
    \A r \in Requests : Len(sessionLog[r]) <= 1

\* The note the code writes says "the previous request failed before producing
\* a final answer"; this says that no answered request gets it.
FailureNoteOnlyForFailed ==
    \A i \in DOMAIN finished :
        finished[i].reply.status = "ok" => "failure" \notin ToSet(sessionLog[finished[i].id])

\* The documentation of claw_core_add_completion_observer: the observer gets a
\* summary after each request.
ObserverSeesEveryRequest ==
    \A i \in DOMAIN finished : finished[i].id \in observed

\* push_response waits for room that only receivers make.
WorkerWaits ==
    pc = "push" /\ cur \notin SkipQueue /\ Len(responseQ) = ResponseQueueLen

\* Every accepted request is eventually processed to its end, although the worker may
\* wait for room in the response queue; or it waits for ever, for which the queue must
\* have filled with responses whose receivers all gave up, and nobody receives again.
EveryRequestFinishes ==
    \A r \in Requests :
        (r \in ToSet(submitted)) ~>
            \/ cur # r /\ \E i \in DOMAIN finished : finished[i].id = r
            \/ [](WorkerWaits /\ \A c \in Clients : client[c].pc = "idle")

\* Every receive call returns, although receivers queue for response_lock.
EveryReceiveReturns ==
    \A c \in Clients : (client[c].pc # "idle") ~> (client[c].pc = "idle")

\* Neither the worker nor a receiver hangs: accepted requests are worked off and
\* receive calls return.
NobodyHangs == EveryRequestFinishes /\ EveryReceiveReturns
-----------------------------------------------------------------------------
(* The core as an AgentService: one request at a time, in order. *)

Outcome(resp) == IF resp.reply.status = "ok" THEN "answered"
                 ELSE IF resp.reply.error = "cancelled" THEN "cancelled" ELSE "failed"

Busy == pc \in {"begin", "start", "context", "llm", "tools", "complete", "disarm", "clear"}

Service == INSTANCE AgentService WITH
    Capacity <- RequestQueueLen,
    accepted <- submitted,
    results  <- [i \in DOMAIN finished |-> [id |-> finished[i].id,
                                            outcome |-> Outcome(finished[i])]],
    busy     <- Busy,
    asked    <- inflightAbort

\* claw_core implements the service its header promises (submit, process in
\* submission order, cancel only what is being processed).
ImplementsService == Service!Spec
=============================================================================
