----------------------------- MODULE WechatGateway -----------------------------
(* The WeChat gateway (cap_im_wechat.c): a task polls for messages, keeps the *)
(* position it has read to, and publishes what is new; other tasks send text, *)
(* of which only so many stage messages in a row; the console configures,     *)
(* starts and stops the gateway.  A stop that succeeds frees all its state.   *)
(* The login by QR code is WechatLogin; attachments are left out, and so are  *)
(* more chats than the limiter has entries for.                               *)
EXTENDS Naturals, Sequences, SequencesExt, FiniteSets

CONSTANTS
    Traffic,      \* the chat of every message, in the order WeChat has them
    BatchLen,     \* messages WeChat gives at a time
    SeenLen,      \* CAP_IM_WECHAT_DEDUP_CACHE_SIZE
    ContextLen,   \* CAP_IM_WECHAT_CONTEXT_CACHE_SIZE
    StageLimit,   \* CAP_IM_WECHAT_STAGE_LIMIT
    CountMax,     \* UINT8_MAX
    Senders, MaxOrders, MaxSends, MaxFaults,
    None

Chats == {Traffic[i] : i \in DOMAIN Traffic}

VARIABLES
    gw,         \* s_wechat: alive (allocated), configured, stop, task (poll_task), sync
    at, batch,  \* the poll task, and the messages of its answer yet to be processed
    seen,       \* seen_msg_keys, the newest last
    contexts,   \* context_cache: [chat, token], the token named by its message
    stages,     \* consecutive_stage_count of each chat
    arrived, confirmed, \* messages WeChat has, and those it will not give again
    published,  \* what the router was given since the state was allocated
    console, sender, rows, wrong, \* orders, sends; ghosts: what was sent since the last
                \* reply, and whether a message went out with another chat's token
    orders, sends, faults

polls == <<at, batch, seen, arrived, confirmed, published>>
talks == <<stages, sender, rows, wrong, sends>>
gvars == <<gw, polls, contexts, console, talks, orders, faults>>

Fault   == faults < MaxFaults /\ faults' = faults + 1
Fresh   == [alive |-> TRUE, configured |-> FALSE, stop |-> FALSE, task |-> FALSE, sync |-> 0]
Freed   == [Fresh EXCEPT !.alive = FALSE]
NoSlots == [i \in 1..ContextLen |-> [chat |-> None, token |-> 0]]
NoRow   == [stage |-> 0, notice |-> 0, missed |-> 0]
Quiet   == [at |-> "idle", chat |-> None]
-----------------------------------------------------------------------------
(* The poll task.                                                             *)

\* cap_im_wechat_poll_task: stop is looked at between polls only.
Top ==
    /\ at = "top"
    /\ \/ gw.stop /\ at' = "off" /\ gw' = [gw EXCEPT !.task = FALSE]
       \/ ~gw.stop /\ gw.configured /\ at' = "ask" /\ UNCHANGED gw
    /\ UNCHANGED <<batch, seen, arrived, confirmed, published, contexts, console, talks,
                   orders, faults>>

\* Asked from no position WeChat gives what was not confirmed by a later one.
From      == IF gw.sync = 0 THEN confirmed ELSE gw.sync
Upto      == IF From + BatchLen < arrived THEN From + BatchLen ELSE arrived
Confirmed == confirmed' = From

\* cap_im_wechat_poll_once, with an answer or when its time is over; the position
\* is kept before the messages are looked at.
Polled ==
    /\ at = "ask" /\ Confirmed
    /\ at' = "process" /\ batch' = [i \in 1..(Upto - From) |-> From + i]
    /\ \/ gw' = [gw EXCEPT !.sync = Upto] /\ UNCHANGED faults
       \/ Upto > From /\ Fault /\ UNCHANGED gw            \* an answer without a position
    /\ UNCHANGED <<seen, arrived, published, contexts, console, talks, orders>>

\* The request or its answer is lost, or there is no memory for the position.
PollFails ==
    /\ at = "ask" /\ Fault /\ at' = "top" /\ confirmed' \in {confirmed, From}
    /\ UNCHANGED <<gw, batch, seen, arrived, published, contexts, console, talks, orders>>

\* cap_im_wechat_dedup_check_and_record
Seen(m) == \E i \in DOMAIN seen : seen[i] = m
Remembered(m) ==
    seen' = IF Seen(m) THEN seen
            ELSE Append(IF Len(seen) < SeenLen THEN seen ELSE Tail(seen), m)

SlotOf(chat) == SelectInSeq(contexts, LAMBDA slot : slot.chat = chat)

\* cap_im_wechat_process_message up to the first strlcpy of context_remember: the
\* token of a chat that is known is replaced, otherwise a slot gets the chat's name,
\* the slot used longest ago when all are used.
Process ==
    /\ at = "process" /\ batch # <<>>
    /\ LET m == Head(batch)
           chat == Traffic[m]
           slot == SlotOf(chat)
       IN /\ Remembered(m)
          /\ \/ /\ Seen(m) /\ batch' = Tail(batch) /\ UNCHANGED <<at, contexts>>
             \/ /\ ~Seen(m) /\ slot # 0 /\ at' = "publish" /\ UNCHANGED batch
                /\ contexts' = [contexts EXCEPT ![slot].token = m]
             \/ /\ ~Seen(m) /\ slot = 0 /\ at' = "token" /\ UNCHANGED batch
                /\ contexts' = Append(Tail(contexts), [Head(contexts) EXCEPT !.chat = chat])
    /\ UNCHANGED <<gw, arrived, confirmed, published, console, talks, orders, faults>>

\* The second strlcpy: until then the slot has the token of the chat before.
Token ==
    /\ at = "token" /\ at' = "publish"
    /\ contexts' = [contexts EXCEPT ![ContextLen].token = Head(batch)]
    /\ UNCHANGED <<gw, batch, seen, arrived, confirmed, published, console, talks, orders,
                   faults>>

\* The rest of the message; one that the router has no room for is gone.
Publish ==
    /\ at = "publish" /\ at' = "process" /\ batch' = Tail(batch)
    /\ \/ published' = Append(published, Head(batch)) /\ UNCHANGED faults
       \/ Fault /\ UNCHANGED published
    /\ UNCHANGED <<gw, seen, arrived, confirmed, contexts, console, talks, orders>>

PollEnds ==
    /\ at = "process" /\ batch = <<>> /\ at' = "top"
    /\ UNCHANGED <<gw, batch, seen, arrived, confirmed, published, contexts, console, talks,
                   orders, faults>>

Polls == Top \/ Polled \/ PollFails \/ Process \/ Token \/ Publish \/ PollEnds

Arrives ==
    /\ arrived < Len(Traffic) /\ arrived' = arrived + 1
    /\ UNCHANGED <<gw, at, batch, seen, confirmed, published, contexts, console, talks, orders,
                   faults>>
-----------------------------------------------------------------------------
(* The console: configure, start and stop, one command at a time.             *)

Order(step) == console = "idle" /\ orders < MaxOrders /\ orders' = orders + 1 /\ console' = step

\* cap_im_wechat_set_client_config
Configure ==
    /\ Order("idle")
    /\ gw' = [(IF gw.alive THEN gw ELSE Fresh) EXCEPT !.configured = TRUE]
    /\ UNCHANGED <<polls, contexts, talks, faults>>

\* cap_im_wechat_gateway_start: nothing when there is a task still.
Start ==
    /\ Order("idle")
    /\ IF gw.task THEN UNCHANGED <<gw, at>>
       ELSE /\ at' = "top"
            /\ gw' = [(IF gw.alive THEN gw ELSE Fresh) EXCEPT !.stop = FALSE, !.task = TRUE]
    /\ UNCHANGED <<batch, seen, arrived, confirmed, published, contexts, talks, faults>>

\* cap_im_wechat_gateway_stop up to its wait.
Stop ==
    /\ Order("stop") /\ gw.alive /\ gw' = [gw EXCEPT !.stop = TRUE]
    /\ UNCHANGED <<polls, contexts, talks, faults>>

\* mutant: what a task did not leave in time is freed.
FreesAnyway == TRUE

MayFree == ~gw.task

\* The end of the wait: five seconds, while a poll takes up to forty.
Stopped ==
    /\ console = "stop" /\ console' = "idle"
    /\ IF MayFree
       THEN /\ gw' = Freed /\ seen' = <<>> /\ contexts' = NoSlots /\ published' = <<>>
            /\ stages' = [c \in Chats |-> 0] /\ rows' = [c \in Chats |-> NoRow]
       ELSE UNCHANGED <<gw, seen, contexts, published, stages, rows>>
    /\ UNCHANGED <<at, batch, arrived, confirmed, sender, wrong, orders, sends, faults>>

Console == Configure \/ Start \/ Stop \/ Stopped
-----------------------------------------------------------------------------
(* Tasks that send: stage messages of the agent, and its replies.             *)

\* mutant: the count starts again when it is full.
Wraps(n) == IF n < CountMax THEN n + 1 ELSE 0

Counted(n) == IF n < CountMax THEN n + 1 ELSE n

Sends(s, next) ==
    /\ sender[s].at = "idle" /\ sends < MaxSends /\ sends' = sends + 1
    /\ sender' = [sender EXCEPT ![s] = next]
To(chat) == [at |-> "send", chat |-> chat]

\* cap_im_wechat_stage_send_mode_for_event, under the lock: the message itself, the
\* notice that no more will come, or nothing.
Stage(s, chat) ==
    LET n == Counted(stages[chat])
        row == rows[chat]
    IN /\ stages' = [stages EXCEPT ![chat] = n]
       /\ \/ /\ n <= StageLimit /\ Sends(s, To(chat))
             /\ rows' = [rows EXCEPT ![chat].stage = @ + 1]
          \/ /\ n = StageLimit + 1 /\ Sends(s, To(chat))
             /\ rows' = [rows EXCEPT ![chat].notice = @ + 1]
          \/ n > StageLimit + 1 /\ Sends(s, Quiet) /\ UNCHANGED rows
       /\ UNCHANGED faults

\* The lock is not had within a second: the message is sent and not counted.
StageUncounted(s, chat) ==
    /\ Fault /\ Sends(s, To(chat)) /\ UNCHANGED stages
    /\ rows' = [rows EXCEPT ![chat].stage = @ + 1, ![chat].missed = @ + 1]

Reply(s, chat) ==
    /\ Sends(s, To(chat)) /\ stages' = [stages EXCEPT ![chat] = 0]
    /\ rows' = [rows EXCEPT ![chat] = NoRow] /\ UNCHANGED faults

\* cap_im_wechat_send_message_execute up to the limiter's answer; the lock allocates
\* the state again when it was freed.
Decide(s) ==
    /\ gw' = IF gw.alive THEN gw ELSE Fresh
    /\ \E chat \in Chats : Stage(s, chat) \/ StageUncounted(s, chat) \/ Reply(s, chat)
    /\ UNCHANGED <<polls, contexts, console, wrong, orders>>

\* cap_im_wechat_context_lookup
TokenFor(chat) == IF SlotOf(chat) = 0 THEN 0 ELSE contexts[SlotOf(chat)].token

ForeignToken(chat) == TokenFor(chat) # 0 /\ Traffic[TokenFor(chat)] # chat

\* cap_im_wechat_send_text: refused unless configured; its chunks are one.
Send(s) ==
    /\ sender[s].at = "send" /\ sender' = [sender EXCEPT ![s] = Quiet]
    /\ gw' = IF gw.alive THEN gw ELSE Fresh
    /\ wrong' = (wrong \/ (gw.configured /\ ForeignToken(sender[s].chat)))
    /\ UNCHANGED <<polls, contexts, console, stages, rows, sends, orders, faults>>
-----------------------------------------------------------------------------
\* The device booted: configured, started.
Init ==
    /\ gw = [Fresh EXCEPT !.configured = TRUE, !.task = TRUE] /\ at = "top" /\ batch = <<>>
    /\ seen = <<>> /\ contexts = NoSlots /\ stages = [c \in Chats |-> 0]
    /\ arrived = 0 /\ confirmed = 0 /\ published = <<>> /\ console = "idle"
    /\ sender = [s \in Senders |-> Quiet] /\ rows = [c \in Chats |-> NoRow] /\ wrong = FALSE
    /\ orders = 0 /\ sends = 0 /\ faults = 0

Next == Polls \/ Arrives \/ Console \/ \E s \in Senders : Decide(s) \/ Send(s)

GatewaySpec == Init /\ [][Next]_gvars
-----------------------------------------------------------------------------
TypeOK ==
    /\ gw.sync \in 0..Len(Traffic) /\ stages \in [Chats -> 0..CountMax]
    /\ at \in {"off", "top", "ask", "process", "token", "publish"}

\* While the gateway lives a message is published once, and in the order WeChat has
\* them, through lost answers and answers without a position.
PublishedInOrder ==
    \A i, j \in DOMAIN published : i < j => published[i] < published[j]

\* The state the poll task works with is never freed under it.
PollerHasState == at # "off" => gw.alive /\ gw.task

\* From one reply to the next a chat is sent no more stage messages than the limit,
\* those aside that missed the lock, and one notice.
StageRowsBounded ==
    \A c \in Chats : rows[c].stage <= StageLimit + rows[c].missed /\ rows[c].notice <= 1

\* A start that succeeds leaves a gateway that polls; not so after a stop that did
\* not wait long enough.
StartMeansPolling == (console = "idle" /\ gw.task) => ~gw.stop

\* A stop and a start bring back the gateway that was configured; they do not.
StaysConfigured == gw.task => gw.configured

\* A message goes out with the token of its own chat; not so while a slot changes hands.
OwnToken == ~wrong

\* Nobody is in the middle of sending when the state is freed.
NoUseAfterFree == ~gw.alive => \A s \in Senders : sender[s].at = "idle"
=============================================================================
