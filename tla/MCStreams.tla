------------------------------- MODULE MCStreams -------------------------------
(* What is passed on piece by piece, on small instances: a script's log to    *)
(* its readers (LogRing), Telegram's updates, QQ's frames and Feishu's events *)
(* to the router (TelegramGateway, QQGateway, FeishuGateway), and the state   *)
(* of a login to the web page (WechatLogin).  They share no state, so a       *)
(* behaviour is one of one of them while the others stay as they begin.       *)
EXTENDS LogRing

\* Telegram: what users send, the places for attachments, the ids its ring remembers, the
\* updates of an answer.
CONSTANTS TgTraffic, TgQueueLen, TgRingLen, TgBatchLen, MaxTgOrders, MaxTgFaults, MaxCuts

ASSUME TgAssumption ==
    /\ TgTraffic \in Seq({TgTraffic[i] : i \in DOMAIN TgTraffic})
    /\ TgRingLen \in Nat \ {0} /\ TgBatchLen \in Nat

\* What an answer that comes again brings is recognised.  The code's ring is of 64, and it
\* leaves the length of an answer to Telegram, which sends up to 100.
AnswersFitRing == TgBatchLen <= TgRingLen

\* QQ and Feishu alike; WeChat's logins go through so many codes each.
CONSTANTS QQTraffic, QQQueueLen, QQRingLen, MaxQQOrders, MaxQQFaults,
          FsTraffic, FsQueueLen, FsRingLen, MaxFsOrders, MaxFsFaults,
          MaxRefresh, MaxStarts, MaxLoginFaults

ASSUME QQAssumption ==
    /\ QQTraffic \in Seq({QQTraffic[i] : i \in DOMAIN QQTraffic})
    /\ QQRingLen \in Nat \ {0}

ASSUME FsAssumption ==
    /\ FsTraffic \in Seq({FsTraffic[i] : i \in DOMAIN FsTraffic})
    /\ FsRingLen \in Nat \ {0} /\ FsQueueLen \in Nat /\ MaxFsFaults \in Nat

VARIABLES part,
    sent, confirmed, offset, cache, slot, poll, tgAsked, batch, alive, hand, attached,
    jobs, queue, stop, on, oper, orders, tgFaults, cuts, texts, saved, handled, overrun,
    pushed, ready, greeted, up, ws, client, conns, connected, identify, reconnect,
    frames, qqQueue, inbound, loading, seen, place, qqStop, qqOn, qqOper, qqOrders,
    qqFaults, published, deaf, doubled,
    fsPushed, acked, fsWs, fsLive, fsUp, fsJobs, fsQueue, loader, fsAttached, fsRing, fsSlot,
    fsStop, fsOn, fsOper, fsOrders, fsFaults, fsTexts, files, disk, tried,
    late,
    qr, old, handle, at, asked, result, http, issued, codes, starts, faults

logVars   == vars
tgVars    == <<sent, confirmed, offset, cache, slot, poll, tgAsked, batch, alive, hand,
               attached, jobs, queue, stop, on, oper, orders, tgFaults, cuts, texts,
               saved, handled, overrun>>
qqVars    == <<pushed, ready, greeted, up, ws, client, conns, connected, identify,
               reconnect, frames, qqQueue, inbound, loading, seen, place, qqStop, qqOn,
               qqOper, qqOrders, qqFaults, published, deaf, doubled>>
fsVars    == <<fsPushed, acked, fsWs, fsLive, fsUp, fsJobs, fsQueue, loader, fsAttached,
               fsRing, fsSlot, fsStop, fsOn, fsOper, fsOrders, fsFaults, fsTexts, files,
               disk, tried, late>>
loginVars == <<qr, old, handle, at, asked, result, http, issued, codes, starts, faults>>

\* An update without a message comes again until one follows; the last message pushes the
\* first out of the cache.
MCTgTraffic == <<"other", "photo", "text", "text">>
T == INSTANCE TelegramGateway WITH
        Traffic <- TgTraffic, QueueLen <- TgQueueLen, RingLen <- TgRingLen,
        BatchLen <- TgBatchLen, MaxOrders <- MaxTgOrders, MaxFaults <- MaxTgFaults,
        asked <- tgAsked, ring <- cache, faults <- tgFaults

\* A photo keeps the inbound task busy while the next frames find the queue full.
MCQQTraffic == <<"photo", "text", "text">>
Q == INSTANCE QQGateway WITH
        Traffic <- QQTraffic, QueueLen <- QQQueueLen, RingLen <- QQRingLen,
        MaxOrders <- MaxQQOrders, MaxFaults <- MaxQQFaults,
        queue <- qqQueue, attached <- loading, ring <- seen, slot <- place, stop <- qqStop,
        on <- qqOn, oper <- qqOper, orders <- qqOrders, faults <- qqFaults, overrun <- doubled

\* A text with two pictures fills the queue, a file and a text with two files of one name
\* follow.
MCFsTraffic == <<"post", "file", "files">>
Fs == INSTANCE FeishuGateway WITH
        Traffic <- FsTraffic, QueueLen <- FsQueueLen, RingLen <- FsRingLen,
        MaxOrders <- MaxFsOrders, MaxFaults <- MaxFsFaults,
        pushed <- fsPushed, ws <- fsWs, live <- fsLive, up <- fsUp, jobs <- fsJobs,
        queue <- fsQueue, attached <- fsAttached, ring <- fsRing, slot <- fsSlot,
        stop <- fsStop, on <- fsOn, oper <- fsOper, orders <- fsOrders,
        faults <- fsFaults, texts <- fsTexts

\* In the run two logins of two codes each, with as many faults as the leaving of a
\* handle takes.
W == INSTANCE WechatLogin WITH MaxFaults <- MaxLoginFaults, answer <- result

Is(name) == part = name /\ UNCHANGED part

StreamsInit ==
    /\ part \in {"log", "telegram", "qq", "feishu", "login"}
    /\ Init /\ T!Init /\ Q!Init /\ Fs!Init /\ W!Init

StreamsNext ==
    \/ Is("log")      /\ Next    /\ UNCHANGED <<tgVars, qqVars, fsVars, loginVars>>
    \/ Is("telegram") /\ T!Next  /\ UNCHANGED <<logVars, qqVars, fsVars, loginVars>>
    \/ Is("qq")       /\ Q!Next  /\ UNCHANGED <<logVars, tgVars, fsVars, loginVars>>
    \/ Is("feishu")   /\ Fs!Next /\ UNCHANGED <<logVars, tgVars, qqVars, loginVars>>
    \/ Is("login")    /\ W!Next  /\ UNCHANGED <<logVars, tgVars, qqVars, fsVars>>

streamsVars == <<part, logVars, tgVars, qqVars, fsVars, loginVars>>

StreamsSafe == StreamsInit /\ [][StreamsNext]_streamsVars

\* The fairness is that of the modules, each for its own behaviours.
StreamsSpec ==
    /\ StreamsSafe
    /\ WF_tgVars(Is("telegram") /\ T!Poll) /\ WF_tgVars(Is("telegram") /\ T!Wait)
    /\ \A k \in 1..2 : WF_tgVars(Is("telegram") /\ T!Load(k))
    /\ WF_qqVars(Is("qq") /\ Q!Thread) /\ WF_qqVars(Is("qq") /\ Q!Socket)
    /\ WF_qqVars(Is("qq") /\ Q!Wait) /\ \A k \in 1..2 : WF_qqVars(Is("qq") /\ Q!Handle(k))
    /\ WF_fsVars(Is("feishu") /\ Fs!Connects) /\ WF_fsVars(Is("feishu") /\ Fs!Socket)
    /\ WF_fsVars(Is("feishu") /\ Fs!Load) /\ WF_fsVars(Is("feishu") /\ Fs!Wait)
    /\ WF_loginVars(Is("login") /\ W!StartEnds) /\ WF_loginVars(Is("login") /\ W!TimePasses)
    /\ \A k \in 1..2 : WF_loginVars(Is("login") /\ W!Step(k))

\* TelegramGateway, QQGateway, FeishuGateway: nothing is published twice, Telegram is
\* told to forget nothing unseen, and a saved file stays what it was published as until
\* another of its message takes its name.
HandledOnce == T!HandledOnce /\ T!ForgottenWasHandled /\ Q!PublishedOnce
                    /\ Fs!PublishedOnce /\ Fs!FilesStay
\* TelegramGateway, QQGateway, FeishuGateway: no task outlives its queue nor meets a
\* second one unless a stop timed out.  WechatLogin: one task polls for logins.
WorkersInOrder == T!QueueOutlivesTasks /\ Q!OneHandler /\ Fs!QueueOutlivesTask /\ W!OnePoller
\* A message does not wait for ever for the poll, a file for its task, a stop for the
\* tasks, the bot for being known to its platform nor a login for its code.
PollingEnds == T!WaitsEnd /\ Q!WaitsEnd /\ W!LoginsEnd
                    /\ (part = "feishu" => Fs!WaitsEnd)
=============================================================================
