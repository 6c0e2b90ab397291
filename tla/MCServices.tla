------------------------------ MODULE MCServices ------------------------------
(* What carries requests and messages between tasks, on small instances: the  *)
(* router's queue with its table, where ids are shared and slots evicted      *)
(* (EventRouter), scripts that serve HTTP (LuaHttpServer), the pool of HTTP   *)
(* clients (HttpReuse) and the WeChat gateway (WechatGateway).  They share no *)
(* state, so a behaviour is one of one of them.                               *)
EXTENDS MCEventRouter

\* Scripts that serve HTTP, the requests they get.
CONSTANTS AppScripts, AppQueueLen, MaxAsked, MaxAppFaults

\* Tasks that make requests, to servers with their handlers, over a pool of clients.
CONSTANTS NoClient, HttpTasks, HttpClients, HttpConfigs, MaxPool, MaxLeases, MaxPoolFaults

\* What users write over WeChat, how much of it WeChat gives at a time, what the gateway
\* remembers, and what is sent back.
CONSTANTS NoChat, ChatTraffic, BatchLen, SeenLen, ContextLen, StageLimit, CountMax,
          ChatSenders, MaxOrders, MaxSends, MaxChatFaults

VARIABLES part,
    script, registered, requestsOf, gone, root, server, asked, call, served, lost, appFaults,
    client, pool, lease, leases, poolFaults,
    gw, at, batch, seen, contexts, stages, arrived, confirmed, published, console, sender,
    rows, wrong, orders, sends, gwFaults

appVars  == <<script, registered, requestsOf, gone, root, server, asked, call, served, lost,
              appFaults>>
httpVars == <<client, pool, lease, leases, poolFaults>>
chatVars == <<gw, at, batch, seen, contexts, stages, arrived, confirmed, published, console,
              sender, rows, wrong, orders, sends, gwFaults>>

L == INSTANCE LuaHttpServer WITH
         Scripts <- AppScripts, QueueLen <- AppQueueLen, MaxRequests <- MaxAsked,
         MaxFaults <- MaxAppFaults, queue <- requestsOf, faults <- appFaults

ASSUME AppAssumption == MaxAsked \in Nat

H == INSTANCE HttpReuse WITH
         Tasks <- HttpTasks, Clients <- HttpClients, Configs <- HttpConfigs, None <- NoClient,
         MaxFaults <- MaxPoolFaults, faults <- poolFaults

ASSUME PoolAssumption == NoClient \notin HttpClients /\ MaxPool \in Nat

G == INSTANCE WechatGateway WITH
         Traffic <- ChatTraffic, Senders <- ChatSenders, MaxFaults <- MaxChatFaults,
         None <- NoChat, faults <- gwFaults

\* A count that is full is past the notice.
ASSUME ChatAssumption ==
    /\ BatchLen \in Nat /\ SeenLen \in Nat \ {0}
    /\ StageLimit \in Nat /\ CountMax \in Nat /\ StageLimit + 1 < CountMax
    /\ ChatTraffic \in Seq({ChatTraffic[i] : i \in DOMAIN ChatTraffic})

\* An answer that is given again is recognised.  The code's ring is of 64, the length of an
\* answer is up to WeChat.
AnswersFitSeen == BatchLen <= SeenLen

\* A server with two kinds of answers, and another one; messages of two chats.
MCConfigs == {[host |-> "tg", handler |-> "api"], [host |-> "tg", handler |-> "file"],
              [host |-> "llm", handler |-> "api"]}
MCChats   == <<"a", "b">>

Is(name) == part = name /\ UNCHANGED part

ServicesInit ==
    /\ part \in {"router", "apps", "pool", "chats"}
    /\ Init /\ L!Init /\ H!Init /\ G!Init

ServicesNext ==
    \/ Is("router") /\ Next   /\ UNCHANGED <<appVars, httpVars, chatVars>>
    \/ Is("apps")   /\ L!Next /\ UNCHANGED <<vars, httpVars, chatVars>>
    \/ Is("pool")   /\ H!Next /\ UNCHANGED <<vars, appVars, chatVars>>
    \/ Is("chats")  /\ G!Next /\ UNCHANGED <<vars, appVars, httpVars>>

servicesVars == <<part, vars, appVars, httpVars, chatVars>>

ServicesSafe == ServicesInit /\ [][ServicesNext]_servicesVars

\* The fairness is that of the modules, each for its own behaviours.
ServicesFair ==
    /\ WF_vars(Is("router") /\ RouterTask)
    /\ \A p \in Publishers : SF_vars(Is("router") /\ Publish(p))
    /\ WF_appVars(Is("apps") /\ L!Answer) /\ WF_appVars(Is("apps") /\ L!TimesOut)
    /\ \A s \in AppScripts : WF_appVars(Is("apps") /\ L!Run(s))

ServicesSpec == ServicesSafe /\ ServicesFair

\* EventRouter: publish calls settle and the mutex is given back; LuaHttpServer: a
\* request that was taken is answered.
ServicesMove == (part = "router" => RouterMoves) /\ L!Completes
\* LuaHttpServer: one app has an id at a time, and no request is answered after it was
\* freed or left on the queue of an app that is gone.  HttpReuse: a client is leased to
\* one task at a time, for its server, never destroyed under it nor forgotten, and a
\* request is sent again once at most.
HttpInOrder == L!OneApp /\ L!RequestsInOrder /\ H!ClientsInOrder /\ H!SentAgainOnce
\* HttpReuse: "so this lease matches @p cfg": the answer of a request goes to its own
\* handler.  It does not hold, and Services.cfg leaves it out.
LeaseMatchesConfig == H!LeaseMatchesConfig
\* WechatGateway: messages are published once and in order, the poll task never works
\* with freed state, and a row of stage messages has its limit.
ChatsInOrder == G!PublishedInOrder /\ G!PollerHasState /\ G!StageRowsBounded
=============================================================================
