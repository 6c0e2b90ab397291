----------------------------- MODULE WifiManager -----------------------------
(* The Wi-Fi manager (wifi_manager.c): one state kept by the event task, the  *)
(* reconnect timer and whoever applies a configuration or scans, without a    *)
(* lock, over a driver that reports by events some time later.                *)
EXTENDS Naturals, Sequences, FiniteSets

CONSTANTS
    Callers,      \* tasks that apply, wait or scan: the setup worker, the console
    Boot,         \* configurations saved: [net, close], net "" for none
    Configs,      \* configurations applied later
    Joinable,     \* networks that accept the password
    MaxRetry,     \* 5 in the code, unless configured
    MaxCalls, MaxFaults

VARIABLES
    mode, station, target, events,  \* the driver: its mode, what the station does,
    gone,                           \* its network, events not handled yet; whether
                                    \* the networks are out of reach
    configured, connected, active,  \* s_sta_configured, s_connected, s_ap_active
    closes, retries, timer,         \* ap_behavior, s_retry_count, s_reconnect_timer
    bits,                           \* s_wifi_event_group
    told, lastActive,               \* what the callback was told, s_last_ap_active
    handler,                        \* the event task between two of its calls
    caller, was, result,            \* each caller's place, was_connected, its answer
    wants, calls, faults,           \* the network last asked for; bounds
    joinedFor                       \* callers whose network was joined meanwhile

driver == <<mode, station, target, events, gone>>
shared == <<configured, connected, active, closes, retries, timer, bits>>
notes  == <<told, lastActive>>
local  == <<caller, was, result, wants>>
wvars  == <<driver, shared, notes, handler, local, calls, faults, joinedFor>>

Idle == [at |-> "idle", config |-> [net |-> "", close |-> FALSE], mode |-> ""]
-----------------------------------------------------------------------------
(* The driver.                                                                *)

HasAP(m)  == m \in {"ap", "apsta"}
HasSTA(m) == m \in {"sta", "apsta"}

\* esp_wifi_set_mode(m)
SetMode(m) ==
    /\ mode' = m /\ UNCHANGED gone
    /\ station' = IF HasSTA(m) THEN station ELSE "idle"
    /\ events' = events
          \o (IF ~HasSTA(m) /\ station = "joined" THEN <<"lost">> ELSE <<>>)
          \o (IF HasSTA(m) /\ ~HasSTA(mode) THEN <<"start">> ELSE <<>>)
          \o (IF HasAP(m) /\ ~HasAP(mode) THEN <<"ap_start">> ELSE <<>>)
          \o (IF ~HasAP(m) /\ HasAP(mode) THEN <<"ap_stop">> ELSE <<>>)

\* esp_wifi_connect: an error without a station or when it is connected.
Connected(s, m) == IF HasSTA(m) /\ s = "idle" THEN "trying" ELSE s

\* The station joins its network or is refused.
Joins ==
    /\ station = "trying"
    /\ IF target \in Joinable /\ ~gone
       THEN /\ station' = "joined" /\ events' = Append(events, "got_ip")
            /\ joinedFor' = joinedFor \cup {c \in Callers : caller[c].config.net = target}
       ELSE station' = "idle" /\ events' = Append(events, "lost") /\ UNCHANGED joinedFor
    /\ UNCHANGED <<mode, target, gone, shared, notes, handler, local, calls, faults>>

\* For a moment or for good.
LinkBreaks ==
    /\ station \in {"trying", "joined"} /\ faults < MaxFaults /\ faults' = faults + 1
    /\ station' = "idle" /\ events' = Append(events, "lost") /\ gone' \in {gone, TRUE}
    /\ UNCHANGED <<mode, target, shared, notes, handler, local, calls, joinedFor>>
-----------------------------------------------------------------------------
(* notify_state_changed, with the state it finds.                             *)

Notify(force, isConnected, isActive) ==
    IF force \/ told # isConnected \/ lastActive # isActive
    THEN told' = isConnected /\ lastActive' = isActive
    ELSE UNCHANGED notes
-----------------------------------------------------------------------------
(* wifi_event_handler, on the event task.                                     *)

Event(e) == handler = "wait" /\ events # <<>> /\ Head(events) = e

OnStart ==
    /\ Event("start") /\ events' = Tail(events)
    /\ station' = IF configured THEN Connected(station, mode) ELSE station
    /\ UNCHANGED <<mode, target, gone, shared, notes, handler, local, calls, faults, joinedFor>>

\* WIFI_EVENT_STA_DISCONNECTED: a retry by the timer, or the fallback.
OnLost ==
    /\ Event("lost") /\ events' = Tail(events)
    /\ connected' = FALSE
    /\ IF connected THEN Notify(FALSE, FALSE, active) ELSE UNCHANGED notes
    /\ IF configured /\ retries < MaxRetry
       THEN /\ retries' = retries + 1 /\ timer' = TRUE
            /\ UNCHANGED <<configured, bits, handler>>
       ELSE IF configured
       THEN /\ bits' = bits \cup {"fail"} /\ retries' = 0
            /\ configured' = FALSE /\ handler' = "fallback" /\ UNCHANGED timer
       ELSE UNCHANGED <<configured, retries, timer, bits, handler>>
    /\ UNCHANGED <<mode, station, target, gone, active, closes, local, calls, faults, joinedFor>>

\* mutant: the access point is taken for still up.
SameMode == mode

\* fallback_to_ap from its first call of the driver.
FallbackMode == "ap"
FallsBack ==
    /\ handler = "fallback" /\ handler' = "wait"
    /\ SetMode(FallbackMode) /\ Notify(TRUE, connected, active)
    /\ UNCHANGED <<target, shared, local, calls, faults, joinedFor>>

OnAP ==
    /\ \E e \in {"ap_start", "ap_stop"} :
          /\ Event(e) /\ events' = Tail(events)
          /\ active' = (e = "ap_start") /\ Notify(TRUE, connected, active')
    /\ UNCHANGED <<mode, station, target, gone, configured, connected, closes, retries, timer, bits,
                   handler, local, calls, faults, joinedFor>>

\* IP_EVENT_STA_GOT_IP up to the test whether the AP is to be closed.
OnIp ==
    /\ Event("got_ip") /\ events' = Tail(events)
    /\ connected' = TRUE /\ retries' = 0
    /\ handler' = IF closes /\ active THEN "close" ELSE "connected"
    /\ UNCHANGED <<mode, station, target, gone, configured, active, closes, timer, bits, notes, local,
                   calls, faults, joinedFor>>

ClosesAP ==
    /\ handler = "close" /\ handler' = "connected"
    /\ SetMode("sta") /\ active' = FALSE
    /\ UNCHANGED <<target, configured, connected, closes, retries, timer, bits, notes, local,
                   calls, faults, joinedFor>>

Tells ==
    /\ handler = "connected" /\ handler' = "wait"
    /\ bits' = bits \cup {"connected"} /\ Notify(TRUE, connected, active)
    /\ UNCHANGED <<driver, configured, connected, active, closes, retries, timer, local, calls,
                   faults, joinedFor>>

EventTask == OnStart \/ OnLost \/ FallsBack \/ OnAP \/ OnIp \/ ClosesAP \/ Tells

\* reconnect_timer_cb, on the timer task.
TimerFires ==
    /\ timer /\ timer' = FALSE
    /\ station' = IF configured THEN Connected(station, mode) ELSE station
    /\ UNCHANGED <<mode, target, gone, events, configured, connected, active, closes, retries, bits,
                   notes, handler, local, calls, faults, joinedFor>>
-----------------------------------------------------------------------------
(* wifi_manager_apply_sta_config by caller c.                                 *)

At(c, place)   == caller[c].at = place
Goto(c, place) == caller' = [caller EXCEPT ![c].at = place]

Apply(c) ==
    /\ At(c, "idle") /\ calls < MaxCalls /\ calls' = calls + 1
    /\ \E config \in Configs :
          /\ caller' = [caller EXCEPT ![c] = [at |-> "configure", config |-> config, mode |-> ""]]
          /\ wants' = config.net
    /\ was' = [was EXCEPT ![c] = connected] /\ result' = [result EXCEPT ![c] = ""]
    /\ joinedFor' = joinedFor \ {c}
    /\ UNCHANGED <<driver, shared, notes, handler, faults>>

\* reset_sta_runtime_state
Reset == connected' = FALSE /\ retries' = 0 /\ bits' = {}

\* configure_sta_mode up to its first call of the driver.
Configure(c) ==
    /\ At(c, "configure") /\ Goto(c, "mode") /\ Reset
    /\ configured' = (caller[c].config.net # "") /\ closes' = caller[c].config.close
    /\ timer' = FALSE
    /\ UNCHANGED <<driver, active, notes, handler, was, result, wants, calls, faults, joinedFor>>

\* The mode and the network; whether the caller was told goes by what it read.
SetUp(c) ==
    /\ At(c, "mode")
    /\ SetMode(IF configured THEN "apsta" ELSE "ap")
    /\ target' = IF configured THEN caller[c].config.net ELSE target
    /\ IF was[c] THEN Notify(FALSE, connected, active) ELSE UNCHANGED notes
    /\ IF configured THEN Goto(c, "disconnect") /\ UNCHANGED result
       ELSE Goto(c, "idle") /\ result' = [result EXCEPT ![c] = "ok"]
    /\ UNCHANGED <<shared, handler, was, wants, calls, faults, joinedFor>>

Disconnect(c) ==
    /\ At(c, "disconnect") /\ Goto(c, "connect")
    /\ station' = "idle"
    /\ events' = IF station = "idle" THEN events ELSE Append(events, "lost")
    /\ UNCHANGED <<mode, target, gone, shared, notes, handler, was, result, wants, calls, faults,
                   joinedFor>>

\* The console returns here, the setup worker goes on to wait.
Connect(c) ==
    /\ At(c, "connect") /\ station' = Connected(station, mode)
    /\ \/ Goto(c, "wait") /\ UNCHANGED result
       \/ Goto(c, "idle") /\ result' = [result EXCEPT ![c] = "ok"]
    /\ UNCHANGED <<mode, target, gone, events, shared, notes, handler, was, wants, calls, faults,
                   joinedFor>>

\* wifi_manager_wait_connected: a bit, the time limit, or nothing to wait for.
Waited(c) ==
    /\ At(c, "wait") /\ Goto(c, "idle")
    /\ result' = [result EXCEPT ![c] =
          IF configured /\ "connected" \in bits THEN "connected" ELSE "timeout"]
    /\ UNCHANGED <<driver, shared, notes, handler, was, wants, calls, faults, joinedFor>>

-----------------------------------------------------------------------------
(* wifi_manager_scan_aps by caller c.                                         *)

Scan(c) ==
    /\ At(c, "idle") /\ calls < MaxCalls /\ calls' = calls + 1
    /\ caller' = [caller EXCEPT ![c] = [Idle EXCEPT !.at = "scan", !.mode = mode]]
    /\ IF mode = "ap" THEN SetMode("apsta") ELSE UNCHANGED <<mode, station, events, gone>>
    /\ UNCHANGED <<target, shared, notes, handler, was, result, wants, faults, joinedFor>>

\* The mode of before is restored if the scan changed it.
Scanned(c) ==
    /\ At(c, "scan") /\ Goto(c, "idle")
    /\ IF caller[c].mode = "ap" THEN SetMode("ap") ELSE UNCHANGED <<mode, station, events, gone>>
    /\ UNCHANGED <<target, shared, notes, handler, was, result, wants, calls, faults, joinedFor>>

Goes(c) == Configure(c) \/ SetUp(c) \/ Disconnect(c) \/ Connect(c) \/ Waited(c) \/ Scanned(c)
-----------------------------------------------------------------------------
\* After wifi_manager_start with a saved network or without one.
Init ==
    /\ \E config \in Boot :
          /\ mode = IF config.net # "" THEN "apsta" ELSE "ap"
          /\ target = config.net /\ wants = config.net
          /\ events = (IF config.net # "" THEN <<"start">> ELSE <<>>) \o <<"ap_start">>
          /\ configured = (config.net # "") /\ closes = config.close
    /\ station = "idle" /\ gone = FALSE /\ connected = FALSE /\ active = FALSE
    /\ retries = 0 /\ timer = FALSE /\ bits = {}
    /\ told = FALSE /\ lastActive = FALSE /\ handler = "wait"
    /\ caller = [c \in Callers |-> Idle] /\ was = [c \in Callers |-> FALSE]
    /\ result = [c \in Callers |-> ""] /\ calls = 0 /\ faults = 0 /\ joinedFor = {}

Next ==
    \/ Joins \/ LinkBreaks \/ EventTask \/ TimerFires
    \/ \E c \in Callers : Apply(c) \/ Scan(c) \/ Goes(c)

\* The driver answers, events are handled, the timer fires and calls go on.
FairSpec ==
    /\ Init /\ [][Next]_wvars
    /\ WF_wvars(Joins) /\ WF_wvars(EventTask) /\ WF_wvars(TimerFires)
    /\ \A c \in Callers : WF_wvars(Goes(c))
-----------------------------------------------------------------------------
TypeOK ==
    /\ mode \in {"ap", "sta", "apsta"} /\ station \in {"idle", "trying", "joined"}
    /\ HasSTA(mode) \/ station = "idle"
    /\ handler \in {"wait", "fallback", "close", "connected"}
    /\ retries \in 0..MaxRetry /\ bits \subseteq {"connected", "fail"}

\* One gets at the device over its network or its access point, again and again:
\* whatever becomes of the network, and though configurations are applied and
\* networks scanned while events of before are still on their way.
Reachable == []<>(station = "joined" \/ HasAP(mode))

Calm == events = <<>> /\ handler = "wait" /\ \A c \in Callers : At(c, "idle")

\* Once all has calmed down a device with a network is shown to have it.
OnlineIsTold == Calm /\ connected => told

\* The same of a device without; not so when the network comes while a
\* configuration is applied, between the reading and the resetting of its state.
ToldTheTruth == Calm => told = connected

\* A network that accepts the password is joined, given up or out of reach; not so
\* when a scan or a fallback of before switches the station off again.
Settles ==
    (wants \in Joinable) ~> (station = "joined" \/ ~configured \/ gone \/ wants \notin Joinable)

\* A caller that was told it is connected had its network joined since it applied
\* it; not so when the address of the network of before is told meanwhile.
OkMeansJoined == \A c \in Callers : result[c] = "connected" => c \in joinedFor
=============================================================================
