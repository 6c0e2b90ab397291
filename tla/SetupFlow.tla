------------------------------- MODULE SetupFlow -------------------------------
(* A setup session: the screens (setup_screens.c, setup_sm.c), the worker     *)
(* that scans and connects for them (setup_worker.c), the draft they save     *)
(* (setup_model.c) and the opening and closing of sessions around them        *)
(* (setup_ui.c).                                                              *)
(*                                                                            *)
(* The display's task runs a loop: it takes the results of the worker, lets   *)
(* taps set flags, and acts on flags and results as its state says.  A flag   *)
(* stays set until some state looks at it.  The worker takes jobs from one    *)
(* queue and puts results in another; it writes what a scan finds into the    *)
(* session's context itself.  A stop waits three seconds for the worker; if   *)
(* it is in a job for longer, queues, worker and context are left behind.     *)
(*                                                                            *)
(* Left out: drawing, what is typed but for its being typed, validation, the  *)
(* fields of the LLM, and a session that does not get as far as its screens.  *)
EXTENDS Integers, Sequences, FiniteSets, SequencesExt

CONSTANTS
    Nets,          \* networks
    Scans,         \* what scans may find: sequences of networks
    JobDepth, ResultDepth,   \* the depths of the two queues
    MaxTaps, MaxSessions,    \* bounds
    None

VARIABLES
    session,   \* the session: its number, mode and phase
    ui,        \* what the display's task keeps: state, screen, flags, waits, fields
    aps,       \* per session: the list of networks in its context
    freed,     \* sessions whose context was freed
    jobs, results,   \* the queues
    run,       \* s_run
    exited,    \* s_task_exited
    workers,   \* the tasks that were started: where each is, in which job
    nvs,       \* the Wi-Fi settings that were saved
    joined,    \* the Wi-Fi settings last connected with
    taps,      \* bound
    abandoned, \* history: a scan was left behind in this session
    wedged     \* history: a stop timed out since the device was started

fvars == <<session, ui, aps, freed, jobs, results, run, exited, workers, nvs, joined,
           taps, abandoned, wedged>>

NoWifi   == [net |-> None, typed |-> FALSE]
NotDone  == [is |-> FALSE, kind |-> None, ok |-> FALSE]
Settings == session.mode = "SETTINGS"

-----------------------------------------------------------------------------
(* The screens: state, what is shown, and what can be tapped there.           *)

\* setup_sm_next: the edges that are there; any other event leaves the state.
Edges ==
    [FIRST_USE |->
        {<<"WELCOME", "start", "WIFI_SCAN">>, <<"WIFI_SCAN", "pick", "WIFI_PW">>,
         <<"WIFI_PW", "ok", "LLM">>, <<"WIFI_PW", "back", "WIFI_SCAN">>,
         <<"LLM", "next", "REVIEW">>, <<"LLM", "back", "WIFI_PW">>,
         <<"REVIEW", "save", "SAVE">>, <<"REVIEW", "back", "LLM">>},
     SETTINGS |->
        {<<"MENU", "wifi", "WIFI_SCAN">>, <<"MENU", "llm", "LLM">>,
         <<"MENU", "status", "STATUS">>, <<"MENU", "back", "EXIT">>,
         <<"WIFI_SCAN", "pick", "WIFI_PW">>, <<"WIFI_SCAN", "back", "MENU">>,
         <<"WIFI_PW", "ok", "MENU">>, <<"WIFI_PW", "back", "WIFI_SCAN">>,
         <<"LLM", "next", "REVIEW">>, <<"LLM", "back", "MENU">>,
         <<"REVIEW", "save", "SAVE">>, <<"REVIEW", "back", "LLM">>,
         <<"SAVE", "done", "MENU">>, <<"STATUS", "back", "MENU">>}]

Edge(st, event) ==
    LET to == {e \in Edges[session.mode] : e[1] = st /\ e[2] = event}
    IN  IF to = {} THEN st ELSE (CHOOSE e \in to : TRUE)[3]

Offered ==
    CASE ui.shown = "WELCOME"  -> {"start"}
      [] ui.shown = "MENU"     -> {"wifi", "llm", "status", "back"}
      [] ui.shown = "scanning" -> IF Settings THEN {"back"} ELSE {}
      [] ui.shown = "list"     -> {"rescan", "manual"} \cup (IF Settings THEN {"back"} ELSE {})
                                  \cup (IF ui.rows = <<>> THEN {} ELSE {"pick"})
      [] ui.shown = "manual"   -> {"pick"}
      [] ui.shown = "WIFI_PW"  -> {"connect", "back"}
      [] ui.shown = "LLM"      -> {"next", "back"}
      [] ui.shown = "REVIEW"   -> {"save", "back"}
      [] OTHER                 -> {"back"}

Set(u, flag) == \E p \in u.flags : p[1] = flag

\* A flag that is looked at is cleared; u.stray tells of taps on other screens.
Clear(u, flag) ==
    [u EXCEPT !.flags = {p \in @ : p[1] # flag},
              !.stray = @ \/ \E p \in u.flags : p[1] = flag /\ p[2] # u.visit]

Show(u, st, screen) == [u EXCEPT !.st = st, !.shown = screen, !.visit = @ + 1]

Listed == LET a == aps[session.n] IN SubSeq(a.list, 1, a.count)

\* scr_build_wifi_scan with the list in the context.
ShowList(u, rows) == [Show(u, "WIFI_SCAN", "list") EXCEPT !.rows = rows]

\* scr_build_wifi_scan with the spinner, and a scan is asked for.
AskScan(u) == [Show(u, "WIFI_SCAN", "scanning") EXCEPT !.kick = TRUE]

\* The screen of a state one comes to.
Enter(u, st) ==
    CASE st = "WIFI_SCAN" -> AskScan(u)
      [] st = "EXIT"      -> [u EXCEPT !.st = st]
      [] st = "SAVE"      -> [u EXCEPT !.st = st]
      [] OTHER            -> Show(u, st, st)

Follow(u, flag) == Enter(Clear(u, flag), Edge(u.st, flag))

-----------------------------------------------------------------------------
(* One turn of the loop for each state, as a function of what the task keeps.  *)

Room == Len(jobs) < JobDepth

\* A job is handed over, unless there is no room; a wait begins with no result.
Hand(u, job) == [u EXCEPT !.done.is = FALSE, !.wait = IF Room THEN @ \cup {job} ELSE @ \ {job},
                          !.send = IF Room THEN job ELSE None]

\* The wait is over when a result of that kind has come.
Ready(u, job) == job \in u.wait /\ u.done.is /\ u.done.kind = job

Welcome(u) == IF Set(u, "start") THEN Follow(u, "start") ELSE u

\* The scan is kicked off before anything else of the turn.
Kicked(u) ==
    LET v == [Hand(u, "scan") EXCEPT !.kick = FALSE]
    IN  IF ~u.kick \/ "scan" \in u.wait THEN u
        ELSE IF Room THEN v ELSE [ShowList(v, <<>>) EXCEPT !.zero = TRUE]

\* mutant: the row that was tapped is counted from the one above it.
PickedAbove(u) == aps[session.n].list[IF u.row = 1 THEN 1 ELSE u.row - 1]

\* The network in the context at the place of the row that was tapped.
Picked(u) == aps[session.n].list[u.row]

Pick(u, net) ==
    LET v == [Clear(u, "pick") EXCEPT !.wifi = [net |-> net, typed |-> FALSE]]
    IN  Show(v, Edge("WIFI_SCAN", "pick"), "WIFI_PW")

WifiScan(w, typed) ==
    LET u == Kicked(w)
        v == [u EXCEPT !.wait = @ \ {"scan"}, !.zero = ~u.done.ok]
    IN  IF Ready(u, "scan")
        THEN ShowList(v, IF u.done.ok THEN Listed ELSE <<>>)
        ELSE IF Set(u, "back")
        THEN IF Edge("WIFI_SCAN", "back") = "MENU"
             THEN [Follow(u, "back") EXCEPT !.kick = FALSE, !.wait = @ \ {"scan"},
                                                !.done.is = FALSE]
             ELSE Clear(u, "back")
        ELSE LET r == IF Set(u, "rescan") /\ "scan" \notin u.wait THEN AskScan(Clear(u, "rescan")) ELSE u
                 m == IF Set(r, "manual") /\ "scan" \notin r.wait
                      THEN [Show(Clear(Clear(r, "manual"), "pick"), "WIFI_SCAN", "manual")
                               EXCEPT !.row = 0]
                      ELSE r
             IN  IF ~Set(m, "pick") THEN m
                 ELSE IF m.shown = "manual" THEN Pick(m, typed)
                 ELSE IF m.row \in 1..aps[session.n].count THEN Pick(m, Picked(m))
                 ELSE Clear(m, "pick")

WifiPw(u) ==
    LET w == "connect" \in u.wait
        v == [Hand(Clear(u, "connect"), "connect") EXCEPT !.wifi.typed = TRUE]
        d == [u EXCEPT !.wait = @ \ {"connect"}]
    IN  IF Set(u, "back") /\ ~w THEN ShowList(Clear(u, "back"), Listed)
        ELSE IF Set(u, "connect") /\ ~w THEN v
        ELSE IF ~Ready(u, "connect") THEN u
        ELSE IF u.done.ok THEN Enter([d EXCEPT !.told = d.wifi], Edge("WIFI_PW", "ok")) ELSE d

Llm(u) == IF Set(u, "back") THEN Follow(u, "back")
          ELSE IF Set(u, "next") THEN Follow(u, "next") ELSE u

Review(u) == IF Set(u, "back") THEN Follow(u, "back")
             ELSE IF Set(u, "save") THEN Follow(u, "save") ELSE u

\* The flags of the menu are looked at in this order, one in a turn.
Menu(u) ==
    IF Set(u, "wifi") THEN Follow(u, "wifi")
    ELSE IF Set(u, "llm") THEN Follow(u, "llm")
    ELSE IF Set(u, "status") THEN Follow(u, "status")
    ELSE IF Set(u, "back") THEN Follow(u, "back") ELSE u

Status(u) == IF Set(u, "back") THEN Follow(u, "back") ELSE u

Turn(u, typed) ==
    CASE u.st = "WELCOME"   -> Welcome(u)
      [] u.st = "WIFI_SCAN" -> WifiScan(u, typed)
      [] u.st = "WIFI_PW"   -> WifiPw(u)
      [] u.st = "LLM"       -> Llm(u)
      [] u.st = "REVIEW"    -> Review(u)
      [] u.st = "MENU"      -> Menu(u)
      [] u.st = "STATUS"    -> Status(u)

-----------------------------------------------------------------------------
(* The loop.                                                                  *)

\* mutant: of results that come together the first counts.
PolledFirst(u) ==
    LET own == SelectSeq(results, LAMBDA r : r.session = session.n)
    IN  IF own = <<>> THEN u
        ELSE [u EXCEPT !.done = [is |-> TRUE, kind |-> own[1].kind, ok |-> own[1].ok]]

\* setup_worker_poll_results: results of this session's context, the last counts.
Polled(u) ==
    LET own == SelectSeq(results, LAMBDA r : r.session = session.n)
    IN  IF own = <<>> THEN u
        ELSE [u EXCEPT !.done = [is |-> TRUE, kind |-> Last(own).kind, ok |-> Last(own).ok]]

Tapped(u, flag) == [u EXCEPT !.flags = @ \cup {<<flag, u.visit>>}]

\* A turn of the loop: results, at most one tap, and what the state does.
Loop(u) ==
    LET before == Polled(u)
        typed  == IF Nets = {} THEN None ELSE CHOOSE n \in Nets : TRUE
        v      == Turn(before, typed)
    IN  /\ session.phase = "run" /\ u.st \notin {"SAVE", "EXIT"}
        /\ ui' = [v EXCEPT !.send = None, !.zero = FALSE]
        /\ jobs' = IF v.send = None THEN jobs
                   ELSE Append(jobs, [kind |-> v.send, session |-> session.n])
        /\ aps' = IF v.zero THEN [aps EXCEPT ![session.n].count = 0] ELSE aps
        /\ results' = <<>>
        /\ abandoned' = (abandoned \/ (v.st = "MENU" /\ ("scan" \in before.wait \/ v.send = "scan")))
        /\ UNCHANGED <<session, freed, run, exited, workers, nvs, joined, wedged>>

Tap(flag) ==
    /\ taps < MaxTaps /\ taps' = taps + 1
    /\ flag \in Offered
    /\ IF flag = "pick" /\ ui.shown = "list"
       THEN \E i \in DOMAIN ui.rows : Loop([Tapped(ui, flag) EXCEPT !.row = i,
                                                                    !.meant = ui.rows[i]])
       ELSE Loop([Tapped(ui, flag) EXCEPT !.meant = IF flag = "pick" THEN None ELSE @])

Idle == Loop(ui) /\ UNCHANGED taps

\* setup_model_commit, and the notice after it: saved, or it is said that not;
\* settings that were written before a failing write may have been kept.
Save ==
    /\ session.phase = "run" /\ ui.st = "SAVE"
    /\ results' = <<>>
    /\ \/ /\ Settings /\ nvs' = ui.wifi
          /\ ui' = Enter(Polled(ui), Edge("SAVE", "done"))
       \/ nvs' \in {nvs, ui.wifi} /\ ui' = [Polled(ui) EXCEPT !.st = "REVIEW"]
    /\ UNCHANGED <<session, aps, freed, jobs, run, exited, workers, joined, taps,
                   abandoned, wedged>>

-----------------------------------------------------------------------------
(* The worker.                                                                *)

Gone == [at |-> "gone", job |-> None, wifi |-> NoWifi, found |-> 0]
Free == [Gone EXCEPT !.at = "loop"]

\* The loop's look at s_run, and what follows it.
Check(k) ==
    /\ workers[k].at = "loop"
    /\ IF run THEN workers' = [workers EXCEPT ![k].at = "receive"] /\ UNCHANGED exited
       ELSE workers' = [workers EXCEPT ![k] = Gone] /\ exited' = TRUE
    /\ UNCHANGED <<session, ui, aps, freed, jobs, results, run, nvs, joined, taps,
                   abandoned, wedged>>

Receive(k) ==
    /\ workers[k].at = "receive"
    /\ \/ /\ jobs # <<>> /\ jobs' = Tail(jobs)
          /\ workers' = [workers EXCEPT ![k] = [at |-> Head(jobs).kind, job |-> Head(jobs),
                                                wifi |-> ui.wifi, found |-> 0]]
       \/ /\ jobs = <<>> /\ workers' = [workers EXCEPT ![k] = Free] /\ UNCHANGED jobs
    /\ UNCHANGED <<session, ui, aps, freed, results, run, exited, nvs, joined, taps,
                   abandoned, wedged>>

\* wifi_manager_scan_aps writes the records into the context, ...
ScanWrites(k) ==
    /\ workers[k].at = "scan"
    /\ \E found \in Scans :
          /\ aps' = [aps EXCEPT ![workers[k].job.session].list =
                        [i \in DOMAIN @ |-> IF i \in DOMAIN found THEN found[i] ELSE @[i]]]
          /\ workers' = [workers EXCEPT ![k].at = "scanned", ![k].found = Len(found)]
    /\ UNCHANGED <<session, ui, freed, jobs, results, run, exited, nvs, joined, taps,
                   abandoned, wedged>>

\* setup_worker_post_result: not after a stop has begun, and only if there is room.
Posted(k, ok) ==
    IF run /\ session.phase = "run" /\ Len(results) < ResultDepth
    THEN Append(results, [kind |-> workers[k].job.kind, session |-> workers[k].job.session,
                          ok |-> ok])
    ELSE results

\* ... and the job sets their number and posts.  A scan may fail before it writes or after.
ScanEnds(k) ==
    /\ \/ /\ workers[k].at = "scanned"
          /\ aps' = [aps EXCEPT ![workers[k].job.session].count = workers[k].found]
          /\ results' = Posted(k, TRUE)
       \/ /\ workers[k].at \in {"scan", "scanned"}
          /\ aps' = [aps EXCEPT ![workers[k].job.session].count = 0]
          /\ results' = Posted(k, FALSE)
    /\ workers' = [workers EXCEPT ![k] = Free]
    /\ UNCHANGED <<session, ui, freed, jobs, run, exited, nvs, joined, taps, abandoned, wedged>>

\* The connection with the settings the job read is up, or is not in time.
ConnectEnds(k) ==
    /\ workers[k].at = "connect"
    /\ \E ok \in BOOLEAN :
          /\ joined' = IF ok THEN workers[k].wifi ELSE joined
          /\ results' = Posted(k, ok)
    /\ workers' = [workers EXCEPT ![k] = Free]
    /\ UNCHANGED <<session, ui, aps, freed, jobs, run, exited, nvs, taps, abandoned, wedged>>

-----------------------------------------------------------------------------
(* Sessions.                                                                  *)

Fresh(mode) ==
    [st |-> IF mode = "FIRST_USE" THEN "WELCOME" ELSE "MENU",
     shown |-> IF mode = "FIRST_USE" THEN "WELCOME" ELSE "MENU",
     visit |-> 0, flags |-> {}, row |-> 0, rows |-> <<>>, kick |-> FALSE, wait |-> {},
     send |-> None, zero |-> FALSE, done |-> NotDone,
     wifi |-> IF mode = "FIRST_USE" THEN NoWifi ELSE nvs,
     meant |-> None, told |-> None, stray |-> FALSE]

\* setup_worker_start with new queues and a new worker, a context and the draft.
Open ==
    /\ session.phase = "closed" /\ session.n < MaxSessions
    /\ LET mode == IF nvs.net = None THEN "FIRST_USE" ELSE "SETTINGS"
       IN  /\ session' = [n |-> session.n + 1, mode |-> mode, phase |-> "run"]
           /\ ui' = Fresh(mode)
    /\ jobs' = <<>> /\ results' = <<>> /\ run' = TRUE /\ exited' = FALSE
    /\ workers' = [workers EXCEPT ![session.n + 1] = Free]
    /\ abandoned' = FALSE
    /\ UNCHANGED <<aps, freed, nvs, joined, taps, wedged>>

\* The flow has ended; setup_worker_stop asks the worker to end.
Close ==
    /\ session.phase = "run" /\ ui.st = "EXIT"
    /\ session' = [session EXCEPT !.phase = "stop"] /\ run' = FALSE
    /\ UNCHANGED <<ui, aps, freed, jobs, results, exited, workers, nvs, joined, taps,
                   abandoned, wedged>>

\* mutant: a stop that timed out frees as well.
FreesAnyway == TRUE

\* The queues and the context go only when the semaphore was taken.
MayFree == exited

\* The worker has ended in time, or was still in a job.
Stopped ==
    /\ session.phase = "stop" /\ session' = [session EXCEPT !.phase = "closed"]
    /\ \/ MayFree /\ freed' = freed \cup {session.n} /\ UNCHANGED wedged
       \/ /\ ~exited /\ \E k \in DOMAIN workers : workers[k].job # None
          /\ wedged' = TRUE /\ UNCHANGED freed
    /\ UNCHANGED <<ui, aps, jobs, results, run, exited, workers, nvs, joined, taps, abandoned>>

\* The first setup ends with a restart, and nothing of it is left but what was saved.
Restart ==
    /\ session.phase = "run" /\ ui.st = "SAVE" /\ ~Settings
    /\ nvs' = ui.wifi
    /\ session' = [session EXCEPT !.phase = "closed"]
    /\ ui' = Fresh("SETTINGS")
    /\ aps' = [n \in DOMAIN aps |-> [list |-> aps[n].list, count |-> 0]]
    /\ jobs' = <<>> /\ results' = <<>> /\ run' = FALSE /\ exited' = FALSE
    /\ workers' = [k \in DOMAIN workers |-> Gone]
    /\ joined' = NoWifi /\ abandoned' = FALSE /\ wedged' = FALSE
    /\ UNCHANGED <<freed, taps>>

-----------------------------------------------------------------------------
Init ==
    /\ nvs \in {NoWifi, [net |-> CHOOSE n \in Nets : TRUE, typed |-> TRUE]}
    /\ session = [n |-> 0, mode |-> "SETTINGS", phase |-> "closed"]
    /\ ui = Fresh("SETTINGS")
    /\ aps = [n \in 1..MaxSessions |-> [list |-> <<None, None>>, count |-> 0]]
    /\ freed = {} /\ jobs = <<>> /\ results = <<>> /\ run = FALSE /\ exited = FALSE
    /\ workers = [k \in 1..MaxSessions |-> Gone]
    /\ joined = NoWifi /\ taps = 0 /\ abandoned = FALSE /\ wedged = FALSE

Work(k) == Check(k) \/ Receive(k) \/ ScanWrites(k) \/ ScanEnds(k) \/ ConnectEnds(k)
Drive   == Idle \/ Save

Next ==
    \/ \E flag \in {"start", "wifi", "llm", "status", "back", "rescan", "manual", "pick",
                    "connect", "next", "save"} : Tap(flag)
    \/ Drive \/ Open \/ Close \/ Stopped \/ Restart
    \/ \E k \in 1..MaxSessions : Work(k)

Spec == Init /\ [][Next]_fvars

(* The display's loop turns, and the worker works: scans and connects have    *)
(* their own time limits.                                                     *)
FairSpec == /\ Spec /\ WF_fvars(Drive)
            /\ \A k \in 1..MaxSessions : WF_fvars(Work(k))

-----------------------------------------------------------------------------
(* Properties.                                                                *)

Wifis == [net : Nets \cup {None}, typed : BOOLEAN]

\* Every variable has values of its kind, and the queues keep their depths.
TypeOK ==
    /\ session.n \in 0..MaxSessions /\ session.phase \in {"closed", "run", "stop"}
    /\ ui.wifi \in Wifis /\ ui.wait \subseteq {"scan", "connect"} /\ ui.send = None
    /\ Len(jobs) <= JobDepth /\ Len(results) <= ResultDepth
    /\ \A k \in DOMAIN workers :
          /\ workers[k].at \in {"gone", "loop", "receive", "scan", "scanned", "connect"}
          /\ workers[k].job = None <=> workers[k].at \in {"gone", "loop", "receive"}
    /\ nvs \in Wifis /\ joined \in Wifis

Meant == ui.st = "WIFI_PW" /\ ui.meant # None => ui.wifi.net = ui.meant

(* The network whose password is asked for is the one named in the row that   *)
(* was tapped, though the worker writes the list the rows stand for and the    *)
(* loop looks the row up later; unless a scan was left behind in the session   *)
(* or a tap counted on a later screen.                                        *)
PickedIsShown == abandoned \/ ui.stray \/ Meant

(* What the screens take for connected is what the device is connected with:   *)
(* a scan's late result is not taken for the connection's.                     *)
OkMeansJoined == ui'.told # ui.told /\ session.phase = "run" /\ session' = session
                    => wedged \/ ui'.told = joined
ScreensTellTrue == [][PickedIsShown' /\ OkMeansJoined]_fvars

(* Unless a stop timed out, no worker outlives its session, and none has a job *)
(* in a context that was freed.                                                *)
StoppedIsStopped ==
    wedged \/ /\ session.phase = "closed" => \A k \in DOMAIN workers : workers[k] = Gone
              /\ \A k \in DOMAIN workers :
                    workers[k].job # None => workers[k].job.session \notin freed

(* A screen that waits for a scan or for a connection does not wait forever.   *)
WaitsEnd == /\ (ui.shown = "scanning") ~> (ui.shown # "scanning")
            /\ ("connect" \in ui.wait) ~> ("connect" \notin ui.wait)

(* Stated by comments or screens, and refuted.  A stale scan is not shown as   *)
(* the fresh one: the rows stand though a scan was left behind.                *)
TapMeansItsRow == Meant

(* A tap counts on the screen it was made on.                                  *)
TapsStay == ~ui.stray

(* The draft is seeded so that saving other settings leaves the Wi-Fi working: *)
(* what is saved was saved before or was typed on the password screen.         *)
SaveKeepsWifi == [][nvs' = nvs \/ nvs'.typed]_fvars

(* A context that was freed has no worker left in it.                          *)
NoneInFreed == \A k \in DOMAIN workers :
                  workers[k].job # None => workers[k].job.session \notin freed
=============================================================================
