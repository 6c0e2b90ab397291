-------------------------------- MODULE MCTasks --------------------------------
(* The tasks that work beside the agent's, on small instances: extraction     *)
(* jobs (AsyncExtract), the setup screens with their worker (SetupFlow), the  *)
(* calls of capabilities beside the operator (ClawCap) and to a chat beside   *)
(* one another (ChatSend), the Wi-Fi manager's event task beside its callers  *)
(* (WifiManager), and scripts with buttons (InputEvents) and the camera       *)
(* (Camera).  They share no state, so a behaviour is one of one of them while *)
(* the others stay as they begin.                                             *)
(*                                                                            *)
(* What is proved of these components (TasksProofs) is proved for every value  *)
(* of the constants below; the values of the run are in Tasks.cfg and in the  *)
(* definitions named MC....                                                   *)
EXTENDS AsyncExtract, FiniteSets

\* The setup screens: networks, what scans find, the depths of the two queues.
CONSTANTS Nets, Scans, JobDepth, ResultDepth, MaxTaps, MaxSessions

ASSUME SetupAssumption == MaxSessions \in Nat

\* Capabilities: their groups in order, those the agent is not shown, the callers.
CONSTANTS Groups, Members, Hidden, CapCallers, MaxOrders, MaxCapCalls

\* Sending: those that send at a time, texts, the bytes of a piece and of a card.
CONSTANTS SendCallers, Texts, ChunkLen, CardLen, MaxSendFaults

\* The camera: scripts that run at a time, and the addresses of its buffers.
CONSTANTS CameraScripts, Buffers, Settle, MaxShots, MaxSpoilt

ASSUME CameraAssumption ==
    /\ None \notin Buffers \union CameraScripts
    /\ \A mark \in {"frame", "jpeg", "picture"} : mark \notin Buffers

\* Buttons: the script that has them, the addresses they may get, the events.
CONSTANTS ButtonScript, Handles, Events, MaxHandles, EventQueueLen, MaxUses, MaxPresses,
          MaxRefusals

ASSUME ButtonAssumption == MaxHandles \in Nat /\ EventQueueLen \in Nat

VARIABLES part,
    session, ui, aps, freed, jobs, results, run, exited, workers, nvs, joined, taps,
    abandoned, wedged,
    state, active, caller, order, boot, up, orders, calls,
    platform, call, chat, sendFaults,
    mode, station, target, events, gone, configured, connected, apActive, closes,
    retries, timer, bits, told, lastActive, handler, place, was, result, wants, wifiCalls,
    faults, joinedFor,
    regs, inputs, made, driver, lua, open, loop, uses, presses, refusals, age, due, ran,
    opened, settled, borrowed, queued, lock, at, buffer, frames, heap, shots, spoilt, strayed

jobVars   == evars
setupVars == <<session, ui, aps, freed, jobs, results, run, exited, workers, nvs, joined,
               taps, abandoned, wedged>>
capVars   == <<state, active, caller, order, boot, up, orders, calls>>
sendVars  == <<platform, call, chat, sendFaults>>
wifiVars  == <<mode, station, target, events, gone, configured, connected, apActive, closes,
               retries, timer, bits, told, lastActive, handler, place, was, result, wants,
               wifiCalls, faults, joinedFor>>
buttonVars == <<regs, inputs, made, driver, lua, open, loop, uses, presses, refusals, age,
                due, ran>>
cameraVars == <<opened, settled, borrowed, queued, lock, at, buffer, frames, heap, shots,
                spoilt, strayed>>

\* Display loops turn every 20 ms, a scan or connect takes seconds: in the run the
\* queue of results, which never fills while the loop turns, is one longer than that
\* of jobs.
MCScans == {<<"n1">>, <<"n2", "n1">>}
F == INSTANCE SetupFlow

\* In the run a group of two capabilities and one the agent is not shown.
MCGroups  == <<"files", "mail">>
MCMembers == [files |-> <<"set", "get">>, mail |-> <<"send">>]
C == INSTANCE ClawCap WITH Callers <- CapCallers, MaxCalls <- MaxCapCalls

ASSUME CapAssumption ==
    /\ IsFiniteSet(CapCallers) /\ None \notin C!Caps
    /\ None \notin {"start", "stop", "unstop", "drain", "clear"}

\* In the run two callers send at a time.  No text, one piece, two pieces of characters
\* that a piece can cut, and three pieces, which no card holds.
MCTexts == {<<>>, <<1>>, <<1, 2, 1>>, <<1, 1, 2, 1>>}
M == INSTANCE ChatSend WITH
        Callers <- SendCallers, MaxFaults <- MaxSendFaults, faults <- sendFaults

\* A device with a network, or none, is given a network it cannot join.
X == INSTANCE WifiManager WITH
        Callers <- {"ui"}, Boot <- {[net |-> net, close |-> TRUE] : net \in {"home", ""}},
        Configs <- {[net |-> net, close |-> FALSE] : net \in {"home", "wrong"}},
        Joinable <- {"home"}, MaxRetry <- 1, MaxCalls <- 2, MaxFaults <- 1,
        active <- apActive, caller <- place, calls <- wifiCalls

\* One script at a time has buttons; in the run two share the camera.
B == INSTANCE InputEvents WITH
        Scripts <- {ButtonScript}, QueueLen <- EventQueueLen, MaxCalls <- MaxUses,
        MaxFaults <- MaxRefusals, queue <- inputs, calls <- uses, faults <- refusals
D == INSTANCE Camera WITH
        Scripts <- CameraScripts, MaxCalls <- MaxShots, MaxFaults <- MaxSpoilt,
        calls <- shots, faults <- spoilt

Is(name) == part = name /\ UNCHANGED part

TasksInit ==
    /\ part \in {"jobs", "setup", "caps", "send", "wifi", "buttons", "camera"}
    /\ Init /\ F!Init /\ C!Init /\ M!Init /\ X!Init /\ B!Init /\ D!Init
    /\ part # "setup" => ~nvs.typed
    /\ part # "send" => platform = "telegram"
    /\ part # "wifi" => ~configured

TasksNext ==
    \/ /\ Is("jobs") /\ Next
       /\ UNCHANGED <<setupVars, capVars, sendVars, wifiVars, buttonVars, cameraVars>>
    \/ /\ Is("setup") /\ F!Next
       /\ UNCHANGED <<jobVars, capVars, sendVars, wifiVars, buttonVars, cameraVars>>
    \/ /\ Is("caps") /\ C!Next
       /\ UNCHANGED <<jobVars, setupVars, sendVars, wifiVars, buttonVars, cameraVars>>
    \/ /\ Is("send") /\ M!Next
       /\ UNCHANGED <<jobVars, setupVars, capVars, wifiVars, buttonVars, cameraVars>>
    \/ /\ Is("wifi") /\ X!Next
       /\ UNCHANGED <<jobVars, setupVars, capVars, sendVars, buttonVars, cameraVars>>
    \/ /\ Is("buttons") /\ B!Next
       /\ UNCHANGED <<jobVars, setupVars, capVars, sendVars, wifiVars, cameraVars>>
    \/ /\ Is("camera") /\ D!Next
       /\ UNCHANGED <<jobVars, setupVars, capVars, sendVars, wifiVars, buttonVars>>

tasksVars == <<part, jobVars, setupVars, capVars, sendVars, wifiVars, buttonVars, cameraVars>>

TasksSafe == TasksInit /\ [][TasksNext]_tasksVars

\* The fairness is that of the modules, each for its own behaviours.
TasksFair ==
    /\ WF_jobVars(Is("jobs") /\ Take) /\ WF_jobVars(Is("jobs") /\ Work)
    /\ WF_setupVars(Is("setup") /\ F!Drive)
    /\ \A k \in 1..MaxSessions : WF_setupVars(Is("setup") /\ F!Work(k))
    /\ WF_wifiVars(Is("wifi") /\ X!Joins) /\ WF_wifiVars(Is("wifi") /\ X!EventTask)
    /\ WF_wifiVars(Is("wifi") /\ X!TimerFires) /\ WF_wifiVars(Is("wifi") /\ X!Goes("ui"))

TasksSpec == TasksSafe /\ TasksFair

\* SetupFlow: the password that is asked for is that of the row that was tapped, and
\* a scan's late result is not taken for the connection's.
ScreensTellTrue == F!ScreensTellTrue
\* SetupFlow: no worker outlives its session unless a stop timed out.  ClawCap: a
\* group that is unloaded has no call under way.
StoppedIsStopped == F!StoppedIsStopped /\ C!UnloadedHasNoCalls
\* ChatSend: what is answered to be sent was sent, whole and in order; on Feishu all of
\* it can be read, and nothing follows a piece that is missing.
SentIsThere == part = "send" => M!SentIsThere /\ M!NoGaps
\* The end of a request does not wait for ever for its job, nor a screen for the
\* scan or the connection it asked for (AsyncExtract, SetupFlow); and the device can be
\* got at again and again, over its network or its access point (WifiManager).
Reachable == part = "wifi" => X!Reachable
WaitsEnd  == CollectEnds /\ F!WaitsEnd /\ Reachable
\* InputEvents: a press runs the function registered for it, once and in order, and the
\* tables of the module, the driver and the Lua state agree.  Camera: no buffer is lost
\* between driver, capture and frame object, and the frame that is out has one owner.
DevicesHold ==
    /\ B!RightFunction /\ B!TablesAgree
    /\ D!BuffersGoRound /\ D!FrameHasOwner
=============================================================================
