---------------------------- MODULE LuaHttpServer ----------------------------
(* Scripts that serve HTTP (lua_module_http_server.c): a script registers an  *)
(* app under an id, mounts a directory and takes requests from a queue, while *)
(* the device's HTTP server, one task, looks apps up, queues requests and     *)
(* waits for their answers.  A script that ends closes its app.               *)
EXTENDS Naturals, Sequences, FiniteSets

CONSTANTS
    Scripts,      \* scripts that want the same app id
    QueueLen,     \* LUA_HTTP_QUEUE_LEN
    MaxRequests, MaxFaults

Requests == 1..MaxRequests

VARIABLES
    script,       \* what each script does
    registered,   \* s_apps: the scripts whose app is found under the id
    queue,        \* each app's queue
    gone,         \* apps whose queue was deleted and memory freed
    root,         \* each app's static_root: none, a part of it, or whole
    server,       \* the HTTP server: free, waiting for request r, or its answer
    asked,        \* requests made
    call,         \* what became of each request's memory
    served,       \* what static files were served from
    lost,         \* a request was put on a deleted queue
    faults

http  == <<server, asked, call, served, lost>>
hvars == <<script, registered, queue, gone, root, http, faults>>

At(s, place)   == script[s].at = place
Goto(s, place) == script' = [script EXCEPT ![s] = [at |-> place, request |-> 0]]
Fault == faults < MaxFaults /\ faults' = faults + 1
-----------------------------------------------------------------------------
(* A script, on its own task.                                                 *)

\* lua_http_find_app_locked
Found == registered

\* lua_http_app_new up to its first look for the id; a script whose id is taken
\* ends with an error.
Look(s) ==
    /\ At(s, "begin") /\ Goto(s, IF Found = {} THEN "create" ELSE "over")
    /\ UNCHANGED <<registered, queue, gone, root, http, faults>>

\* The second look, under the lock with which the app is put on the list.
FoundNow == Found
Create(s) ==
    /\ At(s, "create")
    /\ IF FoundNow = {} THEN registered' = registered \cup {s} /\ Goto(s, "made")
       ELSE Goto(s, "over") /\ UNCHANGED registered
    /\ UNCHANGED <<queue, gone, root, http, faults>>

\* The userdata that owns the app cannot be had: nobody will ever close it.
NoOwner(s) ==
    /\ At(s, "create") /\ Found = {} /\ Fault
    /\ registered' = registered \cup {s} /\ Goto(s, "over")
    /\ UNCHANGED <<queue, gone, root, http>>

\* lua_http_app_mount_static: the path is written without the lock.
Mount(s) ==
    /\ At(s, "made") /\ root[s] # "whole"
    /\ root' = [root EXCEPT ![s] = IF @ = "none" THEN "part" ELSE "whole"]
    /\ UNCHANGED <<script, registered, queue, gone, http, faults>>

\* lua_http_app_serve_forever, or the script ends without it.
Serve(s) ==
    /\ At(s, "made") /\ root[s] # "part" /\ \E place \in {"serve", "close"} : Goto(s, place)
    /\ UNCHANGED <<registered, queue, gone, root, http, faults>>

Receive(s) ==
    /\ At(s, "serve") /\ queue[s] # <<>>
    /\ script' = [script EXCEPT ![s] = [at |-> "dispatch", request |-> Head(queue[s])]]
    /\ queue' = [queue EXCEPT ![s] = Tail(@)]
    /\ UNCHANGED <<registered, gone, root, http, faults>>

\* lua_http_complete_request
Completed(r) ==
    call' = [call EXCEPT ![r] = IF @ = "freed" THEN "corrupt" ELSE "done"]

\* lua_http_dispatch_request: with the callback's answer or with its error.
Dispatch(s) ==
    /\ At(s, "dispatch") /\ Completed(script[s].request) /\ Goto(s, "serve")
    /\ UNCHANGED <<registered, queue, gone, root, server, asked, served, lost, faults>>

\* An error outside the protected call, of reading the request or the answer, ends
\* the script; nobody completes the request.
DispatchThrows(s) ==
    /\ At(s, "dispatch") /\ Fault /\ Goto(s, "close")
    /\ call' = [call EXCEPT ![script[s].request] = "dropped"]
    /\ UNCHANGED <<registered, queue, gone, root, server, asked, served, lost>>

\* The runtime asks the script to stop.
Stops(s) ==
    /\ At(s, "serve") /\ Goto(s, "close")
    /\ UNCHANGED <<registered, queue, gone, root, http, faults>>

\* lua_http_unregister_app, from serve_forever or from lua_http_app_gc.
Unregister(s) ==
    /\ At(s, "close") /\ Goto(s, "fail") /\ registered' = registered \ {s}
    /\ UNCHANGED <<queue, gone, root, http, faults>>

\* lua_http_fail_pending
FailPending(s) ==
    /\ At(s, "fail")
    /\ IF queue[s] = <<>> THEN Goto(s, "free") /\ UNCHANGED <<queue, call>>
       ELSE /\ Completed(Head(queue[s])) /\ queue' = [queue EXCEPT ![s] = Tail(@)]
            /\ UNCHANGED script
    /\ UNCHANGED <<registered, gone, root, server, asked, served, lost, faults>>

\* lua_http_app_gc
Free(s) ==
    /\ At(s, "free") /\ Goto(s, "over") /\ gone' = gone \cup {s}
    /\ UNCHANGED <<registered, queue, root, http, faults>>

Closes(s) == Unregister(s) \/ FailPending(s) \/ Free(s)
Run(s) ==
    Look(s) \/ Create(s) \/ NoOwner(s) \/ Mount(s) \/ Serve(s) \/ Receive(s)
    \/ Dispatch(s) \/ DispatchThrows(s) \/ Stops(s) \/ Closes(s)
-----------------------------------------------------------------------------
(* The HTTP server's task.                                                    *)

Waits(r) == server = [at |-> "wait", request |-> r]
Served   == server' = [at |-> "free", request |-> 0]

\* lua_module_http_server_handle_api: looked up and queued under the lock.
Callable == registered
Request ==
    /\ server.at = "free" /\ asked < MaxRequests /\ asked' = asked + 1
    /\ \/ \E s \in Callable :
             /\ Len(queue[s]) < QueueLen
             /\ queue' = [queue EXCEPT ![s] = Append(@, asked')]
             /\ server' = [at |-> "wait", request |-> asked']
             /\ call' = [call EXCEPT ![asked'] = "open"]
             /\ lost' = (lost \/ s \in gone)
       \/ /\ \A s \in Callable : Len(queue[s]) = QueueLen
          /\ call' = [call EXCEPT ![asked'] = "freed"] /\ UNCHANGED <<queue, server, lost>>
    /\ UNCHANGED <<script, registered, gone, root, served, faults>>

Answer ==
    \E r \in Requests :
        /\ Waits(r) /\ call[r] = "done"
        /\ call' = [call EXCEPT ![r] = "freed"] /\ Served
        /\ UNCHANGED <<script, registered, queue, gone, root, asked, served, lost, faults>>

\* mutant: the request is freed with the answer that it took too long.
FreedLate(r) == "freed"

\* Ten seconds without an answer: the request's memory is left to whoever has it.
LeftBehind(r) == call[r]
TimesOut ==
    \E r \in Requests :
        /\ Waits(r) /\ call[r] # "done" /\ Served
        /\ call' = [call EXCEPT ![r] = LeftBehind(r)]
        /\ UNCHANGED <<script, registered, queue, gone, root, asked, served, lost, faults>>

\* lua_module_http_server_handle_static: the path is copied under the lock.
Static ==
    /\ server.at = "free" /\ \E s \in registered : root[s] # "none" /\ served' = served \cup {root[s]}
    /\ UNCHANGED <<script, registered, queue, gone, root, server, asked, call, lost, faults>>

Serves == Request \/ Answer \/ TimesOut \/ Static
-----------------------------------------------------------------------------
Init ==
    /\ script = [s \in Scripts |-> [at |-> "begin", request |-> 0]]
    /\ registered = {} /\ queue = [s \in Scripts |-> <<>>] /\ gone = {}
    /\ root = [s \in Scripts |-> "none"]
    /\ server = [at |-> "free", request |-> 0] /\ asked = 0
    /\ call = [r \in Requests |-> "new"] /\ served = {} /\ lost = FALSE /\ faults = 0

Next == Serves \/ \E s \in Scripts : Run(s)

AppSpec == Init /\ [][Next]_hvars

\* Callbacks return, scripts that made an app serve or end, a stopped one closes.
FairSpec ==
    /\ AppSpec /\ WF_hvars(Answer) /\ WF_hvars(TimesOut)
    /\ \A s \in Scripts : WF_hvars(Run(s))
-----------------------------------------------------------------------------
TypeOK ==
    /\ registered \subseteq Scripts /\ \A s \in Scripts : Len(queue[s]) <= QueueLen
    /\ call \in [Requests -> {"new", "open", "done", "dropped", "freed", "corrupt"}]
    /\ server.at = "wait" => server.request \in 1..asked

\* Two scripts never have the id at a time.
OneApp == Cardinality(registered) <= 1

\* An answer that comes after the server gave up, or an app that closes with
\* requests in its queue, never writes to a request that was freed; no request is
\* put on a queue that is gone nor left on one.
RequestsInOrder ==
    /\ \A r \in Requests : call[r] # "corrupt"
    /\ ~lost /\ \A s \in gone : queue[s] = <<>>

\* A request that an app took into its queue is answered, by its callback or when
\* the app closes, unless an error in its answer ended the script or nobody owns
\* the app.
Completes ==
    \A r \in Requests :
        (call[r] = "open") ~> (call[r] # "open" \/ \E s \in registered : At(s, "over"))

\* An id whose script ended is free again; not so when the owner could not be made.
IdsComeFree == \A s \in registered : ~At(s, "over")

\* Static files come from the directory that was mounted; not so while it is
\* being mounted.
WholeRoot == served \subseteq {"whole"}

\* What was given up is freed in the end; it never is.
NothingLeaks ==
    \A r \in Requests : call[r] = "done" => Waits(r)
=============================================================================
