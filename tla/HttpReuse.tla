------------------------------- MODULE HttpReuse -------------------------------
(* The pool of HTTP clients (esp_http_client_reuse.c): init, perform and      *)
(* cleanup of every HTTP client of the firmware are linked to wrappers that   *)
(* keep a client whose connection stays open and lease it to the next request *)
(* for the same server.  The pool is changed under a mutex, the clients are   *)
(* used and destroyed outside of it.                                          *)
EXTENDS Naturals, Sequences, SequencesExt, FiniteSets

CONSTANTS
    Tasks,      \* tasks that make requests
    Configs,    \* [host, handler]: a server, and the event handler for its answers
    Clients,    \* handles
    MaxPool,    \* CONFIG_HTTP_REUSE_MAX_POOL
    MaxLeases, MaxFaults,
    None

VARIABLES
    client,     \* each handle: alive, host, handler, user, persistent, errno
    pool,       \* s_pool: sequence of [client, host, leased, reused]
    lease,      \* what each task does with which client for which configuration
    leases, faults

poolVars == <<client, pool, lease, leases, faults>>

Dead == [alive |-> FALSE, host |-> None, handler |-> None, user |-> None,
         persistent |-> FALSE, errno |-> FALSE]
Idle == [at |-> "idle", config |-> None, client |-> None, sends |-> 0]

At(t, place)  == lease[t].at = place
Step(t, place) == lease' = [lease EXCEPT ![t].at = place]
Ends(t)       == lease' = [lease EXCEPT ![t] = Idle]
Held(t)       == lease[t].client
Fault         == faults < MaxFaults /\ faults' = faults + 1
Destroyed(c)  == client' = [client EXCEPT ![c] = Dead]

\* The places of a client in the pool; pool_find_locked finds the first.
Places(c) == {i \in DOMAIN pool : pool[i].client = c}
Place(c)  == CHOOSE i \in Places(c) : \A j \in Places(c) : i <= j

\* endpoint_match
Match(node, config) == node.host = config.host

\* mutant: a client is leased that another task uses.
AnyMatch(node, config) == Match(node, config)

\* Every node in the pool was put there by cleanup, with is_persistent set.
Reusable(node, config) == ~node.leased /\ Match(node, config)

\* The first node that can be leased.
First(i, config) ==
    Reusable(pool[i], config) /\ \A j \in 1..(i - 1) : ~Reusable(pool[j], config)

\* __wrap_esp_http_client_init up to the end of pool_take_locked: the first match,
\* unless its last error is not cleared; then it is dropped and none is taken.
Take(t, config) ==
    /\ At(t, "idle") /\ leases < MaxLeases /\ leases' = leases + 1
    /\ LET goes(place, h) == lease' = [lease EXCEPT ![t] =
                                [Idle EXCEPT !.at = place, !.config = config, !.client = h]]
       IN \/ /\ \A i \in DOMAIN pool : ~Reusable(pool[i], config)
             /\ goes("new", None) /\ UNCHANGED <<client, pool>>
          \/ \E i \in DOMAIN pool :
                LET c == pool[i].client
                IN /\ First(i, config)
                   /\ IF client[c].errno
                      THEN goes("new", None) /\ pool' = RemoveAt(pool, i) /\ Destroyed(c)
                      ELSE /\ goes("reset", c) /\ UNCHANGED client
                           /\ pool' = [pool EXCEPT ![i].leased = TRUE, ![i].reused = TRUE]
    /\ UNCHANGED faults

\* The rest of init for a pooled client: its URL, method, body, timeout and
\* user_data are set for this lease.
Reset(t) ==
    /\ At(t, "reset") /\ Step(t, "ready")
    /\ client' = [client EXCEPT ![Held(t)].user = t]
    /\ UNCHANGED <<pool, leases, faults>>

\* The URL cannot be set: init answers NULL.
ResetFails(t) ==
    /\ At(t, "reset") /\ Fault /\ Ends(t)
    /\ pool' = IF Places(Held(t)) = {} THEN pool ELSE RemoveAt(pool, Place(Held(t)))
    /\ Destroyed(Held(t))
    /\ UNCHANGED leases

\* Memory that was freed is given out again.
FreeHandle == CHOOSE c \in Clients : ~client[c].alive

\* No client was taken: a new one is made, outside the pool.
New(t) ==
    /\ At(t, "new") /\ \E c \in Clients : ~client[c].alive
    /\ client' = [client EXCEPT ![FreeHandle] =
                     [Dead EXCEPT !.alive = TRUE, !.host = lease[t].config.host,
                                  !.handler = lease[t].config.handler, !.user = t]]
    /\ lease' = [lease EXCEPT ![t].at = "ready", ![t].client = FreeHandle]
    /\ UNCHANGED <<pool, leases, faults>>

NewFails(t) ==
    /\ At(t, "new") /\ Fault /\ Ends(t) /\ UNCHANGED <<client, pool, leases>>

\* The connection stays open or not and leaves an errno or not.
Sent(t, place) ==
    /\ lease' = [lease EXCEPT ![t].at = place, ![t].sends = @ + 1]
    /\ \E persistent, errno \in BOOLEAN :
          client' = [client EXCEPT ![Held(t)].persistent = persistent,
                                   ![Held(t)].errno = errno]

\* __real_esp_http_client_perform, the first time and after a retry.
Perform(t) ==
    /\ At(t, "ready") \/ At(t, "again")
    /\ \/ Sent(t, "done") /\ UNCHANGED faults
       \/ Sent(t, IF At(t, "ready") THEN "failed" ELSE "done") /\ Fault
    /\ UNCHANGED <<pool, leases>>

\* __wrap_esp_http_client_perform after an error: once for a client from the pool.
Retries(t) == \E i \in Places(Held(t)) : pool[i].reused
Failed(t) ==
    /\ At(t, "failed") /\ Step(t, IF Retries(t) THEN "again" ELSE "done")
    /\ pool' = [i \in DOMAIN pool |->
                  IF pool[i].client = Held(t) THEN [pool[i] EXCEPT !.reused = FALSE]
                  ELSE pool[i]]
    /\ UNCHANGED <<client, leases, faults>>

\* __wrap_esp_http_client_cleanup, under the mutex.
Cleanup(t) ==
    /\ At(t, "done")
    /\ LET pooled == Places(Held(t)) # {}
           keep   == client[Held(t)].persistent
       IN \/ /\ pooled /\ keep /\ Ends(t)
             /\ pool' = [i \in DOMAIN pool |->
                           IF pool[i].client = Held(t)
                           THEN [pool[i] EXCEPT !.leased = FALSE, !.reused = FALSE]
                           ELSE pool[i]]
          \/ pooled /\ ~keep /\ pool' = RemoveAt(pool, Place(Held(t))) /\ Step(t, "destroy")
          \/ ~pooled /\ Step(t, IF keep THEN "insert" ELSE "destroy") /\ UNCHANGED pool
    /\ UNCHANGED <<client, leases, faults>>

NoRoom(t) == Step(t, "destroy")

\* pool_insert_locked: a full pool gives up the client that was idle longest, here
\* any idle one; when all are leased, or memory is short, the new one is destroyed.
Insert(t) ==
    /\ At(t, "insert")
    /\ LET node == [client |-> Held(t), host |-> client[Held(t)].host,
                    leased |-> FALSE, reused |-> FALSE]
           Into(p) == \/ pool' = Append(p, node) /\ Ends(t) /\ UNCHANGED faults
                      \/ Fault /\ pool' = p /\ NoRoom(t)
       IN \/ Fault /\ NoRoom(t) /\ UNCHANGED <<client, pool>>      \* its server is not told
          \/ Len(pool) < MaxPool /\ Into(pool) /\ UNCHANGED client
          \/ /\ Len(pool) >= MaxPool
             /\ \E i \in DOMAIN pool :
                   ~pool[i].leased /\ Destroyed(pool[i].client) /\ Into(RemoveAt(pool, i))
          \/ /\ Len(pool) >= MaxPool /\ \A i \in DOMAIN pool : pool[i].leased
             /\ NoRoom(t) /\ UNCHANGED <<client, pool, faults>>
    /\ UNCHANGED leases

Destroy(t) ==
    /\ At(t, "destroy") /\ Destroyed(Held(t)) /\ Ends(t)
    /\ UNCHANGED <<pool, leases, faults>>

Works(t) ==
    \/ \E config \in Configs : Take(t, config)
    \/ Reset(t) \/ ResetFails(t) \/ New(t) \/ NewFails(t) \/ Perform(t) \/ Failed(t)
    \/ Cleanup(t) \/ Insert(t) \/ Destroy(t)

Init ==
    /\ client = [c \in Clients |-> Dead] /\ pool = <<>>
    /\ lease = [t \in Tasks |-> Idle]
    /\ leases = 0 /\ faults = 0

Next == \E t \in Tasks : Works(t)

PoolSpec == Init /\ [][Next]_poolVars
-----------------------------------------------------------------------------
Users(c) == {t \in Tasks : Held(t) = c}
InPool   == {pool[i].client : i \in DOMAIN pool}

TypeOK ==
    /\ \A t \in Tasks : lease[t].config \in Configs \cup {None} /\ Held(t) \in Clients \cup {None}
    /\ \A i \in DOMAIN pool : pool[i].client \in Clients /\ pool[i].leased \in BOOLEAN

\* A client is leased to one task at a time, for the server it is connected to; what
\* is leased or pooled was not destroyed, a pooled client is in the pool once and
\* marked as leased exactly while a task has it, and no client is forgotten.
ClientsInOrder ==
    /\ \A c \in Clients : Cardinality(Users(c)) <= 1 /\ Cardinality(Places(c)) <= 1
    /\ {c \in Clients : client[c].alive} = InPool \cup ({Held(t) : t \in Tasks} \ {None})
    /\ \A i \in DOMAIN pool :
          pool[i].leased <=> \E t \in Users(pool[i].client) : TRUE
    /\ \A t \in Tasks : Held(t) # None => client[Held(t)].host = lease[t].config.host
    /\ Len(pool) <= MaxPool

\* A request is sent twice at most, and twice only over a client that was kept.
SentAgainOnce ==
    \A t \in Tasks :
        /\ lease[t].sends <= 2
        /\ lease[t].sends = 2 => Held(t) \in InPool \/ At(t, "destroy")

\* "Mirror fresh-init semantics so this lease matches @p cfg": the answer goes to the
\* handler and to the data of the request that is being made.
LeaseMatchesConfig ==
    \A t \in Tasks :
        At(t, "ready") => /\ client[Held(t)].user = t
                          /\ client[Held(t)].handler = lease[t].config.handler
=============================================================================
