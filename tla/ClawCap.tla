-------------------------------- MODULE ClawCap --------------------------------
(* claw_cap: the registry of capabilities, grouped, and the calls of them.    *)
(*                                                                            *)
(* A call looks its capability up under the mutex, counts itself and executes *)
(* it without; the groups are registered and started while the device starts, *)
(* then one operator, the console, enables, disables and unloads them.  The   *)
(* callbacks that start and stop a group run without the mutex, after its     *)
(* state has been set: before they have run when it is enabled.  Unloading    *)
(* keeps new calls out, polls for those under way, at most ten seconds, and   *)
(* then stops and clears the group; a group that could not be emptied stays   *)
(* draining and may be unloaded again.  The states of the descriptors are     *)
(* always their group's.                                                      *)
(*                                                                            *)
(* Left out: names and listings, the growing of the tables, which ends with   *)
(* the start of the device, the inits that run once, and stop_all, which      *)
(* nothing calls.                                                             *)
EXTENDS Integers, FiniteSets, Sequences

CONSTANTS
    Groups,      \* groups, in the order they are registered
    Members,     \* Members[g]: the capabilities of a group, in order
    Hidden,      \* groups the agent is not shown
    Callers,     \* tasks that call: "agent" is the agent's
    MaxOrders, MaxCalls,   \* bounds
    None

VARIABLES
    state,    \* per group: "absent" or group_slot->state
    active,   \* per capability: slot->active_calls
    caller,   \* per task: the capability it executes
    order,    \* what the operator, or the start of the device, is doing
    boot,     \* groups still to be registered, or None when start_all has ended
    up,       \* history: capabilities and groups whose start was called, stop not
    orders, calls   \* bounds

cvars == <<state, active, caller, order, boot, up, orders, calls>>

AllGroups == {Groups[i] : i \in DOMAIN Groups}
Caps      == UNION {{Members[g][i] : i \in DOMAIN Members[g]} : g \in AllGroups}
GroupOf(m) == CHOOSE g \in AllGroups : \E i \in DOMAIN Members[g] : Members[g][i] = m
NoOrder   == [does |-> None, group |-> None, at |-> 0]

Order(does, g, at) == order' = [does |-> does, group |-> g, at |-> at]

-----------------------------------------------------------------------------
(* Calls.                                                                     *)

\* claw_cap_descriptor_is_available
Available(m) == state[GroupOf(m)] \in {"registered", "started"}

\* claw_cap_is_llm_visible
Visible(m) == GroupOf(m) \notin Hidden

Call(c, m) ==
    /\ caller[c] = None /\ boot = None /\ calls < MaxCalls /\ calls' = calls + 1
    /\ Available(m) /\ (c = "agent" => Visible(m))
    /\ active' = [active EXCEPT ![m] = @ + 1]
    /\ caller' = [caller EXCEPT ![c] = m]
    /\ UNCHANGED <<state, order, boot, up, orders>>

Return(c) ==
    /\ caller[c] # None
    /\ active' = [active EXCEPT ![caller[c]] =
                     IF state[GroupOf(caller[c])] # "absent" /\ @ > 0 THEN @ - 1 ELSE @]
    /\ caller' = [caller EXCEPT ![c] = None]
    /\ UNCHANGED <<state, order, boot, up, orders, calls>>

-----------------------------------------------------------------------------
(* The start of the device: register the groups, and enable one by one.       *)

\* claw_cap_register_group; a group whose group_init fails is not there.
Register ==
    /\ boot # None /\ order = NoOrder /\ boot # <<>> /\ boot' = Tail(boot)
    /\ state' \in {state, [state EXCEPT ![Head(boot)] = "registered"]}
    /\ UNCHANGED <<active, caller, order, up, orders, calls>>

StartAll ==
    /\ boot = <<>> /\ order = NoOrder
    /\ LET left == {g \in AllGroups : state[g] = "registered"}
       IN  \/ /\ left = {} /\ boot' = None /\ UNCHANGED <<state, order>>
           \/ \E g \in left :
                 /\ state' = [state EXCEPT ![g] = "started"] /\ Order("start", g, 0)
                 /\ UNCHANGED boot
    /\ UNCHANGED <<active, caller, up, orders, calls>>

-----------------------------------------------------------------------------
(* The operator.                                                              *)

Begin == order = NoOrder /\ boot = None /\ orders < MaxOrders /\ orders' = orders + 1

\* claw_cap_enable_group: the state first, then the callbacks.
Enable(g) ==
    /\ Begin /\ state[g] = "disabled"
    /\ state' = [state EXCEPT ![g] = "started"] /\ Order("start", g, 0)
    /\ UNCHANGED <<active, caller, boot, up, calls>>

Disable(g) ==
    /\ Begin /\ state[g] \in {"registered", "started"}
    /\ state' = [state EXCEPT ![g] = "disabled"] /\ Order("stop", g, Len(Members[g]))
    /\ UNCHANGED <<active, caller, boot, up, calls>>

Part(g, i) == IF i = 0 THEN g ELSE Members[g][i]

\* claw_cap_start_group_callbacks: the group's, then its members'; one that fails
\* disables the group and stops nothing.
StartPart ==
    /\ order.does = "start"
    /\ LET g == order.group
       IN  \/ /\ up' = up \cup {Part(g, order.at)} /\ UNCHANGED state
              /\ IF order.at = Len(Members[g]) THEN order' = NoOrder
                 ELSE Order("start", g, order.at + 1)
           \/ /\ state' = [state EXCEPT ![g] = "disabled"] /\ order' = NoOrder
              /\ UNCHANGED up
    /\ UNCHANGED <<active, caller, boot, orders, calls>>

\* claw_cap_stop_group_callbacks: the members, last first, then the group; one
\* that fails does not keep the others.
StopPart ==
    /\ order.does \in {"stop", "unstop"}
    /\ LET g == order.group
       IN  /\ up' \in {up, up \ {Part(g, order.at)}}
           /\ IF order.at > 0 THEN Order(order.does, g, order.at - 1)
              ELSE IF order.does = "stop" THEN order' = NoOrder ELSE Order("clear", g, 0)
    /\ UNCHANGED <<state, active, caller, boot, orders, calls>>

\* claw_cap_unregister_group, also again for a group that is draining.
Unload(g) ==
    /\ Begin /\ state[g] \notin {"absent", "unloading"}
    /\ state' = [state EXCEPT ![g] = "draining"] /\ Order("drain", g, 0)
    /\ UNCHANGED <<active, caller, boot, up, calls>>

\* mutant: only the first member of the group is looked at.
HasActiveFirst(g) == active[Members[g][1]] > 0

\* claw_cap_group_has_active_calls_locked
HasActive(g) == \E i \in DOMAIN Members[g] : active[Members[g][i]] > 0

Poll ==
    /\ order.does = "drain"
    /\ LET g == order.group
       IN  \/ /\ ~HasActive(g)
              /\ state' = [state EXCEPT ![g] = "unloading"]
              /\ Order("unstop", g, Len(Members[g]))
           \/ HasActive(g) /\ order' = NoOrder /\ UNCHANGED state   \* out of time
    /\ UNCHANGED <<active, caller, boot, up, orders, calls>>

\* claw_cap_clear_group_slot_locked
Clear ==
    /\ order.does = "clear" /\ order' = NoOrder
    /\ state' = [state EXCEPT ![order.group] = "absent"]
    /\ active' = [m \in Caps |-> IF GroupOf(m) = order.group THEN 0 ELSE active[m]]
    /\ UNCHANGED <<caller, boot, up, orders, calls>>

-----------------------------------------------------------------------------
Init ==
    /\ state = [g \in AllGroups |-> "absent"] /\ active = [m \in Caps |-> 0]
    /\ caller = [c \in Callers |-> None] /\ order = NoOrder /\ boot = Groups
    /\ up = {} /\ orders = 0 /\ calls = 0

Next ==
    \/ \E c \in Callers : Return(c) \/ \E m \in Caps : Call(c, m)
    \/ Register \/ StartAll
    \/ \E g \in AllGroups : Enable(g) \/ Disable(g) \/ Unload(g)
    \/ StartPart \/ StopPart \/ Poll \/ Clear

Spec == Init /\ [][Next]_cvars

TypeOK ==
    /\ state \in [AllGroups -> {"absent", "registered", "started", "disabled",
                                "draining", "unloading"}]
    /\ active \in [Caps -> 0..Cardinality(Callers)]
    /\ caller \in [Callers -> Caps \cup {None}] /\ up \subseteq Caps \cup AllGroups

\* While a group is unloaded, from its first stop callback on, no task executes
\* a capability of it, in whatever order calls, other orders and earlier unloads
\* that ran out of time came; until then each call under way is counted.
UnloadedHasNoCalls ==
    /\ \A c \in Callers : caller[c] # None =>
          state[GroupOf(caller[c])] \notin {"absent", "unloading"}
    /\ \A m \in Caps : active[m] = Cardinality({c \in Callers : caller[c] = m})

\* The same for a group that is disabled or not yet started: its capabilities
\* are executed beside its stop and start callbacks.
CallsOnlyStarted ==
    \A c \in Callers : caller[c] # None => GroupOf(caller[c]) \in up
=============================================================================
