------------------------------ MODULE InputEvents ------------------------------
(* Buttons and knobs of Lua scripts (lua_module_button.c, lua_module_knob.c,  *)
(* which are one design): the timer's callback puts what happens into a queue *)
(* and a script that calls dispatch() runs the functions it registered.       *)
(*                                                                            *)
(* The table of registrations and the queue are static and shared by all      *)
(* scripts; a registration holds the number of a function in the registry of  *)
(* the script's own Lua state.  A call into the module is one step here,      *)
(* which is the code's atomicity for one script at a time only.  Left out: a  *)
(* knob's off for all events, which forgets what the driver refuses.          *)
EXTENDS Naturals, Sequences, FiniteSets

CONSTANTS
    Scripts,          \* Lua states that run at the same time
    Handles,          \* addresses a button may get
    Events,
    MaxHandles,       \* BTN_MAX_HANDLES
    QueueLen,         \* BTN_EVENT_QUEUE_SIZE
    MaxCalls, MaxPresses, MaxFaults    \* bounds

VARIABLES
    regs,      \* s_regs, its first s_num_regs entries
    queue,     \* s_queue; nothing is put into it before it was made
    made,      \* s_queue is there
    driver,    \* per button that exists: the events it calls back for
    lua,       \* per script: the functions in its registry, by number
    open,      \* per script: handles its userdata hold
    loop,      \* per script: "out" of dispatch, "in" it, or in a "callback" of it
    calls, presses, faults,    \* bounds; functions and presses are numbered
    age,       \* history: per address, which button it is the address of
    due,       \* history: per button, the functions as the answered calls make it
    ran        \* history: the function that dispatch ran last, and for which press

ivars == <<regs, queue, made, driver, lua, open, loop, calls, presses, faults, age, due, ran>>

NoRef     == 0     \* LUA_NOREF
NoRefs    == [e \in Events |-> NoRef]
Found(h)  == {i \in DOMAIN regs : regs[i].handle = h}
Live      == DOMAIN driver
Without(f, x) == [y \in DOMAIN f \ x |-> f[y]]
With(f, x, v) == [y \in DOMAIN f \union {x} |-> IF y = x THEN v ELSE f[y]]
\* A number that is free in the registry (luaL_ref).
NextRef(s) == CHOOSE n \in 1..(Cardinality(DOMAIN lua[s]) + 1) : n \notin DOMAIN lua[s]
Fault     == faults < MaxFaults /\ faults' = faults + 1
NoFault   == UNCHANGED faults
May(s)    == loop[s] # "in" /\ calls < MaxCalls /\ calls' = calls + 1
-----------------------------------------------------------------------------
\* button.new: the next free entry, or the button is deleted again.
New(s) ==
    \E h \in Handles \ Live :
        /\ May(s) /\ Len(regs) < MaxHandles
        /\ regs' = Append(regs, [handle |-> h, refs |-> NoRefs, on |-> {}])
        /\ driver' = With(driver, h, {})
        /\ open' = [open EXCEPT ![s] = @ \union {h}]
        /\ age' = [age EXCEPT ![h] = @ + 1] /\ due' = [due EXCEPT ![h] = NoRefs]
        /\ UNCHANGED <<queue, made, lua, loop, presses, faults, ran>>

\* mutant: the number of a function that was let go is kept.
KeptRef(r, e) == r

Unset(r, e) == [r EXCEPT !.refs[e] = NoRef]
TurnedOff(r, e) == [Unset(r, e) EXCEPT !.on = @ \ {e}]

\* button.on: the function replaces the one before; the driver may refuse its part.
On(s) ==
    \E h \in open[s], e \in Events : \E i \in Found(h) :
        LET old   == IF regs[i].refs[e] = NoRef THEN {} ELSE {regs[i].refs[e]}
            freed == [lua EXCEPT ![s] = Without(@, old)]
            ref   == IF old # {} THEN regs[i].refs[e] ELSE NextRef(s)
        IN  /\ May(s) /\ made' = TRUE
            /\ \/ /\ lua' = [freed EXCEPT ![s] = With(@, ref, calls')] /\ NoFault
                  /\ regs' = [regs EXCEPT ![i].refs[e] = ref, ![i].on = @ \union {e}]
                  /\ driver' = [driver EXCEPT ![h] = @ \union {e}]
                  /\ due' = [due EXCEPT ![h][e] = calls']
               \/ /\ e \notin regs[i].on /\ Fault /\ lua' = freed
                  /\ regs' = [regs EXCEPT ![i] = Unset(@, e)] /\ UNCHANGED driver
                  /\ due' = [due EXCEPT ![h][e] = NoRef]
            /\ UNCHANGED <<queue, open, loop, presses, age, ran>>

\* button.off for one event, which off for all does for one after the other: what the
\* driver does not let go of keeps its mark.
Off(s) ==
    \E h \in open[s], e \in Events : \E i \in Found(h) :
        /\ May(s)
        /\ lua' = [lua EXCEPT ![s] = Without(@, {regs[i].refs[e]})]
        /\ due' = [due EXCEPT ![h][e] = NoRef]
        /\ \/ /\ regs' = [regs EXCEPT ![i] = TurnedOff(@, e)] /\ NoFault
              /\ driver' = [driver EXCEPT ![h] = @ \ {e}]
           \/ /\ e \in regs[i].on /\ Fault
              /\ regs' = [regs EXCEPT ![i] = Unset(@, e)] /\ UNCHANGED driver
        /\ UNCHANGED <<queue, made, open, loop, presses, age, ran>>

\* btn_remove_reg: the last entry moves into the gap.
Removed(i) == LET last == Len(regs)
              IN  [j \in 1..(last - 1) |-> IF j = i THEN regs[last] ELSE regs[j]]

RefsOf(i) == {regs[i].refs[e] : e \in Events}

\* button.close: the driver may keep the button, and the script the handle; the entry
\* is gone all the same.
Close(s) ==
    \E h \in open[s] : \E i \in Found(h) :
        /\ May(s) /\ regs' = Removed(i)
        /\ lua' = [lua EXCEPT ![s] = Without(@, RefsOf(i))]
        /\ due' = [due EXCEPT ![h] = NoRefs]
        /\ \/ driver' = Without(driver, {h}) /\ open' = [open EXCEPT ![s] = @ \ {h}] /\ NoFault
           \/ driver' = [driver EXCEPT ![h] = {}] /\ Fault /\ UNCHANGED open
        /\ UNCHANGED <<queue, made, loop, presses, age, ran>>

\* lua_btn_handle_gc, for a handle the script dropped or when it ends.
Collect(s) ==
    \E h \in open[s] :
        /\ loop[s] # "in"
        /\ IF Found(h) = {} THEN UNCHANGED <<regs, lua>>
           ELSE \E i \in Found(h) : /\ regs' = Removed(i)
                                    /\ lua' = [lua EXCEPT ![s] = Without(@, RefsOf(i))]
        /\ driver' = Without(driver, {h}) /\ open' = [open EXCEPT ![s] = @ \ {h}]
        /\ due' = [due EXCEPT ![h] = NoRefs]
        /\ UNCHANGED <<queue, made, loop, calls, presses, faults, age, ran>>

\* btn_c_event_cb, in the timer's task: what finds no room is dropped.
Press ==
    \E h \in Live : \E e \in driver[h] :
        /\ presses < MaxPresses /\ presses' = presses + 1 /\ made
        /\ queue' = IF Len(queue) = QueueLen THEN queue
                    ELSE Append(queue, [handle |-> h, event |-> e, no |-> presses', age |-> age[h]])
        /\ UNCHANGED <<regs, made, driver, lua, open, loop, calls, faults, age, due, ran>>

\* button.dispatch
Dispatch(s) ==
    /\ loop[s] = "out" /\ made /\ loop' = [loop EXCEPT ![s] = "in"]
    /\ UNCHANGED <<regs, queue, made, driver, lua, open, calls, presses, faults, age, due, ran>>

\* The function with this number in the Lua state that dispatches.
Function(s, ref) == IF ref \in DOMAIN lua[s] THEN lua[s][ref] ELSE NoRef

\* One event: of a button that is closed or an event turned off, nothing.
RunNext(s) ==
    /\ loop[s] = "in" /\ queue # <<>> /\ queue' = Tail(queue)
    /\ LET item == Head(queue)
       IN  \/ /\ \A i \in Found(item.handle) : regs[i].refs[item.event] = NoRef
              /\ UNCHANGED <<loop, ran>>
           \/ \E i \in Found(item.handle) :
                 LET ref == regs[i].refs[item.event]
                 IN  /\ ref # NoRef /\ loop' = [loop EXCEPT ![s] = "callback"]
                     /\ ran' = [fn |-> Function(s, ref), due |-> due[item.handle][item.event],
                                no |-> item.no, before |-> ran.no,
                                fresh |-> item.age = age[item.handle]]
    /\ UNCHANGED <<regs, made, driver, lua, open, calls, presses, faults, age, due>>

\* The function returns, having called whatever it liked.
Return(s) ==
    /\ loop[s] = "callback" /\ loop' = [loop EXCEPT ![s] = "in"]
    /\ UNCHANGED <<regs, queue, made, driver, lua, open, calls, presses, faults, age, due, ran>>

Dispatched(s) ==
    /\ loop[s] = "in" /\ queue = <<>> /\ loop' = [loop EXCEPT ![s] = "out"]
    /\ UNCHANGED <<regs, queue, made, driver, lua, open, calls, presses, faults, age, due, ran>>

Init ==
    /\ regs = <<>> /\ queue = <<>> /\ made = FALSE /\ driver = [h \in {} |-> {}]
    /\ lua = [s \in Scripts |-> [n \in {} |-> 0]] /\ open = [s \in Scripts |-> {}]
    /\ loop = [s \in Scripts |-> "out"] /\ calls = 0 /\ presses = 0 /\ faults = 0
    /\ age = [h \in Handles |-> 0] /\ due = [h \in Handles |-> NoRefs]
    /\ ran = [fn |-> 0, due |-> 0, no |-> 0, before |-> 0, fresh |-> TRUE]

Next ==
    \/ \E s \in Scripts : \/ New(s) \/ On(s) \/ Off(s) \/ Close(s) \/ Collect(s)
                          \/ Dispatch(s) \/ RunNext(s) \/ Return(s) \/ Dispatched(s)
    \/ Press

Spec == Init /\ [][Next]_ivars
-----------------------------------------------------------------------------
TypeOK ==
    /\ Len(regs) <= MaxHandles /\ Len(queue) <= QueueLen
    /\ \A i \in DOMAIN regs : regs[i].handle \in Handles /\ regs[i].on \subseteq Events
    /\ Live \subseteq Handles /\ loop \in [Scripts -> {"out", "in", "callback"}]

\* A press runs the function registered for it at that moment, and no other that has
\* its number now; presses are handled once and in order.
RightFunction == ran.fn = ran.due /\ (ran.no > 0 => ran.before < ran.no)

\* Every button has one entry, which knows what the driver calls back for and what is
\* kept in the script's registry; nothing is left there by buttons that are gone.
TablesAgree ==
    /\ \A i, j \in DOMAIN regs : regs[i].handle = regs[j].handle => i = j
    /\ \A h \in Live : driver[h] = UNION {regs[i].on : i \in Found(h)}
    /\ \A i \in DOMAIN regs : regs[i].handle \in Live
    /\ UNION {DOMAIN lua[s] : s \in Scripts} = (UNION {RefsOf(i) : i \in DOMAIN regs}) \ {NoRef}

\* A demonstration: what a function is told happened to the button it was registered
\* for, and not to an earlier one at the same address.
FreshOnly == ran.fresh
=============================================================================
