------------------------------ MODULE RuleStore ------------------------------
(* The rules of the event router: the file that keeps them, the table the     *)
(* router runs, the calls that edit them and an event's way through them.     *)
(*                                                                            *)
(* An edit reads the file, changes the copy, writes it to <path>.tmp, removes *)
(* the file, renames the copy to it and swaps the table under the router's    *)
(* mutex; only the swap is locked.  The router's task holds the mutex, which  *)
(* is recursive, from the first rule of an event to the last, so an edit from *)
(* another task waits and one made by an action of a rule does not.           *)
(*                                                                            *)
(* Left out: the texts of rules and the rendering of their inputs, what an    *)
(* action does other than edit rules (EventRouter), and reading the rules     *)
(* for a listing.                                                             *)
EXTENDS Integers, Sequences, FiniteSets, SequencesExt

CONSTANTS
    RuleIds, Bodies,     \* a rule is an id with a body
    Firing,               \* bodies that are enabled and match the event
    Consumes,            \* bodies with consume_on_match
    Wrong,               \* bodies claw_event_router_parse_rule refuses
    Editors,             \* tasks that edit rules: the agent's tools, the console
    Inline,              \* an action of a rule may edit rules
    MaxRules,            \* max_rules of the configuration
    MaxEdits, MaxEvents, MaxFaults,   \* bounds
    None,                \* no file, no event, no rules
    Half                 \* a file whose contents are not the text of any rules

VARIABLES
    file,      \* the rules file
    tmp,       \* <path>.tmp
    table,     \* s_runtime->rules
    swaps,     \* how often the table was replaced and the old one freed
    editor,    \* per task: where its edit is, and the rules it read or will write
    loop,      \* the event being run: the rule it is at; the mutex is held
    edits, events, faults,   \* bounds
    due,       \* history: the rules as the answered edits make them
    hurt,      \* history: the file was lost to a power cut or a failed rename
    ran        \* history: the rules the last event ran, each with its place

vars == <<file, tmp, table, swaps, editor, loop, edits, events, faults, due, hurt, ran>>

Rule == [id : RuleIds, body : Bodies]
Idle == [at |-> "idle", new |-> <<>>, op |-> None]

-----------------------------------------------------------------------------
(* Edits of a list of rules.                                                  *)

Ops == [kind : {"add", "update"}, rule : Rule] \cup [kind : {"delete"}, id : RuleIds]

Holds(rules, id) == \E i \in DOMAIN rules : rules[i].id = id
Place(rules, id) == CHOOSE i \in DOMAIN rules : rules[i].id = id

\* What the checks of add, update and delete, and the parsing of the whole list
\* that follows them, let through.
Allowed(op, rules) ==
    CASE op.kind = "add"    -> /\ Len(rules) < MaxRules /\ ~Holds(rules, op.rule.id)
                               /\ op.rule.body \notin Wrong
      [] op.kind = "update" -> Holds(rules, op.rule.id) /\ op.rule.body \notin Wrong
      [] op.kind = "delete" -> Holds(rules, op.id)

\* A new rule goes in front, an updated one keeps its place.
Edited(op, rules) ==
    CASE op.kind = "add"    -> <<op.rule>> \o rules
      [] op.kind = "update" -> [i \in DOMAIN rules |->
                                  IF rules[i].id = op.rule.id THEN op.rule ELSE rules[i]]
      [] op.kind = "delete" -> RemoveAt(rules, Place(rules, op.id))

\* claw_event_router_load_rules_from_file: a file that is not there has no rules.
Loaded == IF file = None THEN <<>> ELSE file

-----------------------------------------------------------------------------
(* An edit, step by step.                                                     *)

At(e, step) == editor[e].at = step
Move(e, step) == editor' = [editor EXCEPT ![e].at = step]
Fault == faults < MaxFaults /\ faults' = faults + 1

Begin(e, op) ==
    /\ At(e, "idle") /\ edits < MaxEdits /\ edits' = edits + 1
    /\ file # Half /\ Allowed(op, Loaded)
    /\ editor' = [editor EXCEPT ![e] = [at |-> "open", new |-> Edited(op, Loaded), op |-> op]]
    /\ UNCHANGED <<file, tmp, table, swaps, loop, events, faults, due, hurt, ran>>

\* claw_event_router_reload, and claw_event_router_init's first one.
BeginReload(e) ==
    /\ At(e, "idle") /\ edits < MaxEdits /\ edits' = edits + 1
    /\ file # Half
    /\ editor' = [editor EXCEPT ![e] = [at |-> "swap", new |-> Loaded, op |-> None]]
    /\ UNCHANGED <<file, tmp, table, swaps, loop, events, faults, due, hurt, ran>>

\* The copy is opened, which empties one another task is writing, ...
OpenTmp(e) ==
    /\ At(e, "open") /\ Move(e, "fill") /\ tmp' = Half
    /\ UNCHANGED <<file, table, swaps, loop, edits, events, faults, due, hurt, ran>>

\* An edit whose file could not be written answers with the error.
Aborted(e) == Idle

\* ... and written; if it has been renamed or removed meanwhile the text goes nowhere.
FillTmp(e) ==
    /\ At(e, "fill")
    /\ \/ Move(e, "remove") /\ tmp' = (IF tmp = None THEN None ELSE editor[e].new)
          /\ UNCHANGED faults
       \/ Fault /\ editor' = [editor EXCEPT ![e] = Aborted(e)] /\ tmp' = None
    /\ UNCHANGED <<file, table, swaps, loop, edits, events, due, hurt, ran>>

RemoveFile(e) ==
    /\ At(e, "remove") /\ Move(e, "rename") /\ file' = None
    /\ UNCHANGED <<tmp, table, swaps, loop, edits, events, faults, due, hurt, ran>>

\* A rename that fails takes the copy with it.
RenameTmp(e) ==
    /\ At(e, "rename")
    /\ \/ /\ tmp # None /\ file' = tmp /\ tmp' = None
          /\ Move(e, "swap") /\ UNCHANGED <<faults, hurt>>
       \/ /\ tmp = None \/ faults < MaxFaults
          /\ faults' = IF tmp = None THEN faults ELSE faults + 1
          /\ tmp' = None /\ hurt' = TRUE
          /\ editor' = [editor EXCEPT ![e] = Idle] /\ UNCHANGED file
    /\ UNCHANGED <<table, swaps, loop, edits, events, due, ran>>

\* mutant: the table is swapped without waiting for the mutex.
MutexFreeAlways(e) == TRUE

\* The router's task has the mutex while it runs the rules of an event.
MutexFree(e) == loop = None

Swap(e) ==
    /\ At(e, "swap") /\ MutexFree(e)
    /\ table' = editor[e].new /\ swaps' = swaps + 1
    /\ due' = IF editor[e].op = None THEN due ELSE Edited(editor[e].op, due)
    /\ editor' = [editor EXCEPT ![e] = Idle]
    /\ UNCHANGED <<file, tmp, loop, edits, events, faults, hurt, ran>>

-----------------------------------------------------------------------------
(* An event's way through the rules.                                          *)

StartEvent ==
    /\ loop = None /\ events < MaxEvents /\ events' = events + 1
    /\ loop' = [i |-> 1, swaps |-> swaps, rules |-> table] /\ ran' = <<>>
    /\ UNCHANGED <<file, tmp, table, swaps, editor, edits, faults, due, hurt>>

\* The loop ends after a rule that consumes the event.
NextIndex(rule, i) == IF rule.body \in Firing /\ rule.body \in Consumes
                      THEN Len(table) + 1 ELSE i + 1

\* The rule the loop is at runs if it matches; one of its actions may be a call
\* that edits the rules, from start to end in this task and under its mutex.
RunRule ==
    /\ loop # None /\ loop.i <= Len(table)
    /\ LET rule == table[loop.i]
       IN  /\ loop' = [loop EXCEPT !.i = NextIndex(rule, @)]
           /\ ran' = IF rule.body \in Firing
                     THEN Append(ran, [no |-> loop.i, rule |-> rule]) ELSE ran
           /\ \/ UNCHANGED <<file, table, swaps, edits, due>>
              \/ /\ Inline /\ rule.body \in Firing
                 /\ edits < MaxEdits /\ edits' = edits + 1 /\ file # Half
                 /\ \E op \in Ops :
                       /\ Allowed(op, Loaded)
                       /\ file' = Edited(op, Loaded) /\ table' = Edited(op, Loaded)
                       /\ due' = Edited(op, due)
                 /\ swaps' = swaps + 1
    /\ UNCHANGED <<tmp, editor, events, faults, hurt>>

EndEvent ==
    /\ loop # None /\ loop.i > Len(table) /\ loop' = None
    /\ UNCHANGED <<file, tmp, table, swaps, editor, edits, events, faults, due, hurt, ran>>

-----------------------------------------------------------------------------
\* A power cut and the start after it; a copy left behind is never looked at.
PowerCut ==
    /\ Fault
    /\ tmp' \in {tmp, IF tmp = None THEN None ELSE Half}
    /\ editor' = [e \in Editors |-> Idle] /\ loop' = None /\ ran' = <<>>
    /\ file # Half
    /\ table' = Loaded /\ due' = Loaded /\ swaps' = swaps + 1
    /\ hurt' = (hurt \/ \E e \in Editors : At(e, "rename"))
    /\ UNCHANGED <<file, edits, events>>

Init ==
    /\ file \in {None, <<>>} /\ tmp = None /\ table = <<>> /\ swaps = 0
    /\ editor = [e \in Editors |-> Idle] /\ loop = None
    /\ edits = 0 /\ events = 0 /\ faults = 0
    /\ due = <<>> /\ hurt = FALSE /\ ran = <<>>

Edit(e) == OpenTmp(e) \/ FillTmp(e) \/ RemoveFile(e) \/ RenameTmp(e) \/ Swap(e)
Router  == RunRule \/ EndEvent

Next ==
    \/ \E e \in Editors : \/ \E op \in Ops : Begin(e, op)
                          \/ BeginReload(e) \/ Edit(e)
    \/ StartEvent \/ Router \/ PowerCut

Spec == Init /\ [][Next]_vars

(* The router's task goes on with its event and an editor with its edit; the  *)
(* mutex is free between events however many there are.                       *)
FairSpec == /\ Spec /\ WF_vars(Router)
            /\ \A e \in Editors : SF_vars(Edit(e))

TypeOK ==
    /\ table \in Seq(Rule) /\ Len(table) <= MaxRules
    /\ \A i, j \in DOMAIN table : table[i].id = table[j].id => i = j
    /\ file \in {None, Half} \/ file \in Seq(Rule)
    /\ loop # None => loop.i \in 1 .. Len(loop.rules) + 1

\* Between the edits of a task the file and the table both hold what the edits
\* that were answered with ESP_OK make, through reloads, failed writes and
\* restarts, and in the midst of one the file holds that or the new rules or,
\* between the removing and the renaming, is not there (unless it was lost there).
EditsKept ==
    ~hurt => /\ \A e \in Editors : At(e, "idle") => table = due /\ Loaded = due
             /\ file \in {due, None} \cup {editor[e].new : e \in Editors}
             /\ file = None /\ due # <<>> => \E e \in Editors : At(e, "rename")

\* An event runs the rules of one table, the one there was when it began: those
\* that match, in their order, up to and with the first that consumes it; no
\* edit comes in between and none frees the rules under the loop.
OneTableRuns ==
    loop # None =>
        /\ loop.swaps = swaps
        /\ \A k \in DOMAIN ran :
              /\ ran[k].no \in DOMAIN loop.rules /\ ran[k].rule = loop.rules[ran[k].no]
              /\ ran[k].rule.body \in Firing
              /\ ran[k].rule.body \in Consumes => k = Len(ran)
              /\ \A j \in 1..(k - 1) : ran[j].no < ran[k].no
        /\ loop.i > Len(table) =>
              \A i \in DOMAIN loop.rules : loop.rules[i].body \in Firing =>
                  \E k \in DOMAIN ran :
                      ran[k].no = i \/ (ran[k].no < i /\ ran[k].rule.body \in Consumes)

\* An edit that was begun ends, also while events keep the router busy.
EditsEnd == \A e \in Editors : ~At(e, "idle") ~> At(e, "idle")
=============================================================================
