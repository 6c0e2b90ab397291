---------------------------- MODULE SkillRegistry ----------------------------
(* Skills: SKILL.md files, the registry that is read from them                *)
(* (claw_skill.c), the list of active skills that each session has in a file, *)
(* and the groups of capabilities the model may use in it (claw_cap.c), with  *)
(* the tools that change them (cap_skill_mgr.c) and the boot that reads them. *)
(*                                                                            *)
(* The registry has no lock and files are written in place.  Every skill has  *)
(* one group of its own, which goes by its name.                              *)
EXTENDS Naturals, FiniteSets

CONSTANTS
    Skills, Sessions,
    Tasks,       \* callers of the tools: the agent, the router, the console
    Broken,      \* a list that was truncated and not written
    MaxCalls, MaxFaults, MaxCuts   \* bounds

VARIABLES
    docs,        \* per skill: its SKILL.md: "good", "bad" (no valid metadata) or "none"
    table,       \* s_skill->entries
    lists,       \* per session: its file of active skills; empty: no file
    visible,     \* per session: session_visibilities
    call,        \* per task: its call and how far it is
    up,          \* claw_skill_init succeeded; app_main aborts otherwise
    calls, faults, cuts,           \* bounds
    due,         \* history: per session, skills whose activation was answered
    hurt         \* history: sessions and skills whose file a cut or failed write hit

kvars == <<docs, table, lists, visible, call, up, calls, faults, cuts, due, hurt>>

Idle  == [op |-> "none", at |-> "idle", skill |-> "", session |-> "", loaded |-> {},
          old |-> {}, text |-> "none"]
At(t, op, place) == up /\ call[t].op = op /\ call[t].at = place
Goes(t, place)   == call' = [call EXCEPT ![t].at = place]
Ends(t)          == call' = [call EXCEPT ![t] = Idle]

Good  == {s \in Skills : docs[s] = "good"}
Fault == faults < MaxFaults /\ faults' = faults + 1
-----------------------------------------------------------------------------
(* The registry.                                                              *)

\* load_registry_from_markdown: one bad file fails all, and so do none.
Loads == Good # {} /\ \A s \in Skills : docs[s] # "bad"

\* claw_skill_reload_registry: the entries are taken out while files are read.
ReloadTakes(t) ==
    /\ up /\ call[t].at = "reload" /\ table' = {}
    /\ call' = [call EXCEPT ![t].at = "read", ![t].old = table]
    /\ UNCHANGED <<docs, lists, visible, up, calls, faults, cuts, due, hurt>>

PutBack(t) == call[t].old

\* The next place, by what called it: register, unregister, and its rollback.
AfterReload(t, ok) ==
    CASE call[t].op = "register"           -> Goes(t, IF ok THEN "found" ELSE "failed")
      [] call[t].op = "unregister" /\ ok   -> Goes(t, "gone")
      [] call[t].op = "unregister" /\ ~ok  -> Goes(t, "rollback")
      [] call[t].op = "rolling"            -> Goes(t, "failed")

ReloadReads(t) ==
    /\ up /\ call[t].at = "read"
    /\ \/ /\ Loads /\ table' = Good /\ AfterReload(t, TRUE) /\ UNCHANGED faults
          /\ due' = [c \in Sessions |-> due[c] \intersect Good]
       \/ ~Loads /\ table' = PutBack(t) /\ AfterReload(t, FALSE) /\ UNCHANGED <<faults, due>>
       \/ Loads /\ Fault /\ table' = PutBack(t) /\ AfterReload(t, FALSE) /\ UNCHANGED due
    /\ UNCHANGED <<docs, lists, visible, up, calls, cuts, hurt>>
-----------------------------------------------------------------------------
(* The tools, as tasks call them.                                             *)

Begins(t, op, place, s, c) ==
    /\ up /\ call[t] = Idle /\ calls < MaxCalls /\ calls' = calls + 1
    /\ call' = [call EXCEPT ![t] = [Idle EXCEPT !.op = op, !.at = place, !.skill = s,
                                                !.session = c]]

\* write_file of cap_files: a new document, or a new text of one, right or wrong.
WriteDoc(t) ==
    \E s \in Skills, text \in {"good", "bad"} :
        /\ up /\ call[t] = Idle /\ calls < MaxCalls /\ calls' = calls + 1
        /\ docs' = [docs EXCEPT ![s] = text]
        /\ UNCHANGED <<table, lists, visible, call, up, faults, cuts, due, hurt>>

\* cap_skill_register_execute
Register(t) ==
    \E s \in Skills :
        /\ docs[s] # "none" /\ Begins(t, "register", "reload", s, "")
        /\ UNCHANGED <<docs, table, lists, visible, up, faults, cuts, due, hurt>>

\* Its answer, found or not.
Registered(t) ==
    /\ At(t, "register", "found") /\ Ends(t)
    /\ UNCHANGED <<docs, table, lists, visible, up, calls, faults, cuts, due, hurt>>

\* cap_skill_unregister_execute: the document is read, kept and deleted.
Unregister(t) ==
    \E s \in table :
        /\ docs[s] # "none" /\ Begins(t, "unregister", "delete", s, "")
        /\ UNCHANGED <<docs, table, lists, visible, up, faults, cuts, due, hurt>>

Delete(t) ==
    /\ At(t, "unregister", "delete")
    /\ LET s == call[t].skill
       IN  IF docs[s] = "none" THEN Ends(t) /\ UNCHANGED docs
           ELSE /\ docs' = [docs EXCEPT ![s] = "none"]
                /\ call' = [call EXCEPT ![t].at = "reload", ![t].text = docs[s]]
    /\ UNCHANGED <<table, lists, visible, up, calls, faults, cuts, due, hurt>>

Gone(t) ==
    /\ At(t, "unregister", "gone") /\ Ends(t)
    /\ UNCHANGED <<docs, table, lists, visible, up, calls, faults, cuts, due, hurt>>

\* The document is opened for writing and written again, and all is read again.
Reopen(t) ==
    /\ At(t, "unregister", "rollback") /\ Goes(t, "rewrite")
    /\ docs' = [docs EXCEPT ![call[t].skill] = "bad"]
    /\ UNCHANGED <<table, lists, visible, up, calls, faults, cuts, due, hurt>>

Rewrite(t) ==
    /\ At(t, "unregister", "rewrite")
    /\ \/ /\ docs' = [docs EXCEPT ![call[t].skill] = call[t].text] /\ UNCHANGED <<faults, hurt>>
          /\ call' = [call EXCEPT ![t].op = "rolling", ![t].at = "reload"]
       \/ /\ Fault /\ hurt' = hurt \union {call[t].skill} /\ Goes(t, "failed")
          /\ UNCHANGED docs
    /\ UNCHANGED <<table, lists, visible, up, calls, cuts, due>>

Failed(t) ==
    /\ up /\ call[t].at = "failed" /\ Ends(t)
    /\ UNCHANGED <<docs, table, lists, visible, up, calls, faults, cuts, due, hurt>>

\* cap_skill_activate_execute: the document is read for the answer.
Activate(t) ==
    \E s \in table, c \in Sessions :
        /\ docs[s] # "none" /\ Begins(t, "activate", "load", s, c)
        /\ UNCHANGED <<docs, table, lists, visible, up, faults, cuts, due, hurt>>

\* load_active_skill_ids_from_disk: what is not in the registry is left out.
Known(c) == lists[c] \intersect table

\* claw_skill_activate_for_session: without the skill, or with a list that is not
\* JSON, it fails.
Load(t) ==
    /\ At(t, "activate", "load")
    /\ LET c == call[t].session
       IN  IF call[t].skill \notin table \/ lists[c] = Broken THEN Ends(t)
           ELSE call' = [call EXCEPT ![t].at = "open", ![t].loaded = Known(c)]
    /\ UNCHANGED <<docs, table, lists, visible, up, calls, faults, cuts, due, hurt>>

\* mutant: only the new skill is saved.
OnlyNew(t) == {call[t].skill}

Merged(t) == call[t].loaded \union {call[t].skill}

\* save_active_skill_ids_to_disk
Open(t) ==
    /\ At(t, "activate", "open") /\ Goes(t, "save")
    /\ lists' = [lists EXCEPT ![call[t].session] = Broken]
    /\ UNCHANGED <<docs, table, visible, up, calls, faults, cuts, due, hurt>>

\* What does not fit is noticed when the list is read back, not by the fclose.
Save(t) ==
    /\ At(t, "activate", "save") /\ Goes(t, "sync")
    /\ \/ lists' = [lists EXCEPT ![call[t].session] = Merged(t)] /\ UNCHANGED <<faults, hurt>>
       \/ Fault /\ hurt' = hurt \union {call[t].session} /\ UNCHANGED lists
    /\ UNCHANGED <<docs, table, visible, up, calls, cuts, due>>

\* cap_skill_sync_session_visible_groups
Sync(t) ==
    /\ At(t, "activate", "sync")
    /\ LET c == call[t].session
       IN  IF lists[c] = Broken THEN Ends(t)
           ELSE call' = [call EXCEPT ![t].at = "set", ![t].loaded = Known(c)]
    /\ UNCHANGED <<docs, table, lists, visible, up, calls, faults, cuts, due, hurt>>

\* claw_cap_set_session_llm_visible_groups, and the answer.
Set(t) ==
    /\ At(t, "activate", "set") /\ Ends(t)
    /\ LET c == call[t].session
       IN  /\ visible' = [visible EXCEPT ![c] = call[t].loaded]
           /\ due' = [due EXCEPT ![c] = @ \union {call[t].skill}]
    /\ UNCHANGED <<docs, table, lists, up, calls, faults, cuts, hurt>>
-----------------------------------------------------------------------------
\* A power cut; what was open for writing is lost.
PowerCut ==
    /\ cuts < MaxCuts /\ cuts' = cuts + 1 /\ up' = FALSE
    /\ hurt' = hurt \union {c \in Sessions : lists[c] = Broken}
                    \union {call[t].skill : t \in {u \in Tasks : call[u].op = "unregister"}}
    /\ table' = {} /\ visible' = [c \in Sessions |-> {}] /\ call' = [t \in Tasks |-> Idle]
    /\ UNCHANGED <<docs, lists, calls, faults, due>>

\* claw_skill_init in app_main: without a registry the device begins anew.
Boot ==
    /\ ~up /\ Loads /\ table' = Good /\ up' = TRUE
    /\ due' = [c \in Sessions |-> due[c] \intersect Good]
    /\ UNCHANGED <<docs, lists, visible, call, calls, faults, cuts, hurt>>

Init ==
    /\ docs \in [Skills -> {"good", "none"}] /\ Good # {} /\ table = Good
    /\ lists = [c \in Sessions |-> {}] /\ visible = [c \in Sessions |-> {}]
    /\ call = [t \in Tasks |-> Idle] /\ up = TRUE
    /\ calls = 0 /\ faults = 0 /\ cuts = 0
    /\ due = [c \in Sessions |-> {}] /\ hurt = {}

Next ==
    \/ \E t \in Tasks :
          \/ WriteDoc(t) \/ Register(t) \/ Registered(t) \/ Unregister(t) \/ Delete(t) \/ Gone(t)
          \/ Reopen(t) \/ Rewrite(t) \/ Failed(t) \/ ReloadTakes(t) \/ ReloadReads(t)
          \/ Activate(t) \/ Load(t) \/ Open(t) \/ Save(t) \/ Sync(t) \/ Set(t)
    \/ PowerCut \/ Boot

Spec == Init /\ [][Next]_kvars
-----------------------------------------------------------------------------
TypeOK ==
    /\ docs \in [Skills -> {"good", "bad", "none"}] /\ table \subseteq Skills
    /\ \A c \in Sessions : lists[c] = Broken \/ lists[c] \subseteq Skills
    /\ visible \in [Sessions -> SUBSET Skills]

Resting == up /\ \A t \in Tasks : call[t] = Idle
Whole(c) == c \notin hurt

\* A skill whose activation was answered is in the list of its session as long as it
\* is registered, through other activations, reloads that fail and restarts.
ActiveStays ==
    Resting => \A c \in Sessions : Whole(c) =>
                   /\ lists[c] # Broken
                   /\ due[c] \intersect table \subseteq lists[c]

\* The registry is there and is that of the files of some time: a reload or an
\* unregistering that failed has put back what it took.
CatalogStays ==
    Resting => /\ table # {}
               /\ \A s \in table : docs[s] # "none" \/ s \in hurt

\* The model may use the group of a skill whose activation was answered, until a
\* restart: what other activations of the session left visible includes it.
GroupsFollow ==
    Resting /\ cuts = 0 => \A c \in Sessions : Whole(c) => due[c] \intersect table \subseteq visible[c]

\* A demonstration, of what cap-skill.mdx says: "After reboot, activation state is
\* restored from FATFS".  The lists are; what the model may use is not.
RestoredAfterReboot ==
    Resting => \A c \in Sessions : Whole(c) => due[c] \intersect table \subseteq visible[c]

\* A demonstration: the model no longer sees the groups of a skill that is gone.
GoneIsHidden == Resting => \A c \in Sessions : visible[c] \subseteq table

\* A demonstration: a session whose list was cut can activate a skill again.
ListsAreReadable == Resting => \A c \in Sessions : lists[c] # Broken

\* A demonstration: the device boots with whatever a tool was let write.
BootsAgain == ~up => Loads
=============================================================================
