------------------------------- MODULE MCStores -------------------------------
(* The components that keep their state in files, on small instances: the     *)
(* rules (RuleStore), the memories (MemoryStore), the conversations           *)
(* (Sessions), the schedules (Scheduler) and the skills (SkillRegistry); and  *)
(* what the rules make of a message (MessagePath).  They share no state, so a *)
(* behaviour is one of one of them, while the others stay as they begin.      *)
(*                                                                            *)
(* What is proved of these components (StoresProofs) is proved for every      *)
(* value of the constants below; those of the run are in Stores.cfg.          *)
EXTENDS MessagePath

CONSTANTS None, Half, Broken, Torn

\* Rules: ids and bodies, what a body does to an event, the one task that edits.
CONSTANTS RuleIds, RuleBodies, Firing, Consumes, Wrong, RuleEditor, MaxRules, MaxEdits,
          MaxEvents, MaxRuleFaults

\* Conversations: versions of a chat's session, the slots of the ring, the lengths of
\* records.
CONSTANTS MaxVersion, Slots, Lengths, MaxTurns, MaxLine, MaxSessionFaults

ASSUME SessionAssumption ==
    /\ MaxVersion \in Nat \ {0} /\ Slots \in Nat \ {0} /\ Lengths \subseteq Nat \ {0}
    /\ None # Broken
    /\ \A mark \in {None, Broken} :
          /\ mark \notin Nat
          /\ mark \notin [total : Nat, at : Seq([off : Nat, len : Nat])]
    /\ None \notin [req : [sid : Nat, era : Nat, n : Nat],
                    shown : Seq([n : Nat, who : {"user", "assistant"}, era : Nat])]

VARIABLES part,
    file, tmp, table, swaps, editor, loop, edits, events, rfaults, due, hurt, ran,
    items, ragged, index, digest, todo, job, plan, changes, made, ops, mfaults,
    promised, gone, recalled, crossed, lossy, drift, twice,
    mapped, files, line, turn, turns, sfaults, era, log, strayed,
    entries, valid, phase, sample, delay, call, clock, real, schedules, blob,
    calls, cuts, sent, slips, acked, held, wiped, limits,
    docs, catalog, lists, visible, use, up, uses, kfaults, kcuts, active, torn

wayVars      == pvars
ruleVars     == <<file, tmp, table, swaps, editor, loop, edits, events, rfaults, due,
                  hurt, ran>>
memoryVars   == <<items, ragged, index, digest, todo, job, plan, changes, made, ops,
                  mfaults, promised, gone, recalled, crossed, lossy, drift, twice>>
sessionVars  == <<mapped, files, line, turn, turns, sfaults, era, log, strayed>>
scheduleVars == <<entries, valid, phase, sample, delay, call, clock, real, schedules,
                  blob, calls, cuts, sent, slips, acked, held, wiped, limits>>
skillVars    == <<docs, catalog, lists, visible, use, up, uses, kfaults, kcuts, active,
                  torn>>

R == INSTANCE RuleStore WITH
        Bodies <- RuleBodies, Editors <- {RuleEditor}, Inline <- FALSE,
        MaxFaults <- MaxRuleFaults, faults <- rfaults

ASSUME RuleAssumption ==
    /\ None # Half /\ None \notin R!Ops
    /\ \A mark \in {None, Half} : mark \notin Seq(R!Rule)

S == INSTANCE Sessions WITH
        Versions <- 1..MaxVersion, MaxQueue <- MaxLine, MaxFaults <- MaxSessionFaults,
        queue <- line, faults <- sfaults

\* f and g say the same.  One caller, with power cuts and failed writes, and three ids:
\* there are merges, updates and trims.  Two callers whose steps overlap, with two ids.
Facts    == {"f", "g", "h"}
FactKey  == [z \in Facts |-> IF z = "h" THEN 2 ELSE 1]
FactSize == [z \in Facts |-> 1]
M == INSTANCE MemoryStore WITH
        Callers <- {"agent"}, Key <- FactKey, Size <- FactSize,
        Tags <- {<<"red">>, <<"red", "blue">>}, Ids <- 1..3,
        SlotBytes <- 1, Slack <- 1, Capacity <- 2, Threshold <- 2,
        MaxOps <- 3, MaxRecalls <- 1, MaxFaults <- 1, faults <- mfaults
M2 == INSTANCE MemoryStore WITH
        Callers <- {"agent", "lua"}, Key <- FactKey, Size <- FactSize,
        Tags <- {<<"red", "blue">>}, Ids <- 1..2,
        SlotBytes <- 1, Slack <- 1, Capacity <- 2, Threshold <- 2,
        MaxOps <- 2, MaxRecalls <- 1, MaxFaults <- 0, faults <- mfaults

\* Two entries, aligned to the real time.
Entries == {"a", "b"}
Aligned(id) ==
    [enabled |-> TRUE, kind |-> IF id = "a" THEN "interval" ELSE "cron",
     start_at |-> IF id = "a" THEN 6 ELSE 0, end_at |-> 0,
     interval |-> IF id = "a" THEN 2 ELSE 0, cron |-> IF id = "a" THEN 0 ELSE 3, max_runs |-> 0]
K == INSTANCE Scheduler WITH
        Ids <- Entries, Definitions <- [id \in Entries |-> {Aligned(id)}],
        MaxItems <- 2, TickMs <- 1, Epoch <- 3,
        WriteResults <- {"ok", "kept", "torn"}, SaveResults <- {"ok", "kept", "erased"},
        Asked <- {"add", "update", "remove", "disable", "reload"}, CanTear <- TRUE,
        MaxReal <- 5, MaxCalls <- 2, MaxCuts <- 1, file <- schedules

\* One agent that calls the tools of skills, for two sessions.
N == INSTANCE SkillRegistry WITH
        Skills <- {"x", "y"}, Sessions <- {"1", "2"}, Tasks <- {"agent"},
        MaxCalls <- 4, MaxFaults <- 1, MaxCuts <- 1,
        table <- catalog, call <- use, calls <- uses, faults <- kfaults, cuts <- kcuts,
        due <- active, hurt <- torn

\* The shipped rules, and none at all: then messages go to the agent by default.
Says(name, words) == [chat |-> name, text |-> words]
MCTraffic == <<Says("a", "talk"), Says("b", "talk"), Says("a", "new"), Says("a", "talk")>>
NoRules   == {<<>>}

Is(name) == part = name /\ UNCHANGED part

StoresInit ==
    /\ part \in {"rules", "memory", "memory2", "sessions", "schedules", "skills", "way"}
    /\ Init /\ R!Init /\ S!Init /\ K!Init /\ N!Init
    /\ IF part = "memory2" THEN M2!Init ELSE M!Init
    /\ part # "rules" => file = None
    /\ part # "way" => rules = <<>>
    /\ part # "skills" => catalog = {"x"}

StoresNext ==
    \/ /\ Is("rules") /\ R!Next
       /\ UNCHANGED <<memoryVars, sessionVars, scheduleVars, skillVars, wayVars>>
    \/ /\ Is("memory") /\ M!Next
       /\ UNCHANGED <<ruleVars, sessionVars, scheduleVars, skillVars, wayVars>>
    \/ /\ Is("memory2") /\ M2!Next
       /\ UNCHANGED <<ruleVars, sessionVars, scheduleVars, skillVars, wayVars>>
    \/ /\ Is("sessions") /\ S!Next
       /\ UNCHANGED <<ruleVars, memoryVars, scheduleVars, skillVars, wayVars>>
    \/ /\ Is("schedules") /\ K!Next
       /\ UNCHANGED <<ruleVars, memoryVars, sessionVars, skillVars, wayVars>>
    \/ /\ Is("skills") /\ N!Next
       /\ UNCHANGED <<ruleVars, memoryVars, sessionVars, scheduleVars, wayVars>>
    \/ /\ Is("way") /\ Next
       /\ UNCHANGED <<ruleVars, memoryVars, sessionVars, scheduleVars, skillVars>>

storesVars == <<part, ruleVars, memoryVars, sessionVars, scheduleVars, skillVars, wayVars>>

StoresSafe == StoresInit /\ [][StoresNext]_storesVars

\* The fairness is that of MessagePath, for its own behaviours.
StoresFair ==
    /\ WF_wayVars(Is("way") /\ RouterTask) /\ SF_wayVars(Is("way") /\ AgentTask)
    /\ \A c \in Chats : SF_wayVars(Is("way") /\ Publish(c))

StoresSpec == StoresSafe /\ StoresFair

\* What was answered stays, through failed writes and power cuts.  MemoryStore: stores
\* and forgets hold, every memory is found by each of its labels, and every recall is
\* counted once, across compactions and restarts.  Scheduler: an added entry is there.
\* SkillRegistry: an activated skill stays in its session's list and usable by the
\* model, and a reload that fails puts the registry back.
MemoryHolds ==
    /\ part = "memory"  => M!AnswersHold /\ M!RecallReaches /\ M!RecallsCounted
    /\ part = "memory2" => M2!AnswersHold /\ M2!RecallReaches /\ M2!RecallsCounted
SkillsStay == N!ActiveStays /\ N!GroupsFollow /\ N!CatalogStays
AnsweredStays == MemoryHolds /\ SkillsStay /\ K!AckedSurvives
\* Sessions: a file that reads well tells the newest turns, in order, once each, and
\* nothing said before a roll is shown to a message sent after it.
HistoryHolds == S!LoadTellsTheTurns /\ S!RollStartsFresh
\* RuleStore: the file is what the answered edits make of it, and a loop over the rules
\* ends over the table it began with.
RulesHold == R!EditsKept /\ R!OneTableRuns
\* MessagePath: router and agent, who wait for each other, come to rest.
WayComesToRest == part = "way" => ComesToRest
=============================================================================
