------------------------------ MODULE StoresProofs ------------------------------
(***************************************************************************)
(* Proofs about what is kept in files (MCStores), and about the way of a    *)
(* message (MessagePath), for every value of the constants.  Each component *)
(* has its inductive invariant and a theorem of its own specification; the  *)
(* last section carries them over to the specification that the run checks. *)
(*                                                                          *)
(* The way of a message: in each chat the answers come in the order of the  *)
(* messages, one at most for each, after the note that the message is being *)
(* worked on, and when nothing is on its way no message waits for one.      *)
(* This holds for any messages in any number of chats, any lengths of the   *)
(* two queues and any faults, with the shipped rules or none.  Other rules  *)
(* may answer a message twice or never.                                     *)
(***************************************************************************)
EXTENDS MCStores, SequenceTheorems, TLAPS

Sizes ==
    /\ DOMAIN Traffic \subseteq Nat \ {0}
    /\ QueueLen \in Nat /\ RequestLen \in Nat
    /\ OtherRules \subseteq {<<>>}

Messages == DOMAIN Traffic

Inbound  == [type : {"message"}, of : Messages, text : {Traffic[m].text : m \in Messages}]
Outbound == [type : {"out_message"}, of : Messages, text : {"answer", "error"}]
Event    == Inbound \cup Outbound
Item     == [of : Messages, what : {"note", "fresh", "answer", "error"}]
Busy     == {"think", "tool", "track", "send", "untrack"}

\* Where the router task can be.
Idles == router = Resting
Defaults == router.at = "default" /\ rules = <<>> /\ router.event \in Inbound
Place(r, a) == router.rule = r /\ router.action = a
OnInbound ==
    /\ router.at = "rules" /\ rules = Shipped /\ router.event \in Inbound
    /\ Place(1, 1) \/ Place(1, 2) \/ Place(2, 1) \/ Place(3, 1)
OnOutbound ==
    /\ router.at = "rules" /\ rules = Shipped /\ router.event \in Outbound
    /\ Place(4, 1)

RouterType ==
    /\ router = [at |-> router.at, event |-> router.event, rule |-> router.rule,
                 action |-> router.action, last |-> router.last]
    /\ Idles \/ Defaults \/ OnInbound \/ OnOutbound

GateType ==
    /\ gate \in [Chats -> [of : Nat, at : {"idle", "send", "untrack"}]]
    /\ \A c \in Chats : gate[c].at # "idle" =>
          gate[c].of \in Messages /\ Traffic[gate[c].of].chat = c

AgentType ==
    \/ agent = Off
    \/ agent \in [at : {"think", "tool"}, of : Messages, text : {Empty}]
    \/ agent \in [at : {"track", "send", "untrack"}, of : Messages,
                  text : {"answer", "error"}]

TypeInv ==
    /\ Sizes /\ rules \in {Shipped, <<>>}
    /\ GateType /\ RouterType /\ AgentType
    /\ queue \in Seq(Event) /\ Len(queue) <= QueueLen
    /\ requests \in Seq(Messages) /\ Len(requests) <= RequestLen
    /\ chat \in [Chats -> Seq(Item)] /\ lost \subseteq Messages
-----------------------------------------------------------------------------
(* A message goes from place to place; these are the messages at each.        *)

AtGate == {m \in Messages : \E c \in Chats : gate[c].at # "idle" /\ gate[c].of = m}
InQueue(type) ==
    {m \in Messages : \E i \in DOMAIN queue : queue[i].type = type /\ queue[i].of = m}
Routed(type) == {m \in Messages : router.event.type = type /\ router.event.of = m}
Asked   == {m \in Messages : \E i \in DOMAIN requests : requests[i] = m}
AtAgent == {m \in Messages : agent # Off /\ agent.of = m}
Told    == {m \in Messages : \E i \in DOMAIN chat[Traffic[m].chat] :
               /\ chat[Traffic[m].chat][i].of = m
               /\ IsAnswer(chat[Traffic[m].chat][i])}

SameChat(m, n) == Traffic[m].chat = Traffic[n].chat
Ahead(Set0, T) == \A m \in Set0, n \in T : SameChat(m, n) => m < n

Chain(told, out, outs, working, asked, in, ins, gates) ==
    /\ Ahead(told, out \cup outs \cup working \cup asked \cup in \cup ins \cup gates)
    /\ Ahead(out, outs \cup working \cup asked \cup in \cup ins \cup gates)
    /\ Ahead(outs, working \cup asked \cup in \cup ins \cup gates)
    /\ Ahead(working, asked \cup in \cup ins \cup gates)
    /\ Ahead(asked, in \cup ins \cup gates)
    /\ Ahead(in, ins \cup gates)
    /\ Ahead(ins, gates)

InOrder ==
    Chain(Told, Routed("out_message"), InQueue("out_message"), AtAgent, Asked,
          Routed("message"), InQueue("message"), AtGate)

Underway == Routed("out_message") \cup InQueue("out_message") \cup AtAgent \cup Asked
            \cup Routed("message") \cup InQueue("message") \cup AtGate

\* What is under way or answered was taken up by its gateway.
TakenUp == \A m \in Told \cup Underway : m <= gate[Traffic[m].chat].of

QueueSorted ==
    \A i, j \in DOMAIN queue :
        i < j /\ queue[i].type = queue[j].type /\ SameChat(queue[i].of, queue[j].of)
            => queue[i].of < queue[j].of

RequestsSorted ==
    \A i, j \in DOMAIN requests :
        i < j /\ SameChat(requests[i], requests[j]) => requests[i] < requests[j]

\* A chat has only what belongs to its own messages.
ChatsApart == \A c \in Chats : \A i \in DOMAIN chat[c] : Traffic[chat[c][i].of].chat = c

OrderInv ==
    InOrder /\ TakenUp /\ QueueSorted /\ RequestsSorted /\ AnswersAreSorted /\ ChatsApart

\* A message that is past the second rule has its note.
Noted(m) ==
    \/ m \in lost
    \/ \E j \in DOMAIN chat[Traffic[m].chat] :
          chat[Traffic[m].chat][j] = [of |-> m, what |-> "note"]

PastNote ==
    Routed("out_message") \cup InQueue("out_message") \cup AtAgent \cup Asked
    \cup (IF router.rule = 3 THEN {router.event.of} ELSE {})

NoteInv == NotesComeFirst /\ (rules = Shipped => \A m \in PastNote : Noted(m))

\* No message gets out of sight.
FindInv ==
    \A m \in Messages :
        m \in lost \/ Answered(m) \/ m \in Unpublished(Traffic[m].chat) \/ m \in Underway

IInv == TypeInv /\ OrderInv /\ NoteInv /\ FindInv
-----------------------------------------------------------------------------
(* The shipped rules, one by one.                                             *)

LEMMA EmptyIsNone == Empty \notin {"message", "out_message", "new", "note", "fresh", "event", "answer", "error"}
  BY Zenon DEF Empty

LEMMA RuleFields ==
    ASSUME NEW i, NEW type, NEW text, NEW consume, NEW actions,
           Shipped[i] = Rule(type, text, consume, actions)
    PROVE  /\ Shipped[i].type = type
           /\ Shipped[i].text = text
           /\ Shipped[i].consume = consume
           /\ Shipped[i].actions = actions
  BY DEF Rule

LEMMA ShippedRules ==
    /\ DOMAIN Shipped = 1 .. 4
    /\ /\ Shipped[1].type = "message" /\ Shipped[1].text = "new" /\ Shipped[1].consume
       /\ Shipped[1].actions = <<Does("cap", Empty, FALSE), Does("send", "fresh", FALSE)>>
    /\ /\ Shipped[2].type = "message" /\ Shipped[2].text = Empty /\ ~ Shipped[2].consume
       /\ Shipped[2].actions = <<Does("send", "note", FALSE)>>
    /\ /\ Shipped[3].type = "message" /\ Shipped[3].text = Empty /\ Shipped[3].consume
       /\ Shipped[3].actions = <<Does("agent", Empty, FALSE)>>
    /\ /\ Shipped[4].type = "out_message" /\ Shipped[4].text = Empty /\ Shipped[4].consume
       /\ Shipped[4].actions = <<Does("send", "event", FALSE)>>
  <1>0. DOMAIN Shipped = 1 .. 4
    BY DEF Shipped
  <1>t. PICK yes : yes = TRUE
    OBVIOUS
  <1>f. PICK no : no = FALSE
    OBVIOUS
  <1>1. /\ Shipped[1].type = "message" /\ Shipped[1].text = "new" /\ Shipped[1].consume
        /\ Shipped[1].actions = <<Does("cap", Empty, FALSE), Does("send", "fresh", FALSE)>>
    <2>1. PICK does : does = <<Does("cap", Empty, FALSE), Does("send", "fresh", FALSE)>>
      OBVIOUS
    <2>2. Shipped[1] = Rule("message", "new", yes, does)
      BY <1>t, <2>1 DEF Shipped
    <2>3. /\ Shipped[1].type = "message" /\ Shipped[1].text = "new" /\ Shipped[1].consume = yes
          /\ Shipped[1].actions = does
      BY <2>2, RuleFields
    <2> QED
      BY <2>1, <2>3, <1>t, Zenon
  <1>2. /\ Shipped[2].type = "message" /\ Shipped[2].text = Empty /\ ~ Shipped[2].consume
        /\ Shipped[2].actions = <<Does("send", "note", FALSE)>>
    <2>1. PICK does : does = <<Does("send", "note", FALSE)>>
      OBVIOUS
    <2>2. Shipped[2] = Rule("message", Empty, no, does)
      BY <1>f, <2>1 DEF Shipped
    <2>3. /\ Shipped[2].type = "message" /\ Shipped[2].text = Empty /\ Shipped[2].consume = no
          /\ Shipped[2].actions = does
      BY <2>2, RuleFields
    <2> QED
      BY <2>1, <2>3, <1>f, Zenon
  <1>3. /\ Shipped[3].type = "message" /\ Shipped[3].text = Empty /\ Shipped[3].consume
        /\ Shipped[3].actions = <<Does("agent", Empty, FALSE)>>
    <2>1. PICK does : does = <<Does("agent", Empty, FALSE)>>
      OBVIOUS
    <2>2. Shipped[3] = Rule("message", Empty, yes, does)
      BY <1>t, <2>1 DEF Shipped
    <2>3. /\ Shipped[3].type = "message" /\ Shipped[3].text = Empty /\ Shipped[3].consume = yes
          /\ Shipped[3].actions = does
      BY <2>2, RuleFields
    <2> QED
      BY <2>1, <2>3, <1>t, Zenon
  <1>4. /\ Shipped[4].type = "out_message" /\ Shipped[4].text = Empty /\ Shipped[4].consume
        /\ Shipped[4].actions = <<Does("send", "event", FALSE)>>
    <2>1. PICK does : does = <<Does("send", "event", FALSE)>>
      OBVIOUS
    <2>2. Shipped[4] = Rule("out_message", Empty, yes, does)
      BY <1>t, <2>1 DEF Shipped
    <2>3. /\ Shipped[4].type = "out_message" /\ Shipped[4].text = Empty /\ Shipped[4].consume = yes
          /\ Shipped[4].actions = does
      BY <2>2, RuleFields
    <2> QED
      BY <2>1, <2>3, <1>t, Zenon
  <1> QED
    BY <1>0, <1>1, <1>2, <1>3, <1>4, Zenon

LEMMA ShippedTypes ==
    /\ DOMAIN Shipped = 1 .. 4
    /\ Shipped[1].type = "message" /\ Shipped[1].text = "new"
    /\ Shipped[2].type = "message" /\ Shipped[2].text = Empty
    /\ Shipped[3].type = "message" /\ Shipped[3].text = Empty
    /\ Shipped[4].type = "out_message" /\ Shipped[4].text = Empty
  BY ShippedRules, Zenon

LEMMA ShippedActions ==
    /\ Len(Shipped[1].actions) = 2
    /\ Shipped[1].actions[1] = Does("cap", Empty, FALSE)
    /\ Shipped[1].actions[2] = Does("send", "fresh", FALSE)
    /\ Len(Shipped[2].actions) = 1
    /\ Shipped[2].actions[1] = Does("send", "note", FALSE)
    /\ Len(Shipped[3].actions) = 1
    /\ Shipped[3].actions[1] = Does("agent", Empty, FALSE)
    /\ Len(Shipped[4].actions) = 1
    /\ Shipped[4].actions[1] = Does("send", "event", FALSE)
  <1> DEFINE cap == Does("cap", Empty, FALSE)
             fresh == Does("send", "fresh", FALSE)
             note == Does("send", "note", FALSE)
             agents == Does("agent", Empty, FALSE)
             event == Does("send", "event", FALSE)
  <1>1. /\ Shipped[1].actions = <<cap, fresh>> /\ Shipped[2].actions = <<note>>
        /\ Shipped[3].actions = <<agents>> /\ Shipped[4].actions = <<event>>
    BY ShippedRules, Zenon
  <1> HIDE DEF cap, fresh, note, agents, event
  <1>2. /\ Len(Shipped[1].actions) = 2
        /\ Shipped[1].actions[1] = cap /\ Shipped[1].actions[2] = fresh
        /\ Len(Shipped[2].actions) = 1 /\ Shipped[2].actions[1] = note
        /\ Len(Shipped[3].actions) = 1 /\ Shipped[3].actions[1] = agents
        /\ Len(Shipped[4].actions) = 1 /\ Shipped[4].actions[1] = event
    BY <1>1
  <1> QED
    BY <1>2, Zenon DEF cap, fresh, note, agents, event

LEMMA WhatMatches ==
    ASSUME rules = Shipped, NEW event \in Event
    PROVE  /\ DOMAIN rules = 1 .. 4
           /\ Matches(rules[1], event) <=> event \in Inbound /\ event.text = "new"
           /\ Matches(rules[2], event) <=> event \in Inbound
           /\ Matches(rules[3], event) <=> event \in Inbound
           /\ Matches(rules[4], event) <=> event \in Outbound
           /\ event.type \in {"message", "out_message"}
           /\ event.type = "message" <=> event \in Inbound
           /\ event.type = "out_message" <=> event \in Outbound
  <1>1. /\ event.type \in {"message", "out_message"}
        /\ event.type = "message" <=> event \in Inbound
        /\ event.type = "out_message" <=> event \in Outbound
    BY DEF Event, Inbound, Outbound
  <1> QED
    BY <1>1, ShippedTypes, EmptyIsNone DEF Matches

LEMMA FirstRule ==
    ASSUME rules = Shipped, NEW event \in Event
    PROVE  /\ event \in Outbound => NextRule(event, 0) = 4
           /\ event \in Inbound /\ event.text = "new" => NextRule(event, 0) = 1
           /\ event \in Inbound /\ event.text # "new" => NextRule(event, 0) = 2
           /\ event \in Inbound => NextRule(event, 2) = 3
  <1> DEFINE more(k) == {i \in DOMAIN rules : i > k /\ Matches(rules[i], event)}
             least(Set0) == CHOOSE i \in Set0 : \A j \in Set0 : i <= j
  <1>1. ASSUME NEW k PROVE NextRule(event, k) = IF more(k) = {} THEN 0 ELSE least(more(k))
    BY Zenon DEF NextRule
  <1>2. \A i \in DOMAIN rules : i \in {1, 2, 3, 4}
    BY WhatMatches
  <1>3. event \in Outbound => more(0) = {4}
    BY <1>2, WhatMatches
  <1>4. event \in Inbound /\ event.text = "new" => more(0) = {1, 2, 3}
    BY <1>2, WhatMatches
  <1>5. event \in Inbound /\ event.text # "new" => more(0) = {2, 3}
    BY <1>2, WhatMatches
  <1>6. event \in Inbound => more(2) = {3}
    BY <1>2, WhatMatches
  <1>7. least({4}) = 4 /\ least({1, 2, 3}) = 1 /\ least({2, 3}) = 2 /\ least({3}) = 3
    OBVIOUS
  <1> HIDE DEF more, least
  <1> QED
    BY <1>1, <1>3, <1>4, <1>5, <1>6, <1>7

LEMMA RulesAreNone ==
    ASSUME rules = <<>>, NEW event, NEW i PROVE NextRule(event, i) = 0
  BY DEF NextRule
-----------------------------------------------------------------------------
(* The router task in the shipped rules.                                      *)

\* Where the rules of a message, or of an answer, are run.
LEMMA WhereHeld ==
    ASSUME TypeInv, Held
    PROVE  /\ rules = Shipped /\ router.event \in Event /\ router # Resting
           /\ OnInbound \/ OnOutbound
           /\ Place(1, 1) \/ Place(1, 2) \/ Place(2, 1) \/ Place(3, 1) \/ Place(4, 1)
           /\ Place(4, 1) <=> router.event \in Outbound
           /\ ~ Place(4, 1) <=> router.event \in Inbound
  <1>1. router # Resting
    BY DEF Held, Resting
  <1>2. OnInbound \/ OnOutbound
    BY <1>1 DEF TypeInv, RouterType, Held, Idles, Defaults
  <1>3. Inbound \cap Outbound = {}
    BY DEF Inbound, Outbound
  <1> QED
    BY <1>1, <1>2, <1>3 DEF OnInbound, OnOutbound, Place, Event

LEMMA DoesFields ==
    ASSUME NEW kind, NEW text, NEW open
    PROVE  /\ Does(kind, text, open).kind = kind /\ Does(kind, text, open).text = text
           /\ Does(kind, text, open).open = open
  BY DEF Does

\* What is done there.
LEMMA NowIs ==
    ASSUME TypeInv, Held
    PROVE  /\ Place(1, 1) => Now.kind = "cap"
           /\ Place(1, 2) => Now.kind = "send" /\ Now.text = "fresh"
           /\ Place(2, 1) => Now.kind = "send" /\ Now.text = "note"
           /\ Place(3, 1) => Now.kind = "agent"
           /\ Place(4, 1) => Now.kind = "send" /\ Now.text = "event"
           /\ Now.open = FALSE
  <1>1. rules = Shipped
    BY WhereHeld
  <1>2. /\ Place(1, 1) => Now = Does("cap", Empty, FALSE)
        /\ Place(1, 2) => Now = Does("send", "fresh", FALSE)
        /\ Place(2, 1) => Now = Does("send", "note", FALSE)
        /\ Place(3, 1) => Now = Does("agent", Empty, FALSE)
        /\ Place(4, 1) => Now = Does("send", "event", FALSE)
    BY <1>1, ShippedActions, Zenon DEF Now, Place
  <1>3. PICK no : no = FALSE
    OBVIOUS
  <1>4. /\ Place(1, 1) => Now = Does("cap", Empty, no)
        /\ Place(1, 2) => Now = Does("send", "fresh", no)
        /\ Place(2, 1) => Now = Does("send", "note", no)
        /\ Place(3, 1) => Now = Does("agent", Empty, no)
        /\ Place(4, 1) => Now = Does("send", "event", no)
    BY <1>2, <1>3, Zenon
  <1>5. /\ Place(1, 1) => Now.kind = "cap"
        /\ Place(1, 2) => Now.kind = "send" /\ Now.text = "fresh"
        /\ Place(2, 1) => Now.kind = "send" /\ Now.text = "note"
        /\ Place(3, 1) => Now.kind = "agent"
        /\ Place(4, 1) => Now.kind = "send" /\ Now.text = "event"
        /\ Now.open = no
    BY <1>4, DoesFields, WhereHeld
  <1> QED
    BY <1>3, <1>5, Zenon

LEMMA SaidIs ==
    ASSUME TypeInv, Held
    PROVE  /\ Place(1, 2) => Said = "fresh"
           /\ Place(2, 1) => Said = "note"
           /\ Place(4, 1) => Said = router.event.text
  BY NowIs, EmptyIsNone DEF Said

\* How it goes on: the reset ends with its second action, or its first failure; the note
\* is followed by the agent, whether it was sent or not; and all else is the end.
Follows == router' = [router EXCEPT !.action = 2, !.last = router'.last]
Passes  == router' = [router EXCEPT !.rule = 3, !.action = 1, !.last = router'.last]

LEMMA NextRuleIs ==
    ASSUME TypeInv, Held
    PROVE  (IF rules[router.rule].consume THEN 0 ELSE NextRule(router.event, router.rule))
               = IF Place(2, 1) THEN 3 ELSE 0
  <1>1. rules[router.rule].consume <=> ~ Place(2, 1)
    BY WhereHeld, ShippedRules, Zenon DEF Place
  <1>2. Place(2, 1) => NextRule(router.event, router.rule) = 3
    BY WhereHeld, FirstRule DEF Place
  <1> QED
    BY <1>1, <1>2

LEMMA OnlyResetIsLonger ==
    ASSUME TypeInv, Held
    PROVE  router.action < Len(rules[router.rule].actions) <=> Place(1, 1)
  <1>1. /\ Len(Shipped[1].actions) = 2 /\ Len(Shipped[2].actions) = 1
        /\ Len(Shipped[3].actions) = 1 /\ Len(Shipped[4].actions) = 1
    BY ShippedActions, Zenon
  <1>2. /\ rules = Shipped
        /\ Place(1, 1) \/ Place(1, 2) \/ Place(2, 1) \/ Place(3, 1) \/ Place(4, 1)
    BY WhereHeld
  <1>3. PICK n : n = Len(rules[router.rule].actions)
    OBVIOUS
  <1>4. /\ router.rule = 1 => n = 2
        /\ router.rule \in {2, 3, 4} => n = 1
    BY <1>1, <1>2, <1>3
  <1>5. router.action < n <=> Place(1, 1)
    BY <1>2, <1>4 DEF Place
  <1> QED
    BY <1>3, <1>5

LEMMA AfterSuccess ==
    ASSUME TypeInv, Held, NEW last, After(TRUE, last)
    PROVE  /\ Place(1, 1) => Follows
           /\ Place(2, 1) => Passes
           /\ Place(1, 2) \/ Place(3, 1) \/ Place(4, 1) => router' = Resting
  <1> DEFINE next == IF rules[router.rule].consume THEN 0
                     ELSE NextRule(router.event, router.rule)
  <1>1. router' = IF router.action < Len(rules[router.rule].actions)
                  THEN [router EXCEPT !.action = @ + 1, !.last = last]
                  ELSE IF next = 0 THEN Resting
                  ELSE [router EXCEPT !.rule = next, !.action = 1, !.last = last]
    BY Zenon DEF After
  <1>2. router' = IF Place(1, 1) THEN [router EXCEPT !.action = @ + 1, !.last = last]
                  ELSE IF next = 0 THEN Resting
                  ELSE [router EXCEPT !.rule = next, !.action = 1, !.last = last]
    BY <1>1, OnlyResetIsLonger, Zenon
  <1>3. next = IF Place(2, 1) THEN 3 ELSE 0
    BY NextRuleIs
  <1> HIDE DEF next
  <1>4. CASE Place(1, 1)
    BY <1>2, <1>4 DEF TypeInv, RouterType, Follows, Place
  <1>5. CASE Place(2, 1)
    BY <1>2, <1>3, <1>5 DEF TypeInv, RouterType, Passes, Place
  <1>6. CASE Place(1, 2) \/ Place(3, 1) \/ Place(4, 1)
    BY <1>2, <1>3, <1>6 DEF Place
  <1> QED
    BY <1>4, <1>5, <1>6, WhereHeld

LEMMA AfterFailure ==
    ASSUME TypeInv, Held, NEW last, After(FALSE, last)
    PROVE  IF Place(2, 1) THEN Passes ELSE router' = Resting
  <1> DEFINE next == IF rules[router.rule].consume THEN 0
                     ELSE NextRule(router.event, router.rule)
  <1>1. ~ Now.open
    BY NowIs
  <1>2. router' = IF next = 0 THEN Resting
                  ELSE [router EXCEPT !.rule = next, !.action = 1, !.last = last]
    BY <1>1, Zenon DEF After
  <1>3. next = IF Place(2, 1) THEN 3 ELSE 0
    BY NextRuleIs
  <1> HIDE DEF next
  <1> QED
    BY <1>2, <1>3 DEF TypeInv, RouterType, Passes
-----------------------------------------------------------------------------
(* What a step of the router task does, with the shipped rules.               *)

Lose == lost' = lost \cup {router.event.of}

\* The reset of a session.
LEMMA CapStep ==
    ASSUME TypeInv, RunCap
    PROVE  /\ Held /\ Place(1, 1) /\ router.event \in Inbound
           /\ UNCHANGED <<rules, gate, queue, requests, agent, chat>>
           /\ \/ Follows /\ lost' = lost
              \/ router' = Resting /\ Lose
  <1>1. Held /\ Now.kind = "cap" /\ UNCHANGED <<rules, gate, queue, requests, agent, chat>>
    BY DEF RunCap
  <1>2. Place(1, 1) /\ router.event \in Inbound
    BY <1>1, NowIs, WhereHeld DEF Place
  <1>3. \/ After(TRUE, "output") /\ Counted(TRUE, TRUE)
        \/ After(FALSE, "cap error") /\ Counted(FALSE, TRUE)
    BY Zenon DEF RunCap
  <1>4. CASE After(TRUE, "output") /\ Counted(TRUE, TRUE)
    <2>1. lost' = lost
      BY <1>4, Zenon DEF Counted
    <2>2. Follows
      BY <1>1, <1>2, <1>4, AfterSuccess, Zenon
    <2> QED
      BY <1>1, <1>2, <2>1, <2>2
  <1>5. CASE After(FALSE, "cap error") /\ Counted(FALSE, TRUE)
    <2>1. Lose
      BY <1>5, Zenon DEF Counted, Lose
    <2>2. ~ Place(2, 1)
      BY <1>2 DEF Place
    <2>3. router' = Resting
      BY <1>1, <1>5, <2>2, AfterFailure, Zenon
    <2> QED
      BY <1>1, <1>2, <2>1, <2>3
  <1> QED
    BY <1>3, <1>4, <1>5, Zenon

\* A text that is sent: the note is followed by the agent, the others by nothing.
LEMMA SendStep ==
    ASSUME TypeInv, Send \/ SendNothing
    PROVE  /\ Held
           /\ Place(1, 2) \/ Place(2, 1) \/ Place(4, 1)
           /\ UNCHANGED <<rules, gate, queue, requests, agent>>
           /\ IF Place(2, 1) THEN Passes ELSE router' = Resting
           /\ \/ Shown(Home) /\ (lost' = lost \/ Lose)
              \/ chat' = chat /\ Lose
  <1>1. Held /\ Now.kind = "send" /\ UNCHANGED <<rules, gate, queue, requests, agent>>
    BY DEF Send, SendNothing
  <1>2. Place(1, 2) \/ Place(2, 1) \/ Place(4, 1)
    BY <1>1, NowIs, WhereHeld
  <1>3. \/ Shown(Home) /\ After(TRUE, Said) /\ Counted(TRUE, TRUE)
        \/ Shown(Home) /\ After(FALSE, "send error") /\ Counted(FALSE, TRUE)
        \/ chat' = chat /\ After(FALSE, "send error") /\ Counted(FALSE, TRUE)
        \/ chat' = chat /\ After(FALSE, router.last) /\ Counted(FALSE, FALSE)
    BY Zenon DEF Send, SendNothing
  <1>4. ASSUME NEW last, NEW told, After(FALSE, last), Counted(FALSE, told)
        PROVE  (IF Place(2, 1) THEN Passes ELSE router' = Resting) /\ Lose
    BY <1>1, <1>4, AfterFailure, Zenon DEF Counted, Lose
  <1>5. ASSUME After(TRUE, Said), Counted(TRUE, TRUE)
        PROVE  (IF Place(2, 1) THEN Passes ELSE router' = Resting) /\ lost' = lost
    <2>1. lost' = lost
      BY <1>5, Zenon DEF Counted
    <2> QED
      BY <1>1, <1>2, <1>5, <2>1, AfterSuccess
  <1> QED
    BY <1>1, <1>2, <1>3, <1>4, <1>5, Zenon

\* Nothing is dropped by the shipped rules.
LEMMA NoDrop ==
    ASSUME TypeInv PROVE ~ Drop
  BY NowIs, WhereHeld DEF Drop

\* The agent is asked, by the third rule or without rules.
LEMMA AgentStep ==
    ASSUME TypeInv, RunAgent \/ RunDefault
    PROVE  /\ UNCHANGED <<rules, gate, queue, agent, chat>>
           /\ router.event \in Inbound /\ router # Resting
           /\ Held => Place(3, 1)
           /\ ~ Held => rules = <<>>
           /\ router' = Resting
           /\ \/ /\ Len(requests) < RequestLen
                 /\ requests' = Append(requests, router.event.of) /\ lost' = lost
              \/ requests' = requests /\ Lose
  <1>1. UNCHANGED <<rules, gate, queue, agent, chat>>
    BY DEF RunAgent, RunDefault
  <1>2. \/ /\ Len(requests) < RequestLen
           /\ requests' = Append(requests, router.event.of) /\ lost' = lost
        \/ requests' = requests /\ Lose
    <2>1. \/ Submit(TRUE) /\ Counted(TRUE, TRUE)
          \/ Submit(FALSE) /\ Counted(FALSE, TRUE)
      BY Zenon DEF RunAgent, RunDefault
    <2> QED
      BY <2>1, Zenon DEF Submit, Counted, Queued, Lose
  <1>3. CASE RunAgent
    <2>1. Held /\ Now.kind = "agent"
      BY <1>3 DEF RunAgent
    <2>2. Place(3, 1) /\ router.event \in Inbound
      BY <2>1, NowIs, WhereHeld DEF Place
    <2>3. After(TRUE, "queued") \/ After(FALSE, "timeout")
      BY <1>3, Zenon DEF RunAgent
    <2>4. ~ Place(2, 1)
      BY <2>2 DEF Place
    <2>5. router' = Resting
      BY <2>1, <2>2, <2>3, <2>4, AfterSuccess, AfterFailure, Zenon
    <2> QED
      BY <1>1, <1>2, <2>1, <2>2, <2>5, WhereHeld
  <1>4. CASE RunDefault
    <2>1. router.at = "default" /\ router' = Resting
      BY <1>4 DEF RunDefault
    <2> QED
      BY <1>1, <1>2, <2>1
         DEF Held, TypeInv, RouterType, Idles, Defaults, OnInbound, OnOutbound, Resting
  <1> QED
    BY <1>3, <1>4

Entered(event, r) ==
    router' = [at |-> "rules", event |-> event, rule |-> r, action |-> 1, last |-> Empty]

\* An event is taken from the queue.
LEMMA ReceiveStep ==
    ASSUME TypeInv, Receive
    PROVE  /\ UNCHANGED <<rules, gate, requests, agent, chat>>
           /\ router = Resting /\ queue # <<>> /\ queue' = Tail(queue)
           /\ Head(queue) \in Event
           /\ \/ /\ rules = <<>> /\ Head(queue) \in Inbound /\ lost' = lost
                 /\ router' = [at |-> "default", event |-> Head(queue), rule |-> 0,
                               action |-> 1, last |-> Empty]
              \/ /\ rules = <<>> /\ Head(queue) \in Outbound
                 /\ router' = router /\ lost' = lost \cup {Head(queue).of}
              \/ /\ rules = Shipped /\ lost' = lost
                 /\ \/ /\ Head(queue) \in Inbound
                       /\ (Entered(Head(queue), 1) \/ Entered(Head(queue), 2))
                    \/ Head(queue) \in Outbound /\ Entered(Head(queue), 4)
  <1> DEFINE event == Head(queue)
  <1>1. /\ UNCHANGED <<rules, gate, requests, agent, chat>>
        /\ router.at = "idle" /\ queue # <<>> /\ queue' = Tail(queue)
    BY DEF Receive
  <1>2. router = Resting
    BY <1>1 DEF TypeInv, RouterType, Idles, Defaults, OnInbound, OnOutbound
  <1>3. event \in Event
    BY <1>1 DEF TypeInv
  <1>4. /\ event \in Inbound <=> event.type = "message"
        /\ event \in Inbound <=> ~ (event \in Outbound)
    BY <1>3 DEF Event, Inbound, Outbound
  <1>5. IF NextRule(event, 0) = 0 /\ ~ ToAgent(event)
        THEN router' = router /\ lost' = lost \cup {event.of}
        ELSE /\ router' = [Resting EXCEPT !.at = IF NextRule(event, 0) = 0 THEN "default" ELSE "rules",
                              !.event = event, !.rule = NextRule(event, 0), !.action = 1]
             /\ lost' = lost
    BY Zenon DEF Receive
  <1> HIDE DEF event
  <1>6. CASE rules = Shipped
    <2>1. \/ event \in Inbound /\ NextRule(event, 0) \in {1, 2}
          \/ event \in Outbound /\ NextRule(event, 0) = 4
      BY <1>3, <1>4, <1>6, FirstRule
    <2>2. PICK r : r = NextRule(event, 0)
      OBVIOUS
    <2>3. r # 0
      BY <2>1, <2>2
    <2>4. /\ lost' = lost
          /\ router' = [Resting EXCEPT !.at = "rules", !.event = event, !.rule = r, !.action = 1]
      BY <1>5, <2>2, <2>3, Zenon
    <2>5. Entered(event, r)
      BY <2>4 DEF Resting, Entered
    <2> QED
      BY <1>1, <1>2, <1>3, <1>6, <2>1, <2>2, <2>4, <2>5 DEF event
  <1>7. CASE rules = <<>>
    <2>1. NextRule(event, 0) = 0
      BY <1>7, RulesAreNone
    <2>2. CASE event \in Inbound
      <3>1. /\ router' = [at |-> "default", event |-> event, rule |-> 0, action |-> 1, last |-> Empty]
            /\ lost' = lost
        BY <1>4, <1>5, <2>1, <2>2 DEF Resting, ToAgent
      <3> QED
        BY <1>1, <1>2, <1>3, <1>7, <2>2, <3>1 DEF event
    <2>3. CASE event \in Outbound
      <3>1. router' = router /\ lost' = lost \cup {event.of}
        BY <1>4, <1>5, <2>1, <2>3 DEF ToAgent
      <3> QED
        BY <1>1, <1>2, <1>3, <1>7, <2>3, <3>1 DEF event
    <2> QED
      BY <1>3, <2>2, <2>3 DEF Event
  <1> QED
    BY <1>6, <1>7 DEF TypeInv
-----------------------------------------------------------------------------
(* Every step keeps the shape of the state.                                   *)

LEMMA InitType ==
    ASSUME Sizes, Init PROVE TypeInv
  <1>1. Sizes /\ rules \in {Shipped, <<>>}
    BY DEF Init, Sizes
  <1>2. GateType
    BY DEF Init, GateType
  <1>3. RouterType
    BY DEF Init, RouterType, Resting, Idles
  <1>4. AgentType
    BY DEF Init, AgentType
  <1>5. queue = <<>> /\ requests = <<>> /\ lost = {}
    BY DEF Init
  <1>6. chat \in [Chats -> Seq(Item)]
    BY DEF Init
  <1> QED
    BY <1>1, <1>2, <1>3, <1>4, <1>5, <1>6 DEF TypeInv, Sizes

\* The event the router has in hand is one of a message.
LEMMA InHand ==
    ASSUME TypeInv, router # Resting
    PROVE  router.event \in Event /\ router.event.of \in Messages
  <1>1. router.event \in Event
    BY DEF TypeInv, RouterType, Idles, Defaults, OnInbound, OnOutbound, Event
  <1> QED
    BY <1>1 DEF Event, Inbound, Outbound

\* The router's record after the steps that stay in the rules.
LEMMA StaysType ==
    ASSUME TypeInv, Held, rules' = rules,
           \/ Place(1, 1) /\ Follows
           \/ Place(2, 1) /\ Passes
    PROVE  RouterType'
  <1>1. /\ router = [at |-> router.at, event |-> router.event, rule |-> router.rule,
                     action |-> router.action, last |-> router.last]
        /\ router.at = "rules" /\ rules = Shipped /\ router.event \in Inbound
    BY WhereHeld DEF TypeInv, RouterType, Held, Place, OnInbound, OnOutbound
  <1> QED
    BY <1>1 DEF Place, Follows, Passes, RouterType, OnInbound

LEMMA RestsType ==
    ASSUME router' = Resting PROVE RouterType'
  BY DEF RouterType, Idles, Resting

LEMMA SaidType ==
    ASSUME TypeInv, Held, Place(1, 2) \/ Place(2, 1) \/ Place(4, 1)
    PROVE  Said \in {"note", "fresh", "answer", "error"}
  BY SaidIs, WhereHeld DEF Outbound

LEMMA HomeType ==
    ASSUME TypeInv, router # Resting PROVE Home \in Chats
  BY InHand DEF Home, Chats, Messages

LEMMA RouterKeepsType ==
    ASSUME TypeInv, RouterTask PROVE TypeInv'
  <1>0. Sizes' /\ rules' = rules /\ gate' = gate /\ agent' = agent
    BY DEF TypeInv, Sizes, RouterTask, Receive, RunCap, SendNothing, Send, RunAgent, Drop, RunDefault
  <1>1. GateType' /\ AgentType'
    BY <1>0 DEF TypeInv, GateType, AgentType
  <1>2. ASSUME RouterType', queue' = queue, requests' = requests, chat' = chat,
               lost' = lost \/ Lose, router # Resting
        PROVE  TypeInv'
    BY <1>0, <1>1, <1>2, InHand DEF TypeInv, Lose
  <1>3. CASE RunCap
    <2>1. RouterType'
      BY <1>3, CapStep, StaysType, RestsType
    <2> QED
      BY <1>2, <1>3, <2>1, CapStep, WhereHeld
  <1>4. CASE Send \/ SendNothing
    <2>1. RouterType'
      BY <1>0, <1>4, SendStep, StaysType, RestsType
    <2>2. router # Resting
      BY <1>4, SendStep, WhereHeld
    <2>3. CASE chat' = chat
      BY <1>2, <1>4, <2>1, <2>2, <2>3, SendStep
    <2>4. CASE Shown(Home)
      <3>1. [of |-> router.event.of, what |-> Said] \in Item
        BY <1>4, <2>2, SendStep, InHand, SaidType DEF Item
      <3>2. PICK item : item = [of |-> router.event.of, what |-> Said]
        OBVIOUS
      <3>3. Home \in Chats /\ chat' = [chat EXCEPT ![Home] = Append(chat[Home], item)]
        BY <2>2, <2>4, <3>2, HomeType DEF Shown
      <3>4. Append(chat[Home], item) \in Seq(Item)
        BY <3>1, <3>2, <3>3 DEF TypeInv
      <3>5. chat' \in [Chats -> Seq(Item)]
        BY <3>3, <3>4 DEF TypeInv
      <3>6. queue' = queue /\ requests' = requests /\ (lost' = lost \/ Lose)
        BY <1>4, SendStep
      <3> QED
        BY <1>0, <1>1, <2>1, <2>2, <3>5, <3>6, InHand DEF TypeInv, Lose
    <2> QED
      BY <1>4, <2>3, <2>4, SendStep
  <1>5. CASE RunAgent \/ RunDefault
    <2>1. RouterType'
      BY <1>5, AgentStep, RestsType
    <2>2. router # Resting /\ queue' = queue /\ chat' = chat
      BY <1>5, AgentStep
    <2>3. CASE requests' = requests /\ Lose
      BY <1>2, <2>1, <2>2, <2>3
    <2>4. CASE /\ Len(requests) < RequestLen
               /\ requests' = Append(requests, router.event.of) /\ lost' = lost
      <3>1. requests' \in Seq(Messages) /\ Len(requests') = Len(requests) + 1
        BY <2>2, <2>4, InHand DEF TypeInv
      <3>2. Len(requests') <= RequestLen
        BY <2>4, <3>1 DEF TypeInv, Sizes
      <3> QED
        BY <1>0, <1>1, <2>1, <2>2, <2>4, <3>1, <3>2 DEF TypeInv
    <2> QED
      BY <1>5, <2>3, <2>4, AgentStep
  <1>6. CASE Receive
    <2>0. queue' = Tail(queue) /\ queue # <<>> /\ queue \in Seq(Event)
      BY <1>6, ReceiveStep DEF TypeInv
    <2>1. queue' \in Seq(Event) /\ Len(queue') <= QueueLen
      BY <2>0 DEF TypeInv, Sizes
    <2>2. RouterType'
      BY <1>6, ReceiveStep
         DEF RouterType, Entered, Resting, Idles, Defaults, OnInbound, OnOutbound, Place
    <2>3. Head(queue).of \in Messages
      BY <1>6, ReceiveStep DEF Event, Inbound, Outbound
    <2>4. lost' \subseteq Messages
      BY <1>6, <2>3, ReceiveStep DEF TypeInv
    <2> QED
      BY <1>0, <1>1, <1>6, <2>1, <2>2, <2>4, ReceiveStep DEF TypeInv
  <1> QED
    BY <1>3, <1>4, <1>5, <1>6, NoDrop DEF RouterTask

LEMMA AgentKeepsType ==
    ASSUME TypeInv, AgentTask PROVE TypeInv'
  <1>0. Sizes' /\ rules' = rules /\ gate' = gate /\ router' = router /\ chat' = chat
    BY DEF TypeInv, Sizes, AgentTask, Take, Think, Tool, AgentTracks, AgentSends,
           AgentGivesUp, AgentUntracks
  <1>1. GateType' /\ RouterType'
    BY <1>0 DEF TypeInv, GateType, RouterType, Idles, Defaults, OnInbound, OnOutbound, Place
  <1>2. agent # Off => agent.of \in Messages
    BY DEF TypeInv, AgentType
  <1>3. CASE Take
    <2>1. Head(requests) \in Messages /\ requests' = Tail(requests) /\ requests # <<>>
      BY <1>3 DEF Take, TypeInv
    <2>2. AgentType'
      BY <1>3, <2>1 DEF Take, Off, AgentType
    <2>3. requests' \in Seq(Messages) /\ Len(requests') <= RequestLen
      BY <2>1 DEF TypeInv, Sizes
    <2> QED
      BY <1>0, <1>1, <1>3, <2>2, <2>3 DEF TypeInv, Take
  <1>4. CASE Think \/ Tool \/ AgentTracks \/ AgentGivesUp
    <2>1. AgentType'
      <3>1. CASE Think \/ Tool
        <4>1. agent \in [at : {"think", "tool"}, of : Messages, text : {Empty}]
          BY <3>1 DEF Think, Tool, TypeInv, AgentType, Off
        <4>2. \/ agent' = [agent EXCEPT !.at = "track", !.text = "answer"]
              \/ agent' = [agent EXCEPT !.at = "track", !.text = "error"]
              \/ agent' = [agent EXCEPT !.at = "tool"]
          BY <3>1 DEF Think, Tool
        <4> QED
          BY <4>1, <4>2 DEF AgentType
      <3>2. CASE AgentTracks \/ AgentGivesUp
        <4>1. agent \in [at : {"track", "send", "untrack"}, of : Messages,
                         text : {"answer", "error"}]
          BY <3>2 DEF AgentTracks, AgentGivesUp, TypeInv, AgentType, Off
        <4>2. \/ agent' = [agent EXCEPT !.at = "send"]
              \/ agent' = [agent EXCEPT !.at = "untrack"]
          BY <3>2 DEF AgentTracks, AgentGivesUp
        <4> QED
          BY <4>1, <4>2 DEF AgentType
      <3> QED
        BY <1>4, <3>1, <3>2
    <2> QED
      BY <1>0, <1>1, <1>4, <2>1 DEF Think, Tool, AgentTracks, AgentGivesUp, TypeInv
  <1>5. CASE AgentSends
    <2>1. agent.of \in Messages /\ agent.text \in {"answer", "error"}
      BY <1>5, EmptyIsNone DEF AgentSends, TypeInv, AgentType, Off
    <2>2. [type |-> "out_message", of |-> agent.of, text |-> agent.text] \in Event
      BY <2>1 DEF Event, Outbound
    <2>3. queue' \in Seq(Event) /\ Len(queue') = Len(queue) + 1
      BY <1>5, <2>2 DEF AgentSends, TypeInv
    <2>4. Len(queue') <= QueueLen
      BY <1>5, <2>3 DEF AgentSends, Room, TypeInv, Sizes
    <2>5. AgentType'
      BY <1>5 DEF AgentSends, AgentType
    <2> QED
      BY <1>0, <1>1, <1>5, <2>3, <2>4, <2>5 DEF TypeInv, AgentSends
  <1>6. CASE AgentUntracks
    <2>1. agent # Off /\ AgentType'
      BY <1>6 DEF AgentUntracks, AgentType, Off
    <2> QED
      BY <1>0, <1>1, <1>2, <1>6, <2>1 DEF TypeInv, AgentUntracks
  <1> QED
    BY <1>3, <1>4, <1>5, <1>6 DEF AgentTask

LEMMA GatesKeepType ==
    ASSUME TypeInv, NEW c \in Chats, Tracks(c) \/ Publish(c) PROVE TypeInv'
  <1>0. /\ Sizes' /\ rules' = rules /\ router' = router /\ agent' = agent
        /\ requests' = requests /\ chat' = chat
    BY DEF TypeInv, Sizes, Tracks, Publish, Sends, GivesUp, Untracks
  <1>1. RouterType' /\ AgentType'
    BY <1>0 DEF TypeInv, AgentType, RouterType, Idles, Defaults, OnInbound, OnOutbound, Place
  <1>2. gate[c].at # "idle" => gate[c].of \in Messages
    BY DEF TypeInv, GateType
  <1>3. GateType'
    <2>1. ASSUME NEW place \in {"idle", "send", "untrack"}, At(c, place), gate[c].at # "idle"
          PROVE  GateType'
      BY <2>1 DEF TypeInv, GateType, At
    <2>2. CASE Tracks(c)
      <3>1. PICK m \in Unpublished(c) : gate' = [gate EXCEPT ![c] = [of |-> m, at |-> "send"]]
        BY <2>2 DEF Tracks
      <3>2. m \in Messages /\ m \in Nat /\ Traffic[m].chat = c
        BY <3>1 DEF Unpublished, Messages, TypeInv, Sizes
      <3> QED
        BY <3>1, <3>2 DEF TypeInv, GateType
    <2> QED
      BY <2>1, <2>2 DEF Publish, Sends, GivesUp, Untracks
  <1>4. CASE Tracks(c) \/ GivesUp(c) \/ Untracks(c)
    BY <1>0, <1>1, <1>2, <1>3, <1>4 DEF TypeInv, Tracks, GivesUp, Untracks
  <1>5. CASE Sends(c)
    <2>1. [type |-> "message", of |-> gate[c].of, text |-> Traffic[gate[c].of].text] \in Event
      BY <1>2, <1>5 DEF Sends, Event, Inbound
    <2>2. queue' \in Seq(Event) /\ Len(queue') = Len(queue) + 1
      BY <1>5, <2>1 DEF Sends, TypeInv
    <2>3. Len(queue') <= QueueLen
      BY <1>5, <2>2 DEF Sends, Room, TypeInv, Sizes
    <2> QED
      BY <1>0, <1>1, <1>3, <1>5, <2>2, <2>3 DEF TypeInv, Sends
  <1> QED
    BY <1>4, <1>5 DEF Publish

LEMMA StutterKeepsType ==
    ASSUME TypeInv, UNCHANGED pvars PROVE TypeInv'
  BY DEF TypeInv, pvars, Sizes, GateType, RouterType, AgentType, Idles, Defaults, OnInbound,
         OnOutbound, Place

LEMMA NextType ==
    ASSUME TypeInv, [Next]_pvars PROVE TypeInv'
  BY RouterKeepsType, AgentKeepsType, GatesKeepType, StutterKeepsType DEF Next

\* The two queues are no longer than they may be, both tasks and each gateway are at one
\* of their places, and what was given up was written.
THEOREM TypeCorrect == ASSUME Sizes PROVE Spec => []TypeOK
  <1>1. TypeInv => TypeOK
    BY DEF TypeInv, TypeOK, RouterType, Idles, Defaults, OnInbound, OnOutbound, Resting,
           AgentType, Off, GateType, Messages
  <1> QED
    BY <1>1, InitType, NextType, PTL DEF Spec
-----------------------------------------------------------------------------
(* A message that goes on keeps its place in the order.                       *)

LEMMA TailIs ==
    ASSUME NEW Set0, NEW q \in Seq(Set0), q # <<>>
    PROVE  /\ Tail(q) \in Seq(Set0) /\ Head(q) = q[1] /\ 1 \in DOMAIN q
           /\ \A i \in DOMAIN Tail(q) :
                 i \in Nat /\ i > 0 /\ i + 1 \in DOMAIN q /\ Tail(q)[i] = q[i + 1]
           /\ \A i \in DOMAIN q : i # 1 => i - 1 \in DOMAIN Tail(q) /\ q[i] = Tail(q)[i - 1]
  OBVIOUS

LEMMA AppendIs ==
    ASSUME NEW Set0, NEW q \in Seq(Set0), NEW e \in Set0
    PROVE  /\ \A i \in DOMAIN q :
                 /\ i \in Nat /\ i < Len(q) + 1
                 /\ i \in DOMAIN Append(q, e) /\ Append(q, e)[i] = q[i]
           /\ Len(q) + 1 \in DOMAIN Append(q, e) /\ Append(q, e)[Len(q) + 1] = e
           /\ \A i \in DOMAIN Append(q, e) : i = Len(q) + 1 \/ i \in DOMAIN q
  OBVIOUS

LEMMA ChainLess ==
    ASSUME NEW t, NEW o, NEW u, NEW a, NEW q, NEW r, NEW s, NEW g,
           Chain(t, o, u, a, q, r, s, g),
           NEW t1 \in SUBSET t, NEW o1 \in SUBSET o, NEW u1 \in SUBSET u, NEW a1 \in SUBSET a,
           NEW q1 \in SUBSET q, NEW r1 \in SUBSET r, NEW s1 \in SUBSET s, NEW g1 \in SUBSET g
    PROVE  Chain(t1, o1, u1, a1, q1, r1, s1, g1)
  BY DEF Chain, Ahead

Leads(m, Set0) == \A n \in Set0 : SameChat(m, n) => m < n

\* The first of a queue becomes what is worked on.
LEMMA ChainTaken ==
    ASSUME NEW t, NEW o, NEW u, NEW a, NEW q, NEW r, NEW s, NEW g,
           Chain(t, o, u, a, q, r, s, g), NEW m, NEW rest, Leads(m, rest)
    PROVE  /\ o = {} /\ u = {m} \cup rest => Chain(t, {m}, rest, a, q, r, s, g)
           /\ a = {} /\ q = {m} \cup rest => Chain(t, o, u, {m}, rest, r, s, g)
           /\ r = {} /\ s = {m} \cup rest => Chain(t, o, u, a, q, {m}, rest, g)
  BY DEF Chain, Ahead, Leads

\* What was worked on joins the end of a queue, or of the chat.
LEMMA ChainJoined ==
    ASSUME NEW t, NEW o, NEW u, NEW a, NEW q, NEW r, NEW s, NEW g,
           Chain(t, o, u, a, q, r, s, g)
    PROVE  /\ Chain(t \cup o, {}, u, a, q, r, s, g)
           /\ Chain(t, o, u \cup a, {}, q, r, s, g)
           /\ Chain(t, o, u, a, q \cup r, {}, s, g)
  BY DEF Chain, Ahead

\* A gateway's message joins the queue; the gateway had no other.
LEMMA ChainSent ==
    ASSUME NEW t, NEW o, NEW u, NEW a, NEW q, NEW r, NEW s, NEW g,
           Chain(t, o, u, a, q, r, s, g),
           NEW m \in g, NEW rest \in SUBSET g, \A n \in rest : ~ SameChat(m, n)
    PROVE  Chain(t, o, u, a, q, r, s \cup {m}, rest)
  BY DEF Chain, Ahead

\* A gateway takes up a message that is later than all others of its chat.
LEMMA ChainTracked ==
    ASSUME NEW t, NEW o, NEW u, NEW a, NEW q, NEW r, NEW s, NEW g,
           Chain(t, o, u, a, q, r, s, g), NEW m,
           \A n \in t \cup o \cup u \cup a \cup q \cup r \cup s : SameChat(n, m) => n < m
    PROVE  Chain(t, o, u, a, q, r, s, g \cup {m})
  BY DEF Chain, Ahead
-----------------------------------------------------------------------------
(* The order at every place.                                                  *)

LEMMA SamePlaces ==
    /\ gate' = gate => AtGate' = AtGate
    /\ queue' = queue => /\ InQueue("message")' = InQueue("message")
                        /\ InQueue("out_message")' = InQueue("out_message")
                        /\ (QueueSorted => QueueSorted')
    /\ router' = router => /\ Routed("message")' = Routed("message")
                          /\ Routed("out_message")' = Routed("out_message")
    /\ requests' = requests => Asked' = Asked /\ (RequestsSorted => RequestsSorted')
    /\ agent' = agent => AtAgent' = AtAgent
    /\ chat' = chat => /\ Told' = Told
                      /\ (AnswersAreSorted => AnswersAreSorted')
                      /\ (ChatsApart => ChatsApart')
  BY DEF AtGate, InQueue, QueueSorted, Routed, Asked, RequestsSorted, AtAgent, Told,
         AnswersAreSorted, ChatsApart

LEMMA SameGates ==
    ASSUME TakenUp, gate' = gate, Told' \cup Underway' \subseteq Told \cup Underway
    PROVE  TakenUp'
  BY DEF TakenUp

\* The places after a step, each with no more than it may have.
LEMMA InOrderFrom ==
    ASSUME NEW t, NEW o, NEW u, NEW a, NEW q, NEW r, NEW s, NEW g,
           Chain(t, o, u, a, q, r, s, g),
           Told' \subseteq t, Routed("out_message")' \subseteq o,
           InQueue("out_message")' \subseteq u, AtAgent' \subseteq a, Asked' \subseteq q,
           Routed("message")' \subseteq r, InQueue("message")' \subseteq s, AtGate' \subseteq g
    PROVE  InOrder'
  <1>1. Chain(Told', Routed("out_message")', InQueue("out_message")', AtAgent', Asked',
              Routed("message")', InQueue("message")', AtGate')
    BY ChainLess
  <1> QED
    BY <1>1 DEF InOrder

\* The queue without its first event.
LEMMA QueueTail ==
    ASSUME TypeInv, QueueSorted, queue # <<>>, queue' = Tail(queue)
    PROVE  /\ QueueSorted'
           /\ Head(queue).of \in Messages
           /\ \A type \in {"message", "out_message"} :
                 IF Head(queue).type = type
                 THEN /\ InQueue(type) = {Head(queue).of} \cup InQueue(type)'
                      /\ Leads(Head(queue).of, InQueue(type)')
                 ELSE InQueue(type)' = InQueue(type)
  <1>1. /\ queue \in Seq(Event) /\ Head(queue) = queue[1] /\ 1 \in DOMAIN queue
        /\ \A i \in DOMAIN queue' :
              i \in Nat /\ i > 0 /\ i + 1 \in DOMAIN queue /\ queue'[i] = queue[i + 1]
        /\ \A i \in DOMAIN queue : i # 1 => i - 1 \in DOMAIN queue' /\ queue[i] = queue'[i - 1]
    BY TailIs DEF TypeInv
  <1>2. Head(queue).of \in Messages
    BY <1>1 DEF Event, Inbound, Outbound
  <1>3. QueueSorted'
    BY <1>1 DEF QueueSorted, SameChat
  <1>4. ASSUME NEW type \in {"message", "out_message"}, NEW m \in Messages
        PROVE  m \in InQueue(type) <=> (queue[1].type = type /\ queue[1].of = m)
                                        \/ m \in InQueue(type)'
    <2>1. ASSUME m \in InQueue(type), ~ (queue[1].type = type /\ queue[1].of = m)
          PROVE  m \in InQueue(type)'
      <3>1. PICK i \in DOMAIN queue : queue[i].type = type /\ queue[i].of = m
        BY <2>1 DEF InQueue
      <3>2. i # 1 /\ i - 1 \in DOMAIN queue' /\ queue'[i - 1] = queue[i]
        BY <1>1, <2>1, <3>1
      <3> QED
        BY <3>1, <3>2 DEF InQueue
    <2>2. ASSUME m \in InQueue(type)' PROVE m \in InQueue(type)
      <3>1. PICK i \in DOMAIN queue' : queue'[i].type = type /\ queue'[i].of = m
        BY <2>2 DEF InQueue
      <3> QED
        BY <1>1, <3>1 DEF InQueue
    <2> QED
      BY <1>1, <2>1, <2>2 DEF InQueue
  <1>5. ASSUME NEW type \in {"message", "out_message"}, queue[1].type = type
        PROVE  Leads(queue[1].of, InQueue(type)')
    <2> SUFFICES ASSUME NEW n \in InQueue(type)', SameChat(queue[1].of, n)
                 PROVE  queue[1].of < n
      BY DEF Leads
    <2>1. PICK i \in DOMAIN queue' : queue'[i].type = type /\ queue'[i].of = n
      BY DEF InQueue
    <2>2. 1 < i + 1 /\ i + 1 \in DOMAIN queue /\ queue[i + 1].type = type /\ queue[i + 1].of = n
      BY <1>1, <2>1
    <2> QED
      BY <1>1, <1>5, <2>2 DEF QueueSorted
  <1>6. ASSUME NEW type \in {"message", "out_message"}, Head(queue).type = type
        PROVE  InQueue(type) = {Head(queue).of} \cup InQueue(type)'
    BY <1>1, <1>2, <1>4, <1>6 DEF InQueue
  <1>7. ASSUME NEW type \in {"message", "out_message"}, Head(queue).type # type
        PROVE  InQueue(type) = InQueue(type)'
    BY <1>1, <1>2, <1>4, <1>7 DEF InQueue
  <1> QED
    BY <1>1, <1>2, <1>3, <1>5, <1>6, <1>7

\* The queue with one event more.
LEMMA QueueAppended ==
    ASSUME TypeInv, QueueSorted, NEW event \in Event, queue' = Append(queue, event),
           \A n \in InQueue(event.type) : SameChat(n, event.of) => n < event.of
    PROVE  /\ QueueSorted'
           /\ \A type \in {"message", "out_message"} :
                 InQueue(type)' = IF event.type = type THEN InQueue(type) \cup {event.of}
                                  ELSE InQueue(type)
  <1> DEFINE last == Len(queue) + 1
  <1>1. /\ queue \in Seq(Event)
        /\ \A i \in DOMAIN queue :
              /\ i \in Nat /\ i < last /\ i \in DOMAIN queue' /\ queue'[i] = queue[i]
        /\ last \in DOMAIN queue' /\ queue'[last] = event
        /\ \A i \in DOMAIN queue' : i = last \/ i \in DOMAIN queue
    BY AppendIs DEF TypeInv
  <1>2. last \in Nat
    BY <1>1
  <1> HIDE DEF last
  <1>3. event.of \in Messages /\ \A i \in DOMAIN queue : queue[i].of \in Messages
    BY <1>1 DEF Event, Inbound, Outbound
  <1>4. QueueSorted'
    <2> SUFFICES ASSUME NEW i \in DOMAIN queue', NEW j \in DOMAIN queue', i < j,
                        queue'[i].type = queue'[j].type, SameChat(queue'[i].of, queue'[j].of)
                 PROVE  queue'[i].of < queue'[j].of
      BY DEF QueueSorted, SameChat
    <2>1. i \in DOMAIN queue
      BY <1>1, <1>2
    <2>2. CASE j \in DOMAIN queue
      BY <1>1, <2>1, <2>2 DEF QueueSorted
    <2>3. CASE j = last
      <3>1. queue[i].of \in InQueue(event.type)
        BY <1>1, <1>3, <2>1, <2>3 DEF InQueue
      <3> QED
        BY <1>1, <2>1, <2>3, <3>1
    <2> QED
      BY <1>1, <2>2, <2>3
  <1>5. ASSUME NEW type \in {"message", "out_message"}, NEW m \in Messages
        PROVE  m \in InQueue(type)' <=> m \in InQueue(type) \/ (event.type = type /\ event.of = m)
    BY <1>1 DEF InQueue
  <1>6. ASSUME NEW type \in {"message", "out_message"}
        PROVE  InQueue(type)' = IF event.type = type THEN InQueue(type) \cup {event.of}
                                ELSE InQueue(type)
    BY <1>3, <1>5 DEF InQueue
  <1> QED
    BY <1>4, <1>6

\* The agent's queue without its first request, and with one more.
LEMMA RequestsTail ==
    ASSUME TypeInv, RequestsSorted, requests # <<>>, requests' = Tail(requests)
    PROVE  /\ RequestsSorted' /\ Head(requests) \in Messages
           /\ Asked = {Head(requests)} \cup Asked' /\ Leads(Head(requests), Asked')
  <1>1. /\ requests \in Seq(Messages) /\ Head(requests) = requests[1] /\ 1 \in DOMAIN requests
        /\ \A i \in DOMAIN requests' :
              i \in Nat /\ i > 0 /\ i + 1 \in DOMAIN requests /\ requests'[i] = requests[i + 1]
        /\ \A i \in DOMAIN requests :
              i # 1 => i - 1 \in DOMAIN requests' /\ requests[i] = requests'[i - 1]
    BY TailIs DEF TypeInv
  <1>2. Head(requests) \in Messages
    BY <1>1
  <1>3. RequestsSorted'
    BY <1>1 DEF RequestsSorted, SameChat
  <1>4. ASSUME NEW m \in Messages
        PROVE  m \in Asked <=> requests[1] = m \/ m \in Asked'
    <2>1. ASSUME m \in Asked, requests[1] # m PROVE m \in Asked'
      <3>1. PICK i \in DOMAIN requests : requests[i] = m
        BY <2>1 DEF Asked
      <3> QED
        BY <1>1, <2>1, <3>1 DEF Asked
    <2>2. ASSUME m \in Asked' PROVE m \in Asked
      BY <1>1, <2>2 DEF Asked
    <2> QED
      BY <1>1, <2>1, <2>2 DEF Asked
  <1>5. Leads(Head(requests), Asked')
    <2> SUFFICES ASSUME NEW n \in Asked', SameChat(requests[1], n) PROVE requests[1] < n
      BY <1>1 DEF Leads
    <2>1. PICK i \in DOMAIN requests' : requests'[i] = n
      BY DEF Asked
    <2> QED
      BY <1>1, <2>1 DEF RequestsSorted
  <1>6. Asked = {Head(requests)} \cup Asked'
    BY <1>1, <1>2, <1>4 DEF Asked
  <1> QED
    BY <1>2, <1>3, <1>5, <1>6

LEMMA AskedAlso ==
    ASSUME TypeInv, NEW m \in Messages, requests' = Append(requests, m)
    PROVE  Asked' = Asked \cup {m}
  <1>1. /\ \A i \in DOMAIN requests : i \in DOMAIN requests' /\ requests'[i] = requests[i]
        /\ Len(requests) + 1 \in DOMAIN requests' /\ requests'[Len(requests) + 1] = m
        /\ \A i \in DOMAIN requests' : i = Len(requests) + 1 \/ i \in DOMAIN requests
    BY AppendIs DEF TypeInv
  <1>2. ASSUME NEW n \in Messages PROVE n \in Asked' <=> n \in Asked \/ n = m
    BY <1>1 DEF Asked
  <1> QED
    BY <1>2 DEF Asked

LEMMA RequestsAppended ==
    ASSUME TypeInv, RequestsSorted, NEW m \in Messages, requests' = Append(requests, m),
           \A n \in Asked : SameChat(n, m) => n < m
    PROVE  RequestsSorted' /\ Asked' = Asked \cup {m}
  <1> DEFINE last == Len(requests) + 1
  <1>1. /\ requests \in Seq(Messages)
        /\ \A i \in DOMAIN requests :
              /\ i \in Nat /\ i < last /\ i \in DOMAIN requests' /\ requests'[i] = requests[i]
        /\ last \in DOMAIN requests' /\ requests'[last] = m
        /\ \A i \in DOMAIN requests' : i = last \/ i \in DOMAIN requests
    BY AppendIs DEF TypeInv
  <1>2. last \in Nat
    BY <1>1
  <1> HIDE DEF last
  <1>3. RequestsSorted'
    <2> SUFFICES ASSUME NEW i \in DOMAIN requests', NEW j \in DOMAIN requests', i < j,
                        SameChat(requests'[i], requests'[j])
                 PROVE  requests'[i] < requests'[j]
      BY DEF RequestsSorted, SameChat
    <2>1. i \in DOMAIN requests
      BY <1>1, <1>2
    <2>2. CASE j \in DOMAIN requests
      BY <1>1, <2>1, <2>2 DEF RequestsSorted
    <2>3. CASE j = last
      BY <1>1, <2>1, <2>3 DEF Asked
    <2> QED
      BY <1>1, <2>2, <2>3
  <1> QED
    BY <1>3, AskedAlso

\* A chat with one item more.
LEMMA ChatAppended ==
    ASSUME TypeInv, AnswersAreSorted, ChatsApart, router # Resting, Said \in {"note", "fresh", "answer", "error"},
           Shown(Home),
           Said \in {"answer", "error"} =>
               \A n \in Told : SameChat(n, router.event.of) => n < router.event.of
    PROVE  /\ AnswersAreSorted' /\ ChatsApart'
           /\ Told' = IF Said \in {"answer", "error"} THEN Told \cup {router.event.of} ELSE Told
  <1> DEFINE last == Len(chat[Home]) + 1
             m    == router.event.of
  <1>1. m \in Messages /\ Home = Traffic[m].chat /\ Home \in Chats
    BY InHand, HomeType DEF Home
  <1>2. PICK item : item = [of |-> m, what |-> Said]
    OBVIOUS
  <1>3. item \in Item /\ item.of = m /\ item.what = Said
    BY <1>1, <1>2 DEF Item
  <1>4. /\ chat' = [chat EXCEPT ![Home] = Append(chat[Home], item)]
        /\ chat \in [Chats -> Seq(Item)]
    BY <1>2 DEF Shown, TypeInv
  <1>5. /\ chat'[Home] = Append(chat[Home], item) /\ chat[Home] \in Seq(Item)
        /\ \A c \in Chats : c # Home => chat'[c] = chat[c]
    BY <1>1, <1>4
  <1>6. /\ \A i \in DOMAIN chat[Home] :
              /\ i \in Nat /\ i < last /\ i \in DOMAIN chat'[Home]
              /\ chat'[Home][i] = chat[Home][i]
        /\ last \in DOMAIN chat'[Home] /\ chat'[Home][last] = item
        /\ \A i \in DOMAIN chat'[Home] : i = last \/ i \in DOMAIN chat[Home]
    BY <1>3, <1>5, AppendIs
  <1>7. last \in Nat
    BY <1>5
  <1>8. IsAnswer(item) <=> Said \in {"answer", "error"}
    BY <1>3 DEF IsAnswer
  <1>9. \A n \in Messages : Traffic[n].chat \in Chats
    BY DEF Chats, Messages
  <1> HIDE DEF last, m
  <1>10. ASSUME NEW n \in Messages
         PROVE  n \in Told' <=> n \in Told \/ (n = m /\ IsAnswer(item))
    <2>1. CASE Traffic[n].chat # Home
      BY <1>1, <1>5, <1>9, <2>1 DEF Told, IsAnswer
    <2>2. CASE Traffic[n].chat = Home
      BY <1>3, <1>6, <2>2, <1>1 DEF Told, IsAnswer
    <2> QED
      BY <2>1, <2>2
  <1>11. Told' = IF Said \in {"answer", "error"} THEN Told \cup {m} ELSE Told
    BY <1>1, <1>8, <1>10 DEF Told
  <1>12. AnswersAreSorted'
    <2> SUFFICES ASSUME NEW c \in Chats, NEW i \in DOMAIN chat'[c], NEW j \in DOMAIN chat'[c],
                        i < j, IsAnswer(chat'[c][i]), IsAnswer(chat'[c][j])
                 PROVE  chat'[c][i].of < chat'[c][j].of
      BY DEF AnswersAreSorted, IsAnswer
    <2>1. CASE c # Home
      BY <1>5, <2>1 DEF AnswersAreSorted
    <2>2. CASE c = Home /\ j \in DOMAIN chat[Home]
      <3>1. i \in DOMAIN chat[Home]
        BY <1>6, <1>7, <2>2
      <3> QED
        BY <1>6, <2>2, <3>1 DEF AnswersAreSorted
    <2>3. CASE c = Home /\ j = last
      <3>1. i \in DOMAIN chat[Home] /\ chat'[Home][i] = chat[Home][i]
        BY <1>6, <1>7, <2>3
      <3>2. IsAnswer(item) /\ chat'[c][j] = item
        BY <1>6, <2>3
      <3>3. PICK n : n = chat[Home][i].of
        OBVIOUS
      <3>4. chat[Home][i] \in Item
        BY <1>5, <3>1
      <3>5. n \in Messages
        BY <3>3, <3>4 DEF Item
      <3>6. Traffic[n].chat = Home
        BY <1>1, <3>1, <3>3 DEF ChatsApart
      <3>7. n \in Told
        BY <2>3, <3>1, <3>3, <3>5, <3>6 DEF Told, IsAnswer
      <3>8. SameChat(n, m)
        BY <1>1, <3>6 DEF SameChat
      <3>9. n < m
        BY <1>8, <3>2, <3>7, <3>8 DEF m
      <3> QED
        BY <1>3, <2>3, <3>1, <3>2, <3>3, <3>9
    <2> QED
      BY <1>6, <2>1, <2>2, <2>3
  <1>13. ChatsApart'
    <2> SUFFICES ASSUME NEW c \in Chats, NEW i \in DOMAIN chat'[c]
                 PROVE  Traffic[chat'[c][i].of].chat = c
      BY DEF ChatsApart
    <2>1. CASE c # Home
      BY <1>5, <2>1 DEF ChatsApart
    <2>2. CASE c = Home /\ i = last
      BY <1>1, <1>3, <1>6, <2>2
    <2>3. CASE c = Home /\ i \in DOMAIN chat[Home]
      BY <1>6, <2>3 DEF ChatsApart
    <2> QED
      BY <1>6, <2>1, <2>2, <2>3
  <1> QED
    BY <1>11, <1>12, <1>13 DEF m
-----------------------------------------------------------------------------
(* Every step keeps the order.                                                *)

LEMMA OnlyOneHand ==
    /\ router = Resting => Routed("message") = {} /\ Routed("out_message") = {}
    /\ \A event \in Event :
          router.event = event =>
              /\ event \in Inbound  => /\ Routed("message") = {event.of}
                                      /\ Routed("out_message") = {}
              /\ event \in Outbound => /\ Routed("out_message") = {event.of}
                                      /\ Routed("message") = {}
  <1>1. router = Resting => Routed("message") = {} /\ Routed("out_message") = {}
    BY EmptyIsNone DEF Resting, NoEvent, Routed
  <1>2. ASSUME NEW event \in Event, router.event = event
        PROVE  /\ event \in Inbound  => /\ Routed("message") = {event.of}
                                       /\ Routed("out_message") = {}
               /\ event \in Outbound => /\ Routed("out_message") = {event.of}
                                       /\ Routed("message") = {}
    BY <1>2 DEF Routed, Event, Inbound, Outbound
  <1> QED
    BY <1>1, <1>2

LEMMA InitOrder ==
    ASSUME Sizes, Init PROVE OrderInv
  <1>1. /\ AtGate = {} /\ Told = {} /\ Asked = {} /\ AtAgent = {}
        /\ InQueue("message") = {} /\ InQueue("out_message") = {}
    BY DEF Init, AtGate, Told, Asked, AtAgent, InQueue, Chats, Messages
  <1>2. Routed("message") = {} /\ Routed("out_message") = {}
    BY OnlyOneHand DEF Init
  <1>3. InOrder /\ TakenUp
    BY <1>1, <1>2 DEF InOrder, Chain, Ahead, TakenUp, Underway
  <1> QED
    BY <1>3 DEF Init, OrderInv, QueueSorted, RequestsSorted, AnswersAreSorted, ChatsApart

\* The agent keeps its message until it sends it or gives it up.
LEMMA AgentWorks ==
    ASSUME TypeInv, Think \/ Tool \/ AgentTracks \/ AgentGivesUp
    PROVE  agent # Off /\ agent' # Off /\ agent'.of = agent.of
  <1>1. agent.at # "idle" /\ agent = [at |-> agent.at, of |-> agent.of, text |-> agent.text]
    BY DEF Think, Tool, AgentTracks, AgentGivesUp, Off, TypeInv, AgentType
  <1>2. \E at \in Busy, text \in {"answer", "error", agent.text} :
            agent' = [at |-> at, of |-> agent.of, text |-> text]
    BY <1>1 DEF Think, Tool, AgentTracks, AgentGivesUp, Busy
  <1> QED
    BY <1>1, <1>2 DEF Off, Busy

LEMMA SentIs ==
    ASSUME TypeInv, OrderInv, AgentSends
    PROVE  /\ QueueSorted' /\ InQueue("message")' = InQueue("message")
           /\ InQueue("out_message")' = InQueue("out_message") \cup {agent.of}
  <1>1. agent # Off /\ agent.text \in {"answer", "error"} /\ agent.of \in Messages
    BY EmptyIsNone DEF AgentSends, Off, TypeInv, AgentType
  <1>2. PICK event : event = [type |-> "out_message", of |-> agent.of, text |-> agent.text]
    OBVIOUS
  <1>3. /\ event \in Event /\ event.of = agent.of /\ event.type = "out_message"
        /\ queue' = Append(queue, event)
    BY <1>1, <1>2 DEF AgentSends, Event, Outbound
  <1>4. \A n \in InQueue("out_message") : SameChat(n, agent.of) => n < agent.of
    BY <1>1 DEF OrderInv, InOrder, Chain, Ahead, AtAgent
  <1> QED
    BY <1>3, <1>4, QueueAppended DEF OrderInv

\* The agent's task.
LEMMA AgentKeepsOrder ==
    ASSUME TypeInv, OrderInv, AgentTask PROVE OrderInv'
  <1>0. gate' = gate /\ router' = router /\ chat' = chat
    BY DEF AgentTask, Take, Think, Tool, AgentTracks, AgentSends, AgentGivesUp, AgentUntracks
  <1>1. /\ AtGate' = AtGate /\ Told' = Told /\ AnswersAreSorted' /\ ChatsApart'
        /\ Routed("message")' = Routed("message") /\ Routed("out_message")' = Routed("out_message")
    BY <1>0, SamePlaces DEF OrderInv
  <1>2. agent # Off => agent.of \in Messages /\ AtAgent = {agent.of}
    BY DEF TypeInv, AgentType, AtAgent
  <1>3. CASE Take
    <2>1. /\ requests # <<>> /\ requests' = Tail(requests) /\ queue' = queue /\ agent = Off
          /\ agent' # Off /\ agent'.of = Head(requests)
      BY <1>3 DEF Take, TypeInv, AgentType, Off
    <2>2. /\ RequestsSorted' /\ Head(requests) \in Messages
          /\ Asked = {Head(requests)} \cup Asked' /\ Leads(Head(requests), Asked')
      BY <2>1, RequestsTail DEF OrderInv
    <2>3. AtAgent = {} /\ AtAgent' = {Head(requests)}
      BY <2>1, <2>2 DEF AtAgent
    <2>4. /\ QueueSorted' /\ InQueue("message")' = InQueue("message")
          /\ InQueue("out_message")' = InQueue("out_message")
      BY <2>1, SamePlaces DEF OrderInv
    <2>5. InOrder'
      <3>1. Chain(Told, Routed("out_message"), InQueue("out_message"), AtAgent, Asked,
                  Routed("message"), InQueue("message"), AtGate)
        BY DEF OrderInv, InOrder
      <3>2. Chain(Told, Routed("out_message"), InQueue("out_message"), {Head(requests)},
                  Asked', Routed("message"), InQueue("message"), AtGate)
        BY <3>1, <2>2, <2>3, ChainTaken
      <3> QED
        BY <3>2, <1>1, <2>2, <2>3, <2>4, InOrderFrom
    <2>6. TakenUp'
      BY <1>0, <1>1, <2>2, <2>3, <2>4, SameGates DEF OrderInv, Underway
    <2> QED
      BY <1>1, <2>2, <2>4, <2>5, <2>6 DEF OrderInv
  <1>4. CASE Think \/ Tool \/ AgentTracks \/ AgentGivesUp
    <2>1. requests' = requests /\ queue' = queue
      BY <1>4 DEF Think, Tool, AgentTracks, AgentGivesUp
    <2>2. agent # Off /\ agent' # Off /\ agent'.of = agent.of
      BY <1>4, AgentWorks
    <2>3. AtAgent' = AtAgent
      BY <2>2 DEF AtAgent
    <2>4. /\ QueueSorted' /\ InQueue("message")' = InQueue("message")
          /\ InQueue("out_message")' = InQueue("out_message")
          /\ RequestsSorted' /\ Asked' = Asked
      BY <2>1, SamePlaces DEF OrderInv
    <2>5. InOrder'
      BY <1>1, <2>3, <2>4 DEF OrderInv, InOrder
    <2>6. TakenUp'
      BY <1>0, <1>1, <2>3, <2>4, SameGates DEF OrderInv, Underway
    <2> QED
      BY <1>1, <2>4, <2>5, <2>6 DEF OrderInv
  <1>5. CASE AgentSends
    <2>1. agent # Off /\ agent' = Off /\ requests' = requests
      BY <1>5, EmptyIsNone DEF AgentSends, Off, TypeInv, AgentType
    <2>5. /\ QueueSorted' /\ InQueue("message")' = InQueue("message")
          /\ InQueue("out_message")' = InQueue("out_message") \cup {agent.of}
      BY <1>5, SentIs
    <2>6. AtAgent' = {}
      BY <2>1 DEF AtAgent
    <2>7. RequestsSorted' /\ Asked' = Asked
      BY <2>1, SamePlaces DEF OrderInv
    <2>8. InOrder'
      <3>1. Chain(Told, Routed("out_message"), InQueue("out_message"), AtAgent, Asked,
                  Routed("message"), InQueue("message"), AtGate)
        BY DEF OrderInv, InOrder
      <3>2. Chain(Told, Routed("out_message"), InQueue("out_message") \cup AtAgent, {}, Asked,
                  Routed("message"), InQueue("message"), AtGate)
        BY <3>1, ChainJoined
      <3> QED
        BY <3>2, <1>1, <1>2, <2>1, <2>5, <2>6, <2>7, InOrderFrom
    <2>9. TakenUp'
      BY <1>0, <1>1, <1>2, <2>1, <2>5, <2>6, <2>7, SameGates DEF OrderInv, Underway
    <2> QED
      BY <1>1, <2>5, <2>7, <2>8, <2>9 DEF OrderInv
  <1>6. CASE AgentUntracks
    <2>1. agent' = Off /\ requests' = requests /\ queue' = queue
      BY <1>6 DEF AgentUntracks
    <2>2. AtAgent' = {}
      BY <2>1 DEF AtAgent
    <2>3. /\ QueueSorted' /\ InQueue("message")' = InQueue("message")
          /\ InQueue("out_message")' = InQueue("out_message")
          /\ RequestsSorted' /\ Asked' = Asked
      BY <2>1, SamePlaces DEF OrderInv
    <2>4. InOrder'
      <3>1. Chain(Told, Routed("out_message"), InQueue("out_message"), AtAgent, Asked,
                  Routed("message"), InQueue("message"), AtGate)
        BY DEF OrderInv, InOrder
      <3> QED
        BY <3>1, <1>1, <2>2, <2>3, InOrderFrom
    <2>5. TakenUp'
      BY <1>0, <1>1, <2>2, <2>3, SameGates DEF OrderInv, Underway
    <2> QED
      BY <1>1, <2>3, <2>4, <2>5 DEF OrderInv
  <1> QED
    BY <1>3, <1>4, <1>5, <1>6 DEF AgentTask

\* The router task.
LEMMA ReceiveKeepsOrder ==
    ASSUME TypeInv, OrderInv, Receive PROVE OrderInv'
  <1> DEFINE event == Head(queue)
  <1>0. /\ UNCHANGED <<gate, requests, agent, chat>> /\ router = Resting /\ queue # <<>>
        /\ queue' = Tail(queue) /\ event \in Event
    BY ReceiveStep
  <1>1. /\ AtGate' = AtGate /\ Told' = Told /\ AtAgent' = AtAgent /\ Asked' = Asked
        /\ AnswersAreSorted' /\ ChatsApart' /\ RequestsSorted'
    BY <1>0, SamePlaces DEF OrderInv
  <1>2. Routed("message") = {} /\ Routed("out_message") = {}
    BY <1>0, OnlyOneHand
  <1>3. QueueSorted' /\ event.of \in Messages
    BY <1>0, QueueTail DEF OrderInv
  <1>4. \/ event \in Inbound /\ event \notin Outbound /\ event.type = "message"
        \/ event \in Outbound /\ event \notin Inbound /\ event.type = "out_message"
    BY <1>0 DEF Event, Inbound, Outbound
  <1>5. IF event \in Inbound
        THEN /\ InQueue("message") = {event.of} \cup InQueue("message")'
             /\ Leads(event.of, InQueue("message")')
             /\ InQueue("out_message")' = InQueue("out_message")
        ELSE /\ InQueue("out_message") = {event.of} \cup InQueue("out_message")'
             /\ Leads(event.of, InQueue("out_message")')
             /\ InQueue("message")' = InQueue("message")
    BY <1>0, <1>4, QueueTail DEF OrderInv
  <1>6. \/ router' = Resting /\ event \in Outbound
        \/ router'.event = event
    BY ReceiveStep DEF Entered
  <1> HIDE DEF event
  <1>7. CASE router' = Resting /\ event \in Outbound
    <2>1. Routed("message")' = {} /\ Routed("out_message")' = {}
      BY <1>7, <1>2, <1>0 DEF Routed
    <2>2. InOrder'
      <3>1. Chain(Told, Routed("out_message"), InQueue("out_message"), AtAgent, Asked,
                  Routed("message"), InQueue("message"), AtGate)
        BY DEF OrderInv, InOrder
      <3> QED
        BY <3>1, <1>1, <1>2, <1>4, <1>5, <1>7, <2>1, InOrderFrom
    <2>3. TakenUp'
      BY <1>0, <1>1, <1>2, <1>4, <1>5, <1>7, <2>1, SameGates DEF OrderInv, Underway
    <2> QED
      BY <1>1, <1>3, <2>2, <2>3 DEF OrderInv
  <1>8. CASE router'.event = event /\ event \in Inbound
    <2>1. Routed("message")' = {event.of} /\ Routed("out_message")' = {}
      BY <1>3, <1>4, <1>8 DEF Routed
    <2>2. InOrder'
      <3>1. Chain(Told, Routed("out_message"), InQueue("out_message"), AtAgent, Asked,
                  Routed("message"), InQueue("message"), AtGate)
        BY DEF OrderInv, InOrder
      <3>2. Chain(Told, Routed("out_message"), InQueue("out_message"), AtAgent, Asked,
                  {event.of}, InQueue("message")', AtGate)
        BY <3>1, <1>2, <1>5, <1>8, ChainTaken
      <3> QED
        BY <3>2, <1>1, <1>2, <1>5, <1>8, <2>1, InOrderFrom
    <2>3. TakenUp'
      BY <1>0, <1>1, <1>2, <1>5, <1>8, <2>1, SameGates DEF OrderInv, Underway
    <2> QED
      BY <1>1, <1>3, <2>2, <2>3 DEF OrderInv
  <1>9. CASE router'.event = event /\ event \in Outbound
    <2>1. Routed("message")' = {} /\ Routed("out_message")' = {event.of}
      BY <1>3, <1>4, <1>9 DEF Routed
    <2>2. InOrder'
      <3>1. Chain(Told, Routed("out_message"), InQueue("out_message"), AtAgent, Asked,
                  Routed("message"), InQueue("message"), AtGate)
        BY DEF OrderInv, InOrder
      <3>2. Chain(Told, {event.of}, InQueue("out_message")', AtAgent, Asked,
                  Routed("message"), InQueue("message"), AtGate)
        BY <3>1, <1>2, <1>4, <1>5, <1>9, ChainTaken
      <3> QED
        BY <3>2, <1>1, <1>2, <1>4, <1>5, <1>9, <2>1, InOrderFrom
    <2>3. TakenUp'
      BY <1>0, <1>1, <1>2, <1>4, <1>5, <1>9, <2>1, SameGates DEF OrderInv, Underway
    <2> QED
      BY <1>1, <1>3, <2>2, <2>3 DEF OrderInv
  <1> QED
    BY <1>4, <1>6, <1>7, <1>8, <1>9

\* Nothing moves but that the router may have done with its event.
LEMMA HandKeepsOrder ==
    ASSUME OrderInv, UNCHANGED <<gate, queue, requests, agent>>,
           AnswersAreSorted', ChatsApart', Told' = Told,
           Routed("message")' \subseteq Routed("message"),
           Routed("out_message")' \subseteq Routed("out_message")
    PROVE  OrderInv'
  <1>1. /\ AtGate' = AtGate /\ AtAgent' = AtAgent /\ Asked' = Asked
        /\ InQueue("message")' = InQueue("message")
        /\ InQueue("out_message")' = InQueue("out_message")
        /\ QueueSorted' /\ RequestsSorted'
    BY SamePlaces DEF OrderInv
  <1>2. InOrder'
    BY <1>1 DEF OrderInv, InOrder, Chain, Ahead
  <1>3. TakenUp'
    BY <1>1, SameGates DEF OrderInv, Underway
  <1> QED
    BY <1>1, <1>2, <1>3 DEF OrderInv

\* The router's event after a step in the rules.
LEMMA HandAfter ==
    ASSUME TypeInv
    PROVE  /\ Follows \/ Passes => /\ Routed("message")' = Routed("message")
                                  /\ Routed("out_message")' = Routed("out_message")
                                  /\ router'.event = router.event
           /\ router' = Resting => /\ Routed("message")' = {}
                                  /\ Routed("out_message")' = {}
  <1>1. Follows \/ Passes => router'.event = router.event
    BY DEF TypeInv, RouterType, Follows, Passes
  <1>2. router' = Resting => router'.event.type = Empty
    BY DEF Resting, NoEvent
  <1> QED
    BY <1>1, <1>2, EmptyIsNone DEF Routed

LEMMA RulesKeepOrder ==
    ASSUME TypeInv, OrderInv, RunCap \/ Send \/ SendNothing \/ RunAgent \/ RunDefault
    PROVE  OrderInv'
  <1>1. CASE RunCap
    <2>1. /\ UNCHANGED <<gate, queue, requests, agent, chat>>
          /\ Follows \/ router' = Resting
      BY <1>1, CapStep
    <2> QED
      BY <2>1, HandAfter, HandKeepsOrder, SamePlaces DEF OrderInv
  <1>2. CASE Send \/ SendNothing
    <2>1. /\ Held /\ router # Resting /\ router.event \in Event
          /\ Place(1, 2) \/ Place(2, 1) \/ Place(4, 1)
          /\ UNCHANGED <<gate, queue, requests, agent>>
          /\ Passes \/ router' = Resting
          /\ Shown(Home) \/ chat' = chat
      BY <1>2, SendStep, WhereHeld
    <2>2. CASE chat' = chat
      BY <2>1, <2>2, HandAfter, HandKeepsOrder, SamePlaces DEF OrderInv
    <2>3. CASE Shown(Home) /\ ~ Place(4, 1)
      <3>1. Said \in {"note", "fresh"}
        BY <2>1, <2>3, SaidIs
      <3>2. AnswersAreSorted' /\ ChatsApart' /\ Told' = Told
        BY <2>1, <2>3, <3>1, ChatAppended DEF OrderInv
      <3> QED
        BY <2>1, <3>2, HandAfter, HandKeepsOrder
    <2>4. CASE Shown(Home) /\ Place(4, 1)
      <3>1. router.event \in Outbound /\ router.event.of \in Messages
        BY <2>1, <2>4, WhereHeld, InHand
      <3>2. Said \in {"answer", "error"}
        BY <2>1, <2>4, <3>1, SaidIs DEF Outbound
      <3>3. Routed("out_message") = {router.event.of} /\ Routed("message") = {}
        BY <2>1, <3>1, OnlyOneHand
      <3>4. \A n \in Told : SameChat(n, router.event.of) => n < router.event.of
        BY <3>3 DEF OrderInv, InOrder, Chain, Ahead
      <3>5. /\ AnswersAreSorted' /\ ChatsApart'
            /\ Told' = Told \cup Routed("out_message")
        BY <2>1, <2>4, <3>2, <3>3, <3>4, ChatAppended DEF OrderInv
      <3>6. router' = Resting
        <4>1. ~ Place(2, 1)
          BY <2>4 DEF Place
        <4> QED
          BY <1>2, <4>1, SendStep
      <3>7. Routed("message")' = {} /\ Routed("out_message")' = {}
        BY <3>6, HandAfter
      <3>8. /\ AtGate' = AtGate /\ AtAgent' = AtAgent /\ Asked' = Asked
            /\ InQueue("message")' = InQueue("message")
            /\ InQueue("out_message")' = InQueue("out_message")
            /\ QueueSorted' /\ RequestsSorted'
        BY <2>1, SamePlaces DEF OrderInv
      <3>9. InOrder'
        <4>1. Chain(Told \cup Routed("out_message"), {}, InQueue("out_message"), AtAgent, Asked,
                    Routed("message"), InQueue("message"), AtGate)
          BY ChainJoined DEF OrderInv, InOrder
        <4> QED
          BY <4>1, <3>5, <3>7, <3>8, InOrderFrom
      <3>10. TakenUp'
        BY <2>1, <3>3, <3>5, <3>7, <3>8, SameGates DEF OrderInv, Underway
      <3> QED
        BY <3>5, <3>8, <3>9, <3>10 DEF OrderInv
    <2> QED
      BY <2>1, <2>2, <2>3, <2>4
  <1>3. CASE RunAgent \/ RunDefault
    <2>1. /\ UNCHANGED <<gate, queue, agent, chat>> /\ router' = Resting
          /\ router # Resting /\ router.event \in Inbound
      BY <1>3, AgentStep
    <2>2. router.event \in Event /\ router.event.of \in Messages
      BY <2>1, InHand
    <2>3. Routed("message") = {router.event.of} /\ Routed("out_message") = {}
      BY <2>1, <2>2, OnlyOneHand
    <2>4. Routed("message")' = {} /\ Routed("out_message")' = {}
      BY <2>1, HandAfter
    <2>5. CASE requests' = requests
      BY <2>1, <2>3, <2>4, <2>5, HandKeepsOrder, SamePlaces DEF OrderInv
    <2>6. CASE requests' = Append(requests, router.event.of)
      <3>1. \A n \in Asked : SameChat(n, router.event.of) => n < router.event.of
        BY <2>3 DEF OrderInv, InOrder, Chain, Ahead
      <3>2. RequestsSorted' /\ Asked' = Asked \cup Routed("message")
        BY <2>2, <2>3, <2>6, <3>1, RequestsAppended DEF OrderInv
      <3>3. /\ AtGate' = AtGate /\ AtAgent' = AtAgent /\ Told' = Told
            /\ InQueue("message")' = InQueue("message")
            /\ InQueue("out_message")' = InQueue("out_message")
            /\ QueueSorted' /\ AnswersAreSorted' /\ ChatsApart'
        BY <2>1, SamePlaces DEF OrderInv
      <3>4. InOrder'
        <4>1. Chain(Told, Routed("out_message"), InQueue("out_message"), AtAgent,
                    Asked \cup Routed("message"), {}, InQueue("message"), AtGate)
          BY ChainJoined DEF OrderInv, InOrder
        <4> QED
          BY <4>1, <2>3, <2>4, <3>2, <3>3, InOrderFrom
      <3>5. TakenUp'
        BY <2>1, <2>3, <2>4, <3>2, <3>3, SameGates DEF OrderInv, Underway
      <3> QED
        BY <3>2, <3>3, <3>4, <3>5 DEF OrderInv
    <2> QED
      BY <1>3, <2>5, <2>6, AgentStep
  <1> QED
    BY <1>1, <1>2, <1>3

\* A gateway. It takes up what is later than all its chat has under way.
LEMMA TracksOrder ==
    ASSUME TypeInv, OrderInv, NEW c \in Chats, Tracks(c) PROVE OrderInv'
  <1>1. PICK m \in Unpublished(c) : gate' = [gate EXCEPT ![c] = [of |-> m, at |-> "send"]]
    BY DEF Tracks
  <1>2. /\ gate[c].at = "idle" /\ UNCHANGED <<queue, router, requests, agent, chat>>
        /\ m \in Messages /\ m \in Nat /\ Traffic[m].chat = c
        /\ gate[c].of \in Nat /\ gate[c].of < m
    BY <1>1 DEF Tracks, Unpublished, TypeInv, Sizes, GateType, Messages
  <1>3. /\ Told' = Told /\ Asked' = Asked /\ AtAgent' = AtAgent
        /\ InQueue("message")' = InQueue("message")
        /\ InQueue("out_message")' = InQueue("out_message")
        /\ Routed("message")' = Routed("message")
        /\ Routed("out_message")' = Routed("out_message")
        /\ QueueSorted' /\ RequestsSorted' /\ AnswersAreSorted' /\ ChatsApart'
    BY <1>2, SamePlaces DEF OrderInv
  <1>4. gate'[c] = [of |-> m, at |-> "send"] /\ \A d \in Chats : d # c => gate'[d] = gate[d]
    BY <1>1 DEF TypeInv, GateType
  <1>5. AtGate' \subseteq AtGate \cup {m}
    BY <1>4 DEF AtGate
  <1>6. \A n \in Told \cup Underway : n \in Nat /\ (Traffic[n].chat = c => n < m)
    <2>1. ASSUME NEW n \in Told \cup Underway
          PROVE  n \in Nat /\ n <= gate[Traffic[n].chat].of
      <3>1. n \in Messages
        BY DEF Told, Underway, InQueue, Routed, AtAgent, Asked, AtGate
      <3> QED
        BY <3>1 DEF OrderInv, TakenUp, TypeInv, Sizes, Messages
    <2> QED
      BY <1>2, <2>1
  <1>7. InOrder'
    <2>1. Chain(Told, Routed("out_message"), InQueue("out_message"), AtAgent, Asked,
                Routed("message"), InQueue("message"), AtGate)
      BY DEF OrderInv, InOrder
    <2>2. Chain(Told, Routed("out_message"), InQueue("out_message"), AtAgent, Asked,
                Routed("message"), InQueue("message"), AtGate \cup {m})
      BY <1>2, <1>6, <2>1, ChainTracked DEF Underway, SameChat
    <2> QED
      BY <1>3, <1>5, <2>2, InOrderFrom
  <1>8. TakenUp'
    <2> SUFFICES ASSUME NEW n \in Told \cup Underway \cup {m}
                 PROVE  n <= gate'[Traffic[n].chat].of
      BY <1>3, <1>5 DEF TakenUp, Underway
    <2>1. CASE Traffic[n].chat = c
      BY <1>2, <1>4, <1>6, <2>1
    <2>2. CASE Traffic[n].chat # c
      <3>1. n \in Told \cup Underway /\ n \in Messages
        BY <1>2, <2>2 DEF Told, Underway, InQueue, Routed, AtAgent, Asked, AtGate
      <3> QED
        BY <1>4, <2>2, <3>1 DEF OrderInv, TakenUp, Chats, Messages
    <2> QED
      BY <2>1, <2>2
  <1> QED
    BY <1>3, <1>7, <1>8 DEF OrderInv

\* A gateway that leaves its message where it is, in the queue, or out of it.
LEMMA LeavesGate ==
    ASSUME TypeInv, NEW c \in Chats, NEW place \in {"idle", "untrack"}, gate[c].at # "idle",
           At(c, place)
    PROVE  /\ \A d \in Chats : gate'[d].of = gate[d].of
           /\ gate[c].of \in AtGate /\ Traffic[gate[c].of].chat = c
           /\ AtGate' = IF place = "idle" THEN AtGate \ {gate[c].of} ELSE AtGate
           /\ \A n \in AtGate \ {gate[c].of} : ~ SameChat(gate[c].of, n)
  <1>1. /\ gate'[c].of = gate[c].of /\ gate'[c].at = place
        /\ \A d \in Chats : d # c => gate'[d] = gate[d]
    BY DEF At, TypeInv, GateType
  <1>2. \A d \in Chats : gate[d].at # "idle" => gate[d].of \in Messages /\ Traffic[gate[d].of].chat = d
    BY DEF TypeInv, GateType
  <1>3. AtGate' = IF place = "idle" THEN AtGate \ {gate[c].of} ELSE AtGate
    BY <1>1, <1>2 DEF AtGate
  <1>4. \A n \in AtGate \ {gate[c].of} : ~ SameChat(gate[c].of, n)
    BY <1>2 DEF AtGate, SameChat
  <1> QED
    BY <1>1, <1>2, <1>3, <1>4 DEF AtGate

LEMMA PutIs ==
    ASSUME TypeInv, OrderInv, NEW c \in Chats, Sends(c)
    PROVE  /\ QueueSorted' /\ InQueue("message")' = InQueue("message") \cup {gate[c].of}
           /\ InQueue("out_message")' = InQueue("out_message")
  <1> DEFINE m == gate[c].of
  <1>1. m \in AtGate /\ m \in Messages
    BY DEF Sends, TypeInv, GateType, AtGate
  <1>2. PICK event : event = [type |-> "message", of |-> m, text |-> Traffic[m].text]
    OBVIOUS
  <1>3. /\ event \in Event /\ event.type = "message" /\ event.of = m
        /\ queue' = Append(queue, event)
    BY <1>1, <1>2 DEF Sends, Event, Inbound
  <1>4. \A n \in InQueue("message") : SameChat(n, m) => n < m
    BY <1>1 DEF OrderInv, InOrder, Chain, Ahead
  <1> QED
    BY <1>3, <1>4, QueueAppended DEF OrderInv

LEMMA PublishOrder ==
    ASSUME TypeInv, OrderInv, NEW c \in Chats, Publish(c) PROVE OrderInv'
  <1> DEFINE m == gate[c].of
  <1>1. /\ gate[c].at # "idle" /\ UNCHANGED <<router, requests, agent, chat>>
        /\ At(c, "idle") \/ At(c, "untrack")
    BY DEF Publish, Sends, GivesUp, Untracks
  <1>2. /\ Told' = Told /\ Asked' = Asked /\ AtAgent' = AtAgent
        /\ Routed("message")' = Routed("message")
        /\ Routed("out_message")' = Routed("out_message")
        /\ RequestsSorted' /\ AnswersAreSorted' /\ ChatsApart'
    BY <1>1, SamePlaces DEF OrderInv
  <1>3. /\ \A d \in Chats : gate'[d].of = gate[d].of
        /\ m \in AtGate /\ Traffic[m].chat = c /\ m \in Messages
        /\ AtGate' \subseteq AtGate
        /\ \A n \in AtGate \ {m} : ~ SameChat(m, n)
    BY <1>1, LeavesGate DEF AtGate
  <1>4. Chain(Told, Routed("out_message"), InQueue("out_message"), AtAgent, Asked,
              Routed("message"), InQueue("message"), AtGate)
    BY DEF OrderInv, InOrder
  <1>5. ASSUME Told' \cup Underway' \subseteq Told \cup Underway PROVE TakenUp'
    <2>1. \A n \in Told \cup Underway : Traffic[n].chat \in Chats
      BY DEF Told, Underway, InQueue, Routed, AtAgent, Asked, AtGate, Messages, Chats
    <2> QED
      BY <1>3, <1>5, <2>1 DEF OrderInv, TakenUp
  <1>6. CASE GivesUp(c) \/ Untracks(c)
    <2>1. queue' = queue
      BY <1>6 DEF GivesUp, Untracks
    <2>2. /\ InQueue("message")' = InQueue("message") /\ QueueSorted'
          /\ InQueue("out_message")' = InQueue("out_message")
      BY <2>1, SamePlaces DEF OrderInv
    <2>3. InOrder'
      BY <1>2, <1>3, <1>4, <2>2, InOrderFrom
    <2>4. TakenUp'
      BY <1>2, <1>3, <1>5, <2>2 DEF Underway
    <2> QED
      BY <1>2, <2>2, <2>3, <2>4 DEF OrderInv
  <1>7. CASE Sends(c)
    <2>4. /\ QueueSorted' /\ InQueue("message")' = InQueue("message") \cup {m}
          /\ InQueue("out_message")' = InQueue("out_message")
      BY <1>7, PutIs
    <2>5. AtGate' = AtGate \ {m}
      BY <1>1, <1>7, LeavesGate DEF Sends
    <2>6. InOrder'
      <3>1. Chain(Told, Routed("out_message"), InQueue("out_message"), AtAgent, Asked,
                  Routed("message"), InQueue("message") \cup {m}, AtGate \ {m})
        BY <1>3, <1>4, ChainSent
      <3> QED
        BY <1>2, <2>4, <2>5, <3>1, InOrderFrom
    <2>7. TakenUp'
      BY <1>2, <1>3, <1>5, <2>4, <2>5 DEF Underway
    <2> QED
      BY <1>2, <2>4, <2>6, <2>7 DEF OrderInv
  <1> QED
    BY <1>6, <1>7 DEF Publish

LEMMA NextOrder ==
    ASSUME TypeInv, OrderInv, [Next]_pvars PROVE OrderInv'
  <1>1. CASE UNCHANGED pvars
    <2>1. UNCHANGED <<gate, queue, router, requests, agent, chat>>
      BY <1>1 DEF pvars
    <2>2. AnswersAreSorted' /\ ChatsApart' /\ Told' = Told
      BY <2>1, SamePlaces DEF OrderInv
    <2> QED
      BY <2>1, <2>2, HandKeepsOrder, SamePlaces
  <1> QED
    BY <1>1, NoDrop, ReceiveKeepsOrder, RulesKeepOrder, AgentKeepsOrder, TracksOrder, PublishOrder
       DEF Next, RouterTask
-----------------------------------------------------------------------------
(* No answer without its note.                                                *)

\* A chat only grows, and no loss is forgotten.
Grows == \A c \in Chats : \A i \in DOMAIN chat[c] :
             i \in DOMAIN chat'[c] /\ chat'[c][i] = chat[c][i]

LEMMA NotedStays ==
    ASSUME lost \subseteq lost', Grows, NEW m \in Messages, Noted(m) PROVE Noted(m)'
  <1>1. Traffic[m].chat \in Chats
    BY DEF Chats, Messages
  <1> QED
    BY <1>1 DEF Noted, Grows

\* What a text does to the chat it is sent to.
LEMMA ShownIs ==
    ASSUME TypeInv, router # Resting, Said \in {"note", "fresh", "answer", "error"}, Shown(Home)
    PROVE  /\ Home \in Chats /\ Home = Traffic[router.event.of].chat
           /\ \A c \in Chats : c # Home => chat'[c] = chat[c]
           /\ \A i \in DOMAIN chat[Home] :
                 /\ i \in Nat /\ i < Len(chat[Home]) + 1
                 /\ i \in DOMAIN chat'[Home] /\ chat'[Home][i] = chat[Home][i]
           /\ Len(chat[Home]) + 1 \in DOMAIN chat'[Home]
           /\ chat'[Home][Len(chat[Home]) + 1] = [of |-> router.event.of, what |-> Said]
           /\ \A i \in DOMAIN chat'[Home] : i = Len(chat[Home]) + 1 \/ i \in DOMAIN chat[Home]
           /\ Len(chat[Home]) \in Nat
  <1>1. router.event.of \in Messages /\ Home \in Chats /\ Home = Traffic[router.event.of].chat
    BY InHand, HomeType DEF Home
  <1>2. PICK item : item = [of |-> router.event.of, what |-> Said]
    OBVIOUS
  <1>3. item \in Item
    BY <1>1, <1>2 DEF Item
  <1>4. /\ chat' = [chat EXCEPT ![Home] = Append(chat[Home], item)]
        /\ chat \in [Chats -> Seq(Item)]
    BY <1>2 DEF Shown, TypeInv
  <1>5. /\ chat'[Home] = Append(chat[Home], item) /\ chat[Home] \in Seq(Item)
        /\ \A c \in Chats : c # Home => chat'[c] = chat[c]
    BY <1>1, <1>4
  <1>6. /\ \A i \in DOMAIN chat[Home] :
              /\ i \in Nat /\ i < Len(chat[Home]) + 1
              /\ i \in DOMAIN chat'[Home] /\ chat'[Home][i] = chat[Home][i]
        /\ Len(chat[Home]) + 1 \in DOMAIN chat'[Home]
        /\ chat'[Home][Len(chat[Home]) + 1] = item
        /\ \A i \in DOMAIN chat'[Home] : i = Len(chat[Home]) + 1 \/ i \in DOMAIN chat[Home]
    BY <1>3, <1>5, AppendIs
  <1>7. Len(chat[Home]) \in Nat
    BY <1>5
  <1> QED
    BY <1>1, <1>2, <1>5, <1>6, <1>7

LEMMA NoteFrom ==
    ASSUME NoteInv, rules' = rules, lost \subseteq lost', chat' = chat,
           rules = Shipped => PastNote' \subseteq PastNote, PastNote \subseteq Messages
    PROVE  NoteInv'
  <1>1. Grows
    BY DEF Grows
  <1>2. rules' = Shipped => \A m \in PastNote' : Noted(m)'
    BY <1>1, NotedStays DEF NoteInv
  <1>3. NotesComeFirst'
    BY DEF NoteInv, NotesComeFirst, IsAnswer
  <1> QED
    BY <1>2, <1>3 DEF NoteInv

\* Only messages are past the second rule.
LEMMA PastIsMessages ==
    ASSUME TypeInv PROVE PastNote \subseteq Messages
  <1>1. router.rule = 3 => router # Resting
    BY DEF Resting
  <1> QED
    BY <1>1, InHand DEF PastNote, Routed, InQueue, AtAgent, Asked

\* What the agent's task moves, and what it loses.
LEMMA AgentMoves ==
    ASSUME TypeInv, OrderInv, AgentTask
    PROVE  /\ rules' = rules /\ gate' = gate /\ router' = router /\ chat' = chat
           /\ lost \subseteq lost'
           /\ InQueue("message")' = InQueue("message")
           /\ Asked' \cup AtAgent' \cup InQueue("out_message")'
                \subseteq Asked \cup AtAgent \cup InQueue("out_message")
           /\ Asked \cup AtAgent \cup InQueue("out_message")
                \subseteq Asked' \cup AtAgent' \cup InQueue("out_message")' \cup lost'
  <1>0. /\ rules' = rules /\ gate' = gate /\ router' = router /\ chat' = chat
        /\ lost \subseteq lost'
    BY DEF AgentTask, Take, Think, Tool, AgentTracks, AgentSends, AgentGivesUp, AgentUntracks
  <1>1. agent # Off => agent.of \in Messages /\ AtAgent = {agent.of}
    BY DEF TypeInv, AgentType, AtAgent
  <1>2. CASE Take
    <2>1. /\ requests # <<>> /\ requests' = Tail(requests) /\ queue' = queue
          /\ agent = Off /\ agent' # Off /\ agent'.of = Head(requests)
      BY <1>2 DEF Take, TypeInv, AgentType, Off
    <2>2. Asked = {Head(requests)} \cup Asked' /\ Head(requests) \in Messages
      BY <2>1, RequestsTail DEF OrderInv
    <2>3. AtAgent = {} /\ AtAgent' = {Head(requests)}
      BY <2>1, <2>2 DEF AtAgent
    <2> QED
      BY <1>0, <2>1, <2>2, <2>3, SamePlaces
  <1>3. CASE Think \/ Tool \/ AgentTracks \/ AgentGivesUp
    <2>1. requests' = requests /\ queue' = queue
      BY <1>3 DEF Think, Tool, AgentTracks, AgentGivesUp
    <2>2. AtAgent' = AtAgent
      BY <1>3, AgentWorks DEF AtAgent
    <2> QED
      BY <1>0, <2>1, <2>2, SamePlaces
  <1>4. CASE AgentSends
    <2>1. agent # Off /\ agent' = Off /\ requests' = requests
      BY <1>4, EmptyIsNone DEF AgentSends, Off, TypeInv, AgentType
    <2>2. AtAgent' = {}
      BY <2>1 DEF AtAgent
    <2>3. /\ InQueue("message")' = InQueue("message")
          /\ InQueue("out_message")' = InQueue("out_message") \cup {agent.of}
      BY <1>4, SentIs
    <2> QED
      BY <1>0, <1>1, <2>1, <2>2, <2>3, SamePlaces
  <1>5. CASE AgentUntracks
    <2>1. agent' = Off /\ requests' = requests /\ queue' = queue /\ lost' = lost \cup {agent.of}
      BY <1>5 DEF AgentUntracks
    <2>2. AtAgent' = {} /\ AtAgent \subseteq {agent.of}
      BY <2>1 DEF AtAgent
    <2> QED
      BY <1>0, <2>1, <2>2, SamePlaces
  <1> QED
    BY <1>2, <1>3, <1>4, <1>5 DEF AgentTask

\* What the router moves and loses when it receives an event.
LEMMA ReceiveMoves ==
    ASSUME TypeInv, OrderInv, Receive
    PROVE  /\ UNCHANGED <<rules, gate, requests, agent, chat>> /\ lost \subseteq lost'
           /\ router'.rule # 3
           /\ Routed("out_message")' \cup InQueue("out_message")' \subseteq InQueue("out_message")
           /\ Underway \subseteq Underway' \cup lost'
  <1> DEFINE event == Head(queue)
  <1>0. /\ UNCHANGED <<rules, gate, requests, agent, chat>> /\ router = Resting /\ queue # <<>>
        /\ queue' = Tail(queue) /\ event \in Event
    BY ReceiveStep
  <1>1. /\ AtGate' = AtGate /\ AtAgent' = AtAgent /\ Asked' = Asked
        /\ Routed("message") = {} /\ Routed("out_message") = {}
    BY <1>0, SamePlaces, OnlyOneHand
  <1>2. \/ event \in Inbound /\ event \notin Outbound /\ event.type = "message"
        \/ event \in Outbound /\ event \notin Inbound /\ event.type = "out_message"
    BY <1>0 DEF Event, Inbound, Outbound
  <1>3. IF event \in Inbound
        THEN /\ InQueue("message") = {event.of} \cup InQueue("message")'
             /\ InQueue("out_message")' = InQueue("out_message")
        ELSE /\ InQueue("out_message") = {event.of} \cup InQueue("out_message")'
             /\ InQueue("message")' = InQueue("message")
    BY <1>0, <1>2, QueueTail DEF OrderInv
  <1>4. \/ router' = router /\ lost' = lost \cup {event.of} /\ event \in Outbound
        \/ router'.event = event /\ router'.rule # 3 /\ lost' = lost
    BY ReceiveStep DEF Entered
  <1>5. event.of \in Messages
    BY <1>0 DEF Event, Inbound, Outbound
  <1> HIDE DEF event
  <1>6. CASE router' = router /\ lost' = lost \cup {event.of} /\ event \in Outbound
    <2>1. Routed("message")' = {} /\ Routed("out_message")' = {}
      BY <1>1, <1>6, SamePlaces
    <2>2. router'.rule # 3
      BY <1>0, <1>6 DEF Resting
    <2> QED
      BY <1>0, <1>1, <1>2, <1>3, <1>6, <2>1, <2>2 DEF Underway
  <1>7. CASE router'.event = event /\ router'.rule # 3 /\ lost' = lost
    <2>1. /\ event \in Inbound => Routed("message")' = {event.of} /\ Routed("out_message")' = {}
          /\ event \notin Inbound => Routed("out_message")' = {event.of} /\ Routed("message")' = {}
      BY <1>2, <1>5, <1>7 DEF Routed
    <2> QED
      BY <1>0, <1>1, <1>2, <1>3, <1>7, <2>1 DEF Underway
  <1> QED
    BY <1>4, <1>6, <1>7

\* The router's hand, in the rules: what was in it is gone, or still there.
LEMMA HandMoves ==
    ASSUME TypeInv, router # Resting, UNCHANGED <<gate, queue, agent>>
    PROVE  /\ AtGate' = AtGate /\ AtAgent' = AtAgent
           /\ InQueue("message")' = InQueue("message")
           /\ InQueue("out_message")' = InQueue("out_message")
           /\ Routed("message") \cup Routed("out_message") = {router.event.of}
           /\ Follows \/ Passes \/ router' = Resting =>
                 Routed("out_message")' \subseteq Routed("out_message")
           /\ Follows \/ Passes => /\ Routed("message")' = Routed("message")
                                   /\ Routed("out_message")' = Routed("out_message")
  <1>1. router.event \in Inbound \/ router.event \in Outbound
    BY InHand DEF Event
  <1>2. Routed("message") \cup Routed("out_message") = {router.event.of}
    BY <1>1, InHand, OnlyOneHand
  <1> QED
    BY <1>2, SamePlaces, HandAfter

LEMMA CapKeepsNote ==
    ASSUME TypeInv, NoteInv, RunCap PROVE NoteInv'
  <1>1. /\ Held /\ Place(1, 1) /\ UNCHANGED <<rules, gate, queue, requests, agent, chat>>
        /\ Follows \/ router' = Resting
        /\ lost \subseteq lost'
    BY CapStep DEF Lose
  <1>2. router'.rule # 3
    <2>1. Follows => router'.rule = router.rule
      BY DEF Follows, TypeInv, RouterType
    <2>2. router' = Resting => router'.rule = 0
      BY DEF Resting
    <2> QED
      BY <1>1, <2>1, <2>2 DEF Place
  <1>3. PastNote' \subseteq PastNote
    BY <1>1, <1>2, WhereHeld, HandMoves, SamePlaces DEF PastNote
  <1> QED
    BY <1>1, <1>3, NoteFrom, PastIsMessages

LEMMA AgentIsNoted ==
    ASSUME TypeInv, NoteInv, RunAgent \/ RunDefault PROVE NoteInv'
  <1>1. /\ UNCHANGED <<rules, gate, queue, agent, chat>> /\ router # Resting
        /\ router' = Resting /\ lost \subseteq lost'
        /\ requests' = requests \/ requests' = Append(requests, router.event.of)
        /\ rules = Shipped => Held
        /\ Held => Place(3, 1)
    <2>1. Shipped # <<>>
      <3>1. 1 \in DOMAIN Shipped
        BY ShippedTypes
      <3>2. 1 \notin DOMAIN <<>>
        OBVIOUS
      <3> QED
        BY <3>1, <3>2, Zenon
    <2> QED
      BY <2>1, AgentStep DEF Lose
  <1>2. Asked' \subseteq Asked \cup {router.event.of}
    <2>1. CASE requests' = requests
      BY <2>1, SamePlaces
    <2>2. CASE requests' = Append(requests, router.event.of)
      BY <2>2, <1>1, InHand, AskedAlso
    <2> QED
      BY <1>1, <2>1, <2>2
  <1>3. router'.rule # 3
    BY <1>1 DEF Resting
  <1>4. rules = Shipped => PastNote' \subseteq PastNote
    BY <1>1, <1>2, <1>3, HandMoves DEF PastNote, Place
  <1> QED
    BY <1>1, <1>4, NoteFrom, PastIsMessages

\* The router sends: what it sends in the second rule is the note of what follows.
LEMMA SendKeepsNote ==
    ASSUME TypeInv, NoteInv, Send \/ SendNothing PROVE NoteInv'
  <1>0. PICK m : m = router.event.of
    OBVIOUS
  <1> DEFINE last == Len(chat[Home]) + 1
  <1>1. /\ Held /\ router # Resting /\ rules = Shipped /\ m \in Messages
        /\ Place(1, 2) \/ Place(2, 1) \/ Place(4, 1)
        /\ UNCHANGED <<rules, gate, queue, requests, agent>>
        /\ IF Place(2, 1) THEN Passes ELSE router' = Resting
        /\ \/ Shown(Home) /\ lost \subseteq lost'
           \/ chat' = chat /\ lost' = lost \cup {m}
    BY <1>0, SendStep, WhereHeld, InHand DEF Lose
  <1>2. Said \in {"note", "fresh", "answer", "error"}
    BY <1>1, SaidType
  <1>3. Shown(Home) =>
           /\ Home \in Chats /\ Home = Traffic[m].chat /\ last \in Nat
           /\ \A c \in Chats : c # Home => chat'[c] = chat[c]
           /\ \A i \in DOMAIN chat[Home] : i \in Nat /\ i < last
           /\ \A i \in DOMAIN chat'[Home] : i = last \/ i \in DOMAIN chat[Home]
           /\ last \in DOMAIN chat'[Home] /\ chat'[Home][last] = [of |-> m, what |-> Said]
           /\ \A i \in DOMAIN chat[Home] :
                 i \in DOMAIN chat'[Home] /\ chat'[Home][i] = chat[Home][i]
    BY <1>0, <1>1, <1>2, ShownIs
  <1> HIDE DEF last
  <1>4. Grows
    BY <1>1, <1>3 DEF Grows
  <1>5. PastNote' \subseteq PastNote \cup (IF Place(2, 1) THEN {m} ELSE {})
    <2>1. Passes => router'.event = router.event
      BY HandAfter
    <2>2. router' = Resting => router'.rule # 3
      BY DEF Resting
    <2> QED
      BY <1>0, <1>1, <2>1, <2>2, HandMoves, SamePlaces DEF PastNote
  <1>6. ASSUME Place(2, 1) PROVE Noted(m)'
    <2>1. Said = "note"
      BY <1>1, <1>6, SaidIs
    <2>2. CASE Shown(Home)
      <3>1. /\ Home = Traffic[m].chat /\ last \in DOMAIN chat'[Home]
            /\ chat'[Home][last] = [of |-> m, what |-> "note"]
        BY <1>3, <2>1, <2>2
      <3> QED
        BY <3>1, Zenon DEF Noted
    <2>3. CASE lost' = lost \cup {m}
      BY <2>3 DEF Noted
    <2> QED
      BY <1>1, <2>2, <2>3
  <1>7. \A n \in PastNote' : Noted(n)'
    <2> SUFFICES ASSUME NEW n \in PastNote' PROVE Noted(n)'
      OBVIOUS
    <2>1. CASE n \in PastNote
      <3>1. n \in Messages /\ Noted(n) /\ lost \subseteq lost'
        BY <1>1, <2>1, PastIsMessages DEF NoteInv
      <3> QED
        BY <1>4, <3>1, NotedStays
    <2>2. CASE Place(2, 1) /\ n = m
      BY <1>6, <2>2
    <2> QED
      BY <1>5, <2>1, <2>2
  <1>8. NotesComeFirst'
    <2> SUFFICES ASSUME NEW c \in Chats, NEW k \in DOMAIN chat'[c], IsAnswer(chat'[c][k])
                 PROVE  \/ chat'[c][k].of \in lost'
                        \/ \E j \in 1 .. k - 1 :
                              chat'[c][j] = [of |-> chat'[c][k].of, what |-> "note"]
      BY DEF NotesComeFirst, IsAnswer
    <2>1. CASE k \in DOMAIN chat[c]
      <3>1. chat'[c][k] = chat[c][k] /\ IsAnswer(chat[c][k]) /\ lost \subseteq lost'
        BY <1>1, <1>4, <2>1 DEF Grows
      <3>2. \/ chat[c][k].of \in lost
            \/ \E j \in 1 .. k - 1 : chat[c][j] = [of |-> chat[c][k].of, what |-> "note"]
        BY <1>1, <2>1, <3>1 DEF NoteInv, NotesComeFirst
      <3>3. \A j \in 1 .. k - 1 : j \in DOMAIN chat[c]
        <4>1. chat[c] \in Seq(Item)
          BY DEF TypeInv
        <4> QED
          BY <2>1, <4>1
      <3> QED
        BY <1>4, <3>1, <3>2, <3>3 DEF Grows
    <2>2. CASE k \notin DOMAIN chat[c]
      <3>1. Shown(Home)
        BY <1>1, <2>2
      <3>2. c = Home /\ k = last /\ chat'[c][k] = [of |-> m, what |-> Said]
        BY <1>3, <2>2, <3>1
      <3>3. chat'[c][k].of = m /\ Said \in {"answer", "error"}
        BY <3>2 DEF IsAnswer
      <3>4. Place(4, 1)
        BY <1>1, <3>3, SaidIs
      <3>5. m \in PastNote
        BY <1>0, <1>1, <3>4, WhereHeld, OnlyOneHand DEF PastNote
      <3>6. \/ m \in lost
            \/ \E j \in DOMAIN chat[Home] : chat[Home][j] = [of |-> m, what |-> "note"]
        BY <1>1, <1>3, <3>1, <3>5 DEF NoteInv, Noted
      <3>7. \A j \in DOMAIN chat[Home] : j \in 1 .. k - 1 /\ chat'[Home][j] = chat[Home][j]
        <4>1. chat[Home] \in Seq(Item)
          BY <1>3, <3>1 DEF TypeInv
        <4> QED
          BY <1>3, <3>1, <3>2, <4>1
      <3> QED
        BY <1>1, <3>2, <3>3, <3>6, <3>7
    <2> QED
      BY <2>1, <2>2
  <1> QED
    BY <1>7, <1>8 DEF NoteInv

\* What a gateway moves.
LEMMA GateMoves ==
    ASSUME TypeInv, OrderInv, NEW c \in Chats, Tracks(c) \/ Publish(c)
    PROVE  /\ UNCHANGED <<rules, router, requests, agent, chat>> /\ lost \subseteq lost'
           /\ InQueue("out_message")' = InQueue("out_message")
           /\ AtGate \cup InQueue("message") \subseteq AtGate' \cup InQueue("message")' \cup lost'
           /\ \A d \in Chats, m \in Messages :
                 m \in Unpublished(d) => m \in Unpublished(d)' \cup AtGate'
  <1>1. UNCHANGED <<rules, router, requests, agent, chat>> /\ lost \subseteq lost'
    BY DEF Tracks, Publish, Sends, GivesUp, Untracks
  <1>2. CASE Tracks(c)
    <2>1. PICK m \in Unpublished(c) :
              /\ \A n \in Unpublished(c) : m <= n
              /\ gate' = [gate EXCEPT ![c] = [of |-> m, at |-> "send"]]
      BY <1>2 DEF Tracks
    <2>2. queue' = queue /\ gate[c].at = "idle" /\ m \in Messages
      BY <1>2 DEF Tracks, Unpublished, Messages
    <2>3. gate'[c] = [of |-> m, at |-> "send"] /\ \A d \in Chats : d # c => gate'[d] = gate[d]
      BY <2>1 DEF TypeInv, GateType
    <2>4. m \in AtGate' /\ AtGate \subseteq AtGate'
      BY <2>2, <2>3 DEF AtGate
    <2>5. ASSUME NEW d \in Chats, NEW n \in Messages, n \in Unpublished(d)
          PROVE  n \in Unpublished(d)' \cup AtGate'
      <3>1. CASE d # c
        BY <2>3, <2>5, <3>1 DEF Unpublished
      <3>2. CASE d = c /\ n # m
        BY <2>1, <2>2, <2>3, <2>5, <3>2 DEF Unpublished, TypeInv, Sizes, Messages
      <3> QED
        BY <2>4, <3>1, <3>2
    <2> QED
      BY <1>1, <2>2, <2>4, <2>5, SamePlaces
  <1>3. CASE Publish(c)
    <2>1. /\ gate[c].at # "idle"
          /\ \/ Sends(c) /\ At(c, "idle")
             \/ GivesUp(c) /\ At(c, "untrack") /\ queue' = queue
             \/ Untracks(c) /\ At(c, "idle") /\ queue' = queue /\ lost' = lost \cup {gate[c].of}
      BY <1>3 DEF Publish, Sends, GivesUp, Untracks
    <2>2. \A d \in Chats, m \in Messages : m \in Unpublished(d) => m \in Unpublished(d)'
      BY <2>1, LeavesGate DEF Unpublished
    <2>3. AtGate \subseteq AtGate' \cup {gate[c].of}
      BY <2>1, LeavesGate
    <2>4. CASE At(c, "untrack") /\ queue' = queue
      <3>1. AtGate' = AtGate
        BY <2>1, <2>4, LeavesGate
      <3> QED
        BY <1>1, <2>2, <2>4, <3>1, SamePlaces
    <2>6. CASE queue' = queue /\ lost' = lost \cup {gate[c].of}
      BY <1>1, <2>2, <2>3, <2>6, SamePlaces
    <2>5. CASE Sends(c)
      <3>1. /\ InQueue("message")' = InQueue("message") \cup {gate[c].of}
            /\ InQueue("out_message")' = InQueue("out_message")
        BY <2>5, PutIs
      <3> QED
        BY <1>1, <2>2, <2>3, <3>1
    <2> QED
      BY <2>1, <2>4, <2>5, <2>6
  <1> QED
    BY <1>2, <1>3

LEMMA NextNote ==
    ASSUME TypeInv, OrderInv, NoteInv, [Next]_pvars PROVE NoteInv'
  <1>1. CASE Receive
    <2>1. PastNote' \subseteq PastNote
      BY <1>1, ReceiveMoves, SamePlaces DEF PastNote
    <2> QED
      BY <1>1, <2>1, ReceiveMoves, NoteFrom, PastIsMessages
  <1>2. CASE AgentTask
    <2>1. PastNote' \subseteq PastNote
      BY <1>2, AgentMoves, SamePlaces DEF PastNote
    <2> QED
      BY <1>2, <2>1, AgentMoves, NoteFrom, PastIsMessages
  <1>3. ASSUME NEW c \in Chats, Tracks(c) \/ Publish(c) PROVE NoteInv'
    <2>1. PastNote' \subseteq PastNote
      BY <1>3, GateMoves, SamePlaces DEF PastNote
    <2> QED
      BY <1>3, <2>1, GateMoves, NoteFrom, PastIsMessages
  <1>4. CASE UNCHANGED pvars
    <2>1. UNCHANGED <<rules, queue, router, requests, agent, chat, lost>>
      BY <1>4 DEF pvars
    <2>2. PastNote' \subseteq PastNote
      BY <2>1, SamePlaces DEF PastNote
    <2> QED
      BY <2>1, <2>2, NoteFrom, PastIsMessages
  <1> QED
    BY <1>1, <1>2, <1>3, <1>4, CapKeepsNote, SendKeepsNote, AgentIsNoted, NoDrop
       DEF Next, RouterTask
-----------------------------------------------------------------------------
(* No message gets out of sight.                                              *)

LEMMA FindFrom ==
    ASSUME FindInv, lost \subseteq lost', Grows,
           \A m \in Messages :
               m \in Unpublished(Traffic[m].chat) =>
                   m \in Unpublished(Traffic[m].chat)' \cup Underway',
           \A m \in Underway : m \in Underway' \cup lost' \/ Answered(m)'
    PROVE  FindInv'
  <1>1. ASSUME NEW m \in Messages, Answered(m) PROVE Answered(m)'
    <2>1. Traffic[m].chat \in Chats
      BY DEF Chats, Messages
    <2> QED
      BY <1>1, <2>1 DEF Answered, Grows
  <1> QED
    BY <1>1 DEF FindInv

\* Without a gateway's step what is not published stays so.
LEMMA SameUnpublished ==
    ASSUME gate' = gate
    PROVE  \A m \in Messages :
               m \in Unpublished(Traffic[m].chat) => m \in Unpublished(Traffic[m].chat)'
  BY DEF Unpublished

LEMMA RulesFind ==
    ASSUME TypeInv, FindInv, RunCap \/ Send \/ SendNothing \/ RunAgent \/ RunDefault
    PROVE  FindInv'
  <1>0. PICK m : m = router.event.of
    OBVIOUS
  <1>1. CASE RunCap
    <2>1. /\ Held /\ router # Resting /\ UNCHANGED <<gate, queue, requests, agent, chat>>
          /\ lost \subseteq lost'
          /\ Follows \/ m \in lost'
      BY <1>0, <1>1, CapStep, WhereHeld DEF Lose
    <2>2. Underway \subseteq Underway' \cup lost'
      BY <1>0, <2>1, HandMoves, SamePlaces DEF Underway
    <2>3. Grows
      BY <2>1 DEF Grows
    <2> QED
      BY <2>1, <2>2, <2>3, FindFrom, SameUnpublished
  <1>2. CASE Send \/ SendNothing
    <2>1. /\ Held /\ router # Resting /\ m \in Messages
          /\ Place(1, 2) \/ Place(2, 1) \/ Place(4, 1)
          /\ UNCHANGED <<gate, queue, requests, agent>>
          /\ Place(2, 1) => Passes
          /\ \/ Shown(Home) /\ lost \subseteq lost'
             \/ chat' = chat /\ lost' = lost \cup {m}
      BY <1>0, <1>2, SendStep, WhereHeld, InHand DEF Lose
    <2>2. Said \in {"note", "fresh", "answer", "error"}
      BY <2>1, SaidType
    <2>3. Grows
      <3>1. CASE Shown(Home)
        BY <2>1, <2>2, <3>1, ShownIs DEF Grows
      <3> QED
        BY <2>1, <3>1 DEF Grows
    <2>4. ASSUME ~ Place(2, 1), Shown(Home) PROVE Answered(m)'
      <3>1. PICK text : text = Said
        OBVIOUS
      <3>2. text \in {"answer", "error", "fresh"}
        BY <2>1, <2>4, <3>1, SaidIs, WhereHeld DEF Outbound
      <3>3. PICK i \in DOMAIN chat'[Home] : chat'[Home][i] = [of |-> m, what |-> text]
        BY <1>0, <2>1, <2>2, <2>4, <3>1, ShownIs
      <3>4. Home = Traffic[m].chat
        BY <1>0 DEF Home
      <3> QED
        BY <3>2, <3>3, <3>4 DEF Answered
    <2>5. Underway \subseteq {m} \cup Underway'
      BY <1>0, <2>1, HandMoves, SamePlaces DEF Underway
    <2>6. Place(2, 1) => Underway \subseteq Underway'
      BY <1>0, <2>1, HandMoves, SamePlaces DEF Underway
    <2>7. \A n \in Underway : n \in Underway' \cup lost' \/ Answered(n)'
      <3> SUFFICES ASSUME NEW n \in Underway PROVE n \in Underway' \cup lost' \/ Answered(n)'
        OBVIOUS
      <3>1. CASE n = m
        BY <2>1, <2>4, <2>6, <3>1
      <3> QED
        BY <2>5, <3>1
    <2>8. lost \subseteq lost'
      BY <2>1
    <2> QED
      BY <2>1, <2>3, <2>7, <2>8, FindFrom, SameUnpublished
  <1>3. CASE RunAgent \/ RunDefault
    <2>1. /\ UNCHANGED <<gate, queue, agent, chat>> /\ router # Resting
          /\ m \in Messages /\ lost \subseteq lost'
          /\ \/ requests' = Append(requests, m)
             \/ requests' = requests /\ m \in lost'
      BY <1>0, <1>3, AgentStep, InHand DEF Lose
    <2>2. Asked \cup {m} \subseteq Asked' \cup lost'
      BY <2>1, AskedAlso, SamePlaces
    <2>3. Underway \subseteq Underway' \cup lost'
      BY <1>0, <2>1, <2>2, HandMoves DEF Underway
    <2>4. Grows
      BY <2>1 DEF Grows
    <2> QED
      BY <2>1, <2>3, <2>4, FindFrom, SameUnpublished
  <1> QED
    BY <1>1, <1>2, <1>3

LEMMA NextFind ==
    ASSUME TypeInv, OrderInv, FindInv, [Next]_pvars PROVE FindInv'
  <1>1. CASE Receive
    <2>1. Grows
      BY <1>1, ReceiveMoves DEF Grows
    <2> QED
      BY <1>1, <2>1, ReceiveMoves, FindFrom, SameUnpublished
  <1>2. CASE AgentTask
    <2>1. Grows
      BY <1>2, AgentMoves DEF Grows
    <2>2. Underway \subseteq Underway' \cup lost'
      BY <1>2, AgentMoves, SamePlaces DEF Underway
    <2> QED
      BY <1>2, <2>1, <2>2, AgentMoves, FindFrom, SameUnpublished
  <1>3. ASSUME NEW c \in Chats, Tracks(c) \/ Publish(c) PROVE FindInv'
    <2>1. Grows
      BY <1>3, GateMoves DEF Grows
    <2>2. Underway \subseteq Underway' \cup lost' /\ AtGate' \subseteq Underway'
      BY <1>3, GateMoves, SamePlaces DEF Underway
    <2>3. \A m \in Messages : Traffic[m].chat \in Chats
      BY DEF Messages, Chats
    <2>4. \A m \in Messages :
              m \in Unpublished(Traffic[m].chat) =>
                  m \in Unpublished(Traffic[m].chat)' \cup Underway'
      BY <1>3, <2>2, <2>3, GateMoves
    <2>5. lost \subseteq lost'
      BY <1>3, GateMoves
    <2> QED
      BY <2>1, <2>2, <2>4, <2>5, FindFrom
  <1>4. CASE UNCHANGED pvars
    <2>1. UNCHANGED <<gate, queue, router, requests, agent, chat, lost>>
      BY <1>4 DEF pvars
    <2>2. Grows /\ Underway' = Underway
      BY <2>1, SamePlaces DEF Grows, Underway
    <2> QED
      BY <2>1, <2>2, FindFrom, SameUnpublished
  <1> QED
    BY <1>1, <1>2, <1>3, <1>4, RulesFind, NoDrop DEF Next, RouterTask
-----------------------------------------------------------------------------
LEMMA InitInv ==
    ASSUME Sizes, Init PROVE IInv
  <1>1. TypeInv /\ OrderInv
    BY InitType, InitOrder
  <1>2. \A c \in Chats : chat[c] = <<>> /\ gate[c].of = 0
    BY DEF Init
  <1>3. NotesComeFirst
    BY <1>2 DEF NotesComeFirst
  <1>4. PastNote = {}
    <2>1. /\ Asked = {} /\ AtAgent = {} /\ InQueue("out_message") = {}
      BY DEF Init, Asked, AtAgent, InQueue
    <2>2. router = Resting /\ router.rule = 0
      BY DEF Init, Resting
    <2> QED
      BY <2>1, <2>2, OnlyOneHand DEF PastNote
  <1>5. FindInv
    <2> SUFFICES ASSUME NEW m \in Messages PROVE m \in Unpublished(Traffic[m].chat)
      BY DEF FindInv
    <2>1. Traffic[m].chat \in Chats /\ m \in Nat /\ m > 0
      BY DEF Messages, Chats, Sizes
    <2> QED
      BY <1>2, <2>1 DEF Unpublished, Messages
  <1> QED
    BY <1>1, <1>3, <1>4, <1>5 DEF IInv, NoteInv

LEMMA NextInv ==
    ASSUME IInv, [Next]_pvars PROVE IInv'
  BY NextType, NextOrder, NextNote, NextFind DEF IInv

LEMMA InvAnswers ==
    ASSUME IInv PROVE AnswersInOrder
  <1>1. EachIsAnswered
    <2> SUFFICES ASSUME AtRest, NEW m \in Messages
                 PROVE  m \in lost \/ Answered(m) \/ m \in Unpublished(Traffic[m].chat)
      BY DEF EachIsAnswered, Messages
    <2>1. /\ AtGate = {} /\ Asked = {} /\ AtAgent = {}
          /\ InQueue("message") = {} /\ InQueue("out_message") = {}
      BY DEF AtRest, AtGate, Asked, AtAgent, InQueue
    <2>2. Underway = {}
      BY <2>1, OnlyOneHand DEF AtRest, Underway
    <2> QED
      BY <2>2 DEF IInv, FindInv
  <1> QED
    BY <1>1 DEF IInv, OrderInv, NoteInv, AnswersInOrder

\* Whatever users write, in any number of chats, however long the queues are and whatever
\* is given up or fails: the answers of a chat come in the order of its messages, one at
\* most for each, after its note; and when the gateways, the router and the agent are at
\* rest, each message that was published is answered or was given up.
THEOREM AnswersComeInOrder == ASSUME Sizes PROVE Spec => []AnswersInOrder
  BY InitInv, NextInv, InvAnswers, PTL DEF Spec

-----------------------------------------------------------------------------
(* The rules: what an edit under way has made of file, copy and table, and     *)
(* what the loop over the rules has run.                                       *)

Places   == {"idle", "open", "fill", "remove", "rename", "swap"}
Contents == {None, Half} \cup Seq(R!Rule)
Edits    == editor[RuleEditor]

RuleType ==
    /\ file \in Contents /\ tmp \in Contents /\ table \in Seq(R!Rule)
    /\ editor = [e \in {RuleEditor} |-> editor[e]]
    /\ Edits = [at |-> Edits.at, new |-> Edits.new, op |-> Edits.op]
    /\ Edits.at \in Places /\ Edits.new \in Seq(R!Rule) /\ Edits.op \in R!Ops \cup {None}
    /\ hurt \in BOOLEAN

\* Where an edit is, the file, its copy and the table hold what the edit found or what
\* it makes of it.
Copied ==
    ~hurt =>
        /\ table = due
        /\ Edits.at \notin {"rename", "swap"} => R!Loaded = due
        /\ Edits.at \in {"open", "fill", "remove", "rename"} =>
              Edits.op # None /\ Edits.new = R!Edited(Edits.op, due)
        /\ Edits.at = "fill" => tmp = Half
        /\ Edits.at \in {"remove", "rename"} => tmp = Edits.new
        /\ Edits.at = "rename" => file = None
        /\ Edits.at = "swap" =>
              IF Edits.op = None THEN R!Loaded = due /\ Edits.new = due
              ELSE file = Edits.new /\ Edits.new = R!Edited(Edits.op, due)

\* What the loop over the rules has run so far.
Looping ==
    loop # None =>
        /\ loop = [i |-> loop.i, swaps |-> loop.swaps, rules |-> loop.rules]
        /\ loop.swaps = swaps /\ loop.rules = table
        /\ loop.i \in 1..(Len(table) + 1)
        /\ ran \in Seq([no : 1..Len(table), rule : R!Rule])
        /\ \A k \in 1..Len(ran) :
              /\ ran[k].no < loop.i /\ ran[k].rule = table[ran[k].no]
              /\ ran[k].rule.body \in Firing
              /\ ran[k].rule.body \in Consumes => k = Len(ran) /\ loop.i = Len(table) + 1
              /\ \A j \in 1..(k - 1) : ran[j].no < ran[k].no
        /\ \A i \in 1..(loop.i - 1) : table[i].body \in Firing =>
              \E k \in 1..Len(ran) :
                 ran[k].no = i \/ (ran[k].no < i /\ ran[k].rule.body \in Consumes)

RuleInv == RuleType /\ Copied /\ Looping

LEMMA NoRulesYet == <<>> \in Seq(R!Rule)
  OBVIOUS

LEMMA LoadedIs == ASSUME RuleType, file # Half PROVE R!Loaded \in Seq(R!Rule)
  BY NoRulesYet DEF RuleType, Contents, R!Loaded

\* An edit that is allowed makes a list of rules.
LEMMA EditedIs ==
    ASSUME NEW list \in Seq(R!Rule), NEW op \in R!Ops, R!Allowed(op, list)
    PROVE  R!Edited(op, list) \in Seq(R!Rule)
  <1>1. CASE op.kind = "add"
    <2>1. op.rule \in R!Rule
      BY <1>1 DEF R!Ops
    <2>2. <<op.rule>> \in Seq(R!Rule)
      BY <2>1
    <2>3. <<op.rule>> \o list \in Seq(R!Rule)
      BY <2>2, ConcatProperties
    <2> QED
      BY <1>1, <2>3 DEF R!Edited
  <1>2. CASE op.kind = "update"
    <2>1. op.rule \in R!Rule
      BY <1>2 DEF R!Ops
    <2>2. [i \in DOMAIN list |-> IF list[i].id = op.rule.id THEN op.rule ELSE list[i]]
             \in Seq(R!Rule)
      <3>1. DOMAIN list = 1..Len(list) /\ Len(list) \in Nat
            /\ \A i \in DOMAIN list : list[i] \in R!Rule
        OBVIOUS
      <3> HIDE DEF R!Rule
      <3> QED
        BY <2>1, <3>1
    <2> QED
      BY <1>2, <2>2 DEF R!Edited
  <1>3. CASE op.kind = "delete"
    <2> DEFINE p == R!Place(list, op.id)
    <2>1. \E i \in DOMAIN list : list[i].id = op.id
      BY <1>3 DEF R!Allowed, R!Holds
    <2>2. p \in DOMAIN list
      BY <2>1 DEF R!Place
    <2>3. p \in 1..Len(list) /\ Len(list) \in Nat
      BY <2>2
    <2> HIDE DEF p
    <2>4. SubSeq(list, 1, p - 1) \in Seq(R!Rule) /\ SubSeq(list, p + 1, Len(list)) \in Seq(R!Rule)
      BY <2>3, SubSeqProperties
    <2>5. R!RemoveAt(list, p) \in Seq(R!Rule)
      BY <2>4, ConcatProperties DEF R!RemoveAt
    <2> QED
      BY <1>3, <2>5 DEF R!Edited, p
  <1> QED
    BY <1>1, <1>2, <1>3 DEF R!Ops

LEMMA RuleInit == R!Init => RuleInv
  <1> SUFFICES ASSUME R!Init PROVE RuleInv
    OBVIOUS
  <1>1. Edits = R!Idle
    BY DEF R!Init, Edits
  <1>2. RuleType
    BY <1>1, NoRulesYet DEF R!Init, RuleType, Contents, R!Idle, Places
  <1>3. Copied
    BY <1>1 DEF R!Init, Copied, R!Loaded, R!Idle
  <1>4. Looping
    BY DEF R!Init, Looping
  <1> QED
    BY <1>2, <1>3, <1>4 DEF RuleInv

\* An edit goes on: of the editor's record only some parts change.
LEMMA Moved ==
    ASSUME RuleType, NEW q,
           q = [at |-> q.at, new |-> q.new, op |-> q.op],
           q.at \in Places, q.new \in Seq(R!Rule), q.op \in R!Ops \cup {None},
           editor' = [editor EXCEPT ![RuleEditor] = q]
    PROVE  /\ Edits' = q /\ Edits'.at = q.at /\ Edits'.new = q.new /\ Edits'.op = q.op
           /\ editor' = [e \in {RuleEditor} |-> editor'[e]]
           /\ Edits' = [at |-> Edits'.at, new |-> Edits'.new, op |-> Edits'.op]
           /\ Edits'.at \in Places /\ Edits'.new \in Seq(R!Rule)
           /\ Edits'.op \in R!Ops \cup {None}
  <1>1. editor'[RuleEditor] = q
    BY DEF RuleType
  <1>2. editor' = [e \in {RuleEditor} |-> editor'[e]]
    BY DEF RuleType
  <1> QED
    BY <1>1, <1>2 DEF Edits

LEMMA Stepped ==
    ASSUME RuleType, NEW place \in Places, editor' = [editor EXCEPT ![RuleEditor].at = place]
    PROVE  /\ Edits'.at = place /\ Edits'.new = Edits.new /\ Edits'.op = Edits.op
           /\ editor' = [e \in {RuleEditor} |-> editor'[e]]
           /\ Edits' = [at |-> Edits'.at, new |-> Edits'.new, op |-> Edits'.op]
           /\ Edits'.at \in Places /\ Edits'.new \in Seq(R!Rule)
           /\ Edits'.op \in R!Ops \cup {None}
  <1>1. PICK r : r = Edits
    OBVIOUS
  <1>2. PICK q : q = [r EXCEPT !.at = place]
    OBVIOUS
  <1>3. editor' = [editor EXCEPT ![RuleEditor] = q]
    BY <1>1, <1>2 DEF Edits
  <1>4. /\ q.at = place /\ q.new = r.new /\ q.op = r.op
        /\ q = [at |-> q.at, new |-> q.new, op |-> q.op]
    <2>1. r = [at |-> r.at, new |-> r.new, op |-> r.op]
      BY <1>1 DEF RuleType
    <2> QED
      BY <1>2, <2>1
  <1>5. q.new \in Seq(R!Rule) /\ q.op \in R!Ops \cup {None}
    BY <1>1, <1>4 DEF RuleType
  <1> QED
    BY <1>1, <1>3, <1>4, <1>5, Moved

LEMMA IdleIs ==
    /\ R!Idle = [at |-> R!Idle.at, new |-> R!Idle.new, op |-> R!Idle.op]
    /\ R!Idle.at = "idle" /\ R!Idle.new \in Seq(R!Rule) /\ R!Idle.op = None
  BY NoRulesYet DEF R!Idle

LEMMA RuleBegins ==
    ASSUME RuleInv, NEW op \in R!Ops, R!Begin(RuleEditor, op) PROVE RuleInv'
  <1> USE DEF RuleInv
  <1> DEFINE q == [at |-> "open", new |-> R!Edited(op, R!Loaded), op |-> op]
  <1>1. R!Edited(op, R!Loaded) \in Seq(R!Rule)
    BY LoadedIs, EditedIs DEF R!Begin
  <1>2. q = [at |-> q.at, new |-> q.new, op |-> q.op] /\ q.at = "open" /\ q.op = op
        /\ q.new = R!Edited(op, R!Loaded)
    OBVIOUS
  <1>3. editor' = [editor EXCEPT ![RuleEditor] = q] /\ Edits.at = "idle"
        /\ UNCHANGED <<file, tmp, table, swaps, loop, due, hurt, ran>>
    BY DEF R!Begin, R!At, Edits
  <1> HIDE DEF q
  <1>4. /\ Edits'.at = "open" /\ Edits'.op = op /\ Edits'.new = R!Edited(op, R!Loaded)
        /\ editor' = [e \in {RuleEditor} |-> editor'[e]]
        /\ Edits' = [at |-> Edits'.at, new |-> Edits'.new, op |-> Edits'.op]
        /\ Edits'.at \in Places /\ Edits'.new \in Seq(R!Rule)
        /\ Edits'.op \in R!Ops \cup {None}
    BY <1>1, <1>2, <1>3, Moved DEF Places
  <1>5. RuleType'
    BY <1>3, <1>4 DEF RuleType
  <1>6. Copied'
    BY <1>3, <1>4, RuleAssumption DEF Copied, R!Loaded
  <1>7. Looping'
    BY <1>3 DEF Looping
  <1> QED
    BY <1>5, <1>6, <1>7

LEMMA RuleReloads ==
    ASSUME RuleInv, R!BeginReload(RuleEditor) PROVE RuleInv'
  <1> USE DEF RuleInv
  <1> DEFINE q == [at |-> "swap", new |-> R!Loaded, op |-> None]
  <1>1. R!Loaded \in Seq(R!Rule)
    BY LoadedIs DEF R!BeginReload
  <1>2. q = [at |-> q.at, new |-> q.new, op |-> q.op] /\ q.at = "swap" /\ q.op = None
        /\ q.new = R!Loaded
    OBVIOUS
  <1>3. editor' = [editor EXCEPT ![RuleEditor] = q] /\ Edits.at = "idle"
        /\ UNCHANGED <<file, tmp, table, swaps, loop, due, hurt, ran>>
    BY DEF R!BeginReload, R!At, Edits
  <1> HIDE DEF q
  <1>4. /\ Edits'.at = "swap" /\ Edits'.op = None /\ Edits'.new = R!Loaded
        /\ editor' = [e \in {RuleEditor} |-> editor'[e]]
        /\ Edits' = [at |-> Edits'.at, new |-> Edits'.new, op |-> Edits'.op]
        /\ Edits'.at \in Places /\ Edits'.new \in Seq(R!Rule)
        /\ Edits'.op \in R!Ops \cup {None}
    BY <1>1, <1>2, <1>3, Moved DEF Places
  <1>5. RuleType'
    BY <1>3, <1>4 DEF RuleType
  <1>6. Copied'
    BY <1>3, <1>4 DEF Copied, R!Loaded
  <1>7. Looping'
    BY <1>3 DEF Looping
  <1> QED
    BY <1>5, <1>6, <1>7

LEMMA RuleCopies ==
    ASSUME RuleInv, R!OpenTmp(RuleEditor) \/ R!FillTmp(RuleEditor) PROVE RuleInv'
  <1> USE DEF RuleInv
  <1>1. UNCHANGED <<file, table, swaps, loop, due, hurt, ran>>
    BY DEF R!OpenTmp, R!FillTmp
  <1>2. CASE R!OpenTmp(RuleEditor)
    <2>1. Edits.at = "open" /\ tmp' = Half /\ editor' = [editor EXCEPT ![RuleEditor].at = "fill"]
      BY <1>2 DEF R!OpenTmp, R!At, R!Move, Edits
    <2>2. /\ Edits'.at = "fill" /\ Edits'.new = Edits.new /\ Edits'.op = Edits.op
          /\ editor' = [e \in {RuleEditor} |-> editor'[e]]
          /\ Edits' = [at |-> Edits'.at, new |-> Edits'.new, op |-> Edits'.op]
          /\ Edits'.at \in Places /\ Edits'.new \in Seq(R!Rule)
          /\ Edits'.op \in R!Ops \cup {None}
      BY <2>1, Stepped DEF Places
    <2>3. RuleType'
      BY <1>1, <2>1, <2>2 DEF RuleType, Contents
    <2>4. Copied'
      BY <1>1, <2>1, <2>2 DEF Copied, R!Loaded
    <2> QED
      BY <1>1, <2>3, <2>4 DEF Looping
  <1>3. CASE /\ R!FillTmp(RuleEditor) /\ R!Move(RuleEditor, "remove")
             /\ tmp' = IF tmp = None THEN None ELSE editor[RuleEditor].new
    <2>1. /\ Edits.at = "fill" /\ tmp' = (IF tmp = None THEN None ELSE Edits.new)
          /\ editor' = [editor EXCEPT ![RuleEditor].at = "remove"]
      BY <1>3 DEF R!FillTmp, R!At, R!Move, Edits
    <2>2. /\ Edits'.at = "remove" /\ Edits'.new = Edits.new /\ Edits'.op = Edits.op
          /\ editor' = [e \in {RuleEditor} |-> editor'[e]]
          /\ Edits' = [at |-> Edits'.at, new |-> Edits'.new, op |-> Edits'.op]
          /\ Edits'.at \in Places /\ Edits'.new \in Seq(R!Rule)
          /\ Edits'.op \in R!Ops \cup {None}
      BY <2>1, Stepped DEF Places
    <2>3. RuleType'
      BY <1>1, <2>1, <2>2 DEF RuleType, Contents
    <2>4. Copied'
      BY <1>1, <2>1, <2>2, RuleAssumption DEF Copied, R!Loaded
    <2> QED
      BY <1>1, <2>3, <2>4 DEF Looping
  <1>4. CASE /\ R!FillTmp(RuleEditor) /\ tmp' = None
             /\ editor' = [editor EXCEPT ![RuleEditor] = R!Aborted(RuleEditor)]
    <2>1. Edits.at = "fill" /\ editor' = [editor EXCEPT ![RuleEditor] = R!Idle]
      BY <1>4 DEF R!FillTmp, R!At, R!Aborted, Edits
    <2>2. /\ Edits'.at = "idle"
          /\ editor' = [e \in {RuleEditor} |-> editor'[e]]
          /\ Edits' = [at |-> Edits'.at, new |-> Edits'.new, op |-> Edits'.op]
          /\ Edits'.at \in Places /\ Edits'.new \in Seq(R!Rule)
          /\ Edits'.op \in R!Ops \cup {None}
      BY <2>1, IdleIs, Moved DEF Places
    <2>3. RuleType'
      BY <1>1, <1>4, <2>2 DEF RuleType, Contents
    <2>4. Copied'
      BY <1>1, <2>1, <2>2 DEF Copied, R!Loaded
    <2> QED
      BY <1>1, <2>3, <2>4 DEF Looping
  <1> QED
    BY <1>2, <1>3, <1>4 DEF R!FillTmp

LEMMA RuleRenames ==
    ASSUME RuleInv, R!RemoveFile(RuleEditor) \/ R!RenameTmp(RuleEditor) PROVE RuleInv'
  <1> USE DEF RuleInv
  <1>1. UNCHANGED <<table, swaps, loop, due, ran>>
    BY DEF R!RemoveFile, R!RenameTmp
  <1>2. CASE R!RemoveFile(RuleEditor)
    <2>1. /\ Edits.at = "remove" /\ file' = None /\ UNCHANGED <<tmp, hurt>>
          /\ editor' = [editor EXCEPT ![RuleEditor].at = "rename"]
      BY <1>2 DEF R!RemoveFile, R!At, R!Move, Edits
    <2>2. /\ Edits'.at = "rename" /\ Edits'.new = Edits.new /\ Edits'.op = Edits.op
          /\ editor' = [e \in {RuleEditor} |-> editor'[e]]
          /\ Edits' = [at |-> Edits'.at, new |-> Edits'.new, op |-> Edits'.op]
          /\ Edits'.at \in Places /\ Edits'.new \in Seq(R!Rule)
          /\ Edits'.op \in R!Ops \cup {None}
      BY <2>1, Stepped DEF Places
    <2>3. RuleType'
      BY <1>1, <2>1, <2>2 DEF RuleType, Contents
    <2>4. Copied'
      BY <1>1, <2>1, <2>2 DEF Copied, R!Loaded
    <2> QED
      BY <1>1, <2>3, <2>4 DEF Looping
  <1>3. CASE /\ R!RenameTmp(RuleEditor) /\ file' = tmp /\ tmp' = None
             /\ R!Move(RuleEditor, "swap") /\ UNCHANGED hurt
    <2>1. /\ Edits.at = "rename"
          /\ editor' = [editor EXCEPT ![RuleEditor].at = "swap"]
      BY <1>3 DEF R!RenameTmp, R!At, R!Move, Edits
    <2>2. /\ Edits'.at = "swap" /\ Edits'.new = Edits.new /\ Edits'.op = Edits.op
          /\ editor' = [e \in {RuleEditor} |-> editor'[e]]
          /\ Edits' = [at |-> Edits'.at, new |-> Edits'.new, op |-> Edits'.op]
          /\ Edits'.at \in Places /\ Edits'.new \in Seq(R!Rule)
          /\ Edits'.op \in R!Ops \cup {None}
      BY <2>1, Stepped DEF Places
    <2>3. RuleType'
      BY <1>1, <1>3, <2>1, <2>2 DEF RuleType, Contents
    <2>4. Copied'
      BY <1>1, <1>3, <2>1, <2>2 DEF Copied, R!Loaded
    <2> QED
      BY <1>1, <2>3, <2>4 DEF Looping
  <1>4. CASE /\ R!RenameTmp(RuleEditor) /\ tmp' = None /\ hurt' = TRUE
             /\ editor' = [editor EXCEPT ![RuleEditor] = R!Idle] /\ UNCHANGED file
    <2>2. /\ Edits'.at = "idle"
          /\ editor' = [e \in {RuleEditor} |-> editor'[e]]
          /\ Edits' = [at |-> Edits'.at, new |-> Edits'.new, op |-> Edits'.op]
          /\ Edits'.at \in Places /\ Edits'.new \in Seq(R!Rule)
          /\ Edits'.op \in R!Ops \cup {None}
      BY <1>4, IdleIs, Moved DEF Places
    <2>3. RuleType'
      BY <1>1, <1>4, <2>2 DEF RuleType, Contents
    <2>4. Copied'
      BY <1>4 DEF Copied
    <2> QED
      BY <1>1, <2>3, <2>4 DEF Looping
  <1> QED
    BY <1>2, <1>3, <1>4 DEF R!RenameTmp

LEMMA RuleSwaps ==
    ASSUME RuleInv, R!Swap(RuleEditor) PROVE RuleInv'
  <1> USE DEF RuleInv
  <1>1. /\ Edits.at = "swap" /\ loop = None /\ table' = Edits.new
        /\ due' = IF Edits.op = None THEN due ELSE R!Edited(Edits.op, due)
        /\ editor' = [editor EXCEPT ![RuleEditor] = R!Idle]
        /\ UNCHANGED <<file, tmp, loop, hurt>>
    BY DEF R!Swap, R!At, R!MutexFree, Edits
  <1>2. /\ Edits'.at = "idle"
        /\ editor' = [e \in {RuleEditor} |-> editor'[e]]
        /\ Edits' = [at |-> Edits'.at, new |-> Edits'.new, op |-> Edits'.op]
        /\ Edits'.at \in Places /\ Edits'.new \in Seq(R!Rule)
        /\ Edits'.op \in R!Ops \cup {None}
    BY <1>1, IdleIs, Moved DEF Places
  <1>3. RuleType'
    BY <1>1, <1>2 DEF RuleType, Contents
  <1>4. Copied'
    <2> SUFFICES ASSUME ~hurt PROVE table' = due' /\ R!Loaded' = due'
      BY <1>1, <1>2 DEF Copied
    <2>1. CASE Edits.op = None
      BY <1>1, <2>1 DEF Copied, R!Loaded
    <2>2. CASE Edits.op # None
      <3>1. file = Edits.new /\ Edits.new = R!Edited(Edits.op, due) /\ Edits.new \in Seq(R!Rule)
        BY <1>1, <2>2 DEF Copied, RuleType
      <3>2. file # None
        BY <3>1, RuleAssumption
      <3> QED
        BY <1>1, <2>2, <3>1, <3>2 DEF R!Loaded
    <2> QED
      BY <2>1, <2>2
  <1>5. Looping'
    BY <1>1 DEF Looping
  <1> QED
    BY <1>3, <1>4, <1>5

LEMMA EventStarts ==
    ASSUME RuleInv, R!StartEvent PROVE RuleInv'
  <1> USE DEF RuleInv
  <1>1. /\ loop' = [i |-> 1, swaps |-> swaps, rules |-> table] /\ ran' = <<>>
        /\ UNCHANGED <<file, tmp, table, swaps, editor, due, hurt>>
    BY DEF R!StartEvent
  <1>2. RuleType' /\ Copied'
    BY <1>1 DEF RuleType, Copied, Edits, R!Loaded
  <1>3. loop'.i = 1 /\ loop'.swaps = swaps /\ loop'.rules = table
    BY <1>1
  <1>4. Len(table) \in Nat /\ Len(<<>>) = 0 /\ ran' \in Seq([no : 1..Len(table), rule : R!Rule])
    BY <1>1, LenProperties DEF RuleType
  <1>5. Looping'
    BY <1>1, <1>3, <1>4 DEF Looping
  <1> QED
    BY <1>2, <1>5

LEMMA RuleRuns ==
    ASSUME RuleInv, R!RunRule PROVE RuleInv'
  <1> USE DEF RuleInv
  <1>1. /\ loop # None /\ loop.i <= Len(table)
        /\ UNCHANGED <<file, tmp, table, swaps, editor, due, hurt>>
        /\ loop' = [loop EXCEPT !.i = R!NextIndex(table[loop.i], @)]
        /\ ran' = IF table[loop.i].body \in Firing
                  THEN Append(ran, [no |-> loop.i, rule |-> table[loop.i]]) ELSE ran
    BY DEF R!RunRule
  <1>2. RuleType' /\ Copied'
    BY <1>1 DEF RuleType, Copied, Edits, R!Loaded
  <1>3. PICK p, len : p = loop.i /\ len = Len(table)
    OBVIOUS
  <1>4. p \in 1..len /\ len \in Nat /\ table[p] \in R!Rule
    BY <1>1, <1>3, LenProperties, ElementOfSeq DEF RuleType, Looping
  <1>5. PICK next : next = R!NextIndex(table[p], p)
    OBVIOUS
  <1>6. /\ next = IF table[p].body \in Firing /\ table[p].body \in Consumes THEN len + 1 ELSE p + 1
    BY <1>3, <1>5 DEF R!NextIndex
  <1>7. /\ loop'.i = next /\ loop'.swaps = swaps' /\ loop'.rules = table'
        /\ loop' = [i |-> loop'.i, swaps |-> loop'.swaps, rules |-> loop'.rules]
    <2>1. loop' = [loop EXCEPT !.i = next]
      BY <1>1, <1>3, <1>5
    <2>2. loop = [i |-> loop.i, swaps |-> loop.swaps, rules |-> loop.rules]
          /\ loop.swaps = swaps /\ loop.rules = table
      BY <1>1 DEF Looping
    <2> QED
      BY <1>1, <2>1, <2>2
  <1> DEFINE One == [no : 1..len, rule : R!Rule]
  <1>8. /\ ran \in Seq(One)
        /\ \A k \in 1..Len(ran) :
              /\ ran[k].no < p /\ ran[k].rule = table[ran[k].no]
              /\ ran[k].rule.body \in Firing
              /\ ran[k].rule.body \in Consumes => k = Len(ran) /\ p = len + 1
              /\ \A j \in 1..(k - 1) : ran[j].no < ran[k].no
        /\ \A i \in 1..(p - 1) : table[i].body \in Firing =>
              \E k \in 1..Len(ran) :
                 ran[k].no = i \/ (ran[k].no < i /\ ran[k].rule.body \in Consumes)
    BY <1>1, <1>3 DEF Looping
  <1>9. CASE table[p].body \notin Firing
    <2>1. ran' = ran /\ next = p + 1
      BY <1>1, <1>3, <1>6, <1>9
    <2>2. \A k \in 1..Len(ran) :
              /\ ran[k].no < next /\ ran[k].rule = table[ran[k].no]
              /\ ran[k].rule.body \in Firing
              /\ ran[k].rule.body \in Consumes => k = Len(ran) /\ next = len + 1
              /\ \A j \in 1..(k - 1) : ran[j].no < ran[k].no
      <3>1. \A k \in 1..Len(ran) : ran[k] \in One
        BY <1>8, ElementOfSeq
      <3>2. \A k \in 1..Len(ran) : ran[k].no \in Nat
        BY <3>1, <1>4
      <3> QED
        BY <1>4, <1>8, <2>1, <3>2
    <2>3. \A i \in 1..(next - 1) : table[i].body \in Firing =>
              \E k \in 1..Len(ran) :
                 ran[k].no = i \/ (ran[k].no < i /\ ran[k].rule.body \in Consumes)
      <3> SUFFICES ASSUME NEW i \in 1..(next - 1), table[i].body \in Firing
                   PROVE  i \in 1..(p - 1)
        BY <1>8
      <3> QED
        BY <1>4, <1>9, <2>1
    <2>4. Looping'
      BY <1>1, <1>3, <1>4, <1>7, <1>8, <2>1, <2>2, <2>3, SMTT(60) DEF Looping
    <2> QED
      BY <1>2, <2>4
  <1>10. CASE table[p].body \in Firing
    <2> DEFINE x == [no |-> p, rule |-> table[p]]
               n == Len(ran)
               more == Append(ran, x)
    <2>1. x \in One /\ x.no = p /\ x.rule = table[p]
      BY <1>4
    <2> HIDE DEF x
    <2>2. /\ ran' = more /\ more \in Seq(One) /\ Len(more) = n + 1 /\ n \in Nat
          /\ more[n + 1] = x /\ \A k \in 1..n : more[k] = ran[k]
      <3>1. ran' = more
        BY <1>1, <1>3, <1>10 DEF x
      <3> HIDE DEF One
      <3> QED
        BY <1>8, <2>1, <3>1, AppendProperties, LenProperties
    <2> HIDE DEF more
    <2>3. \A k \in 1..n : ran[k].no \in 1..len
      <3>1. \A k \in 1..n : ran[k] \in One
        BY <1>8, ElementOfSeq
      <3> QED
        BY <3>1
    <2>4. ~\E k \in 1..n : ran[k].rule.body \in Consumes
      BY <1>4, <1>8
    <2>5. next \in (p + 1)..(len + 1)
      BY <1>4, <1>6
    <2>6. \A k \in 1..(n + 1) :
              /\ more[k].no < next /\ more[k].rule = table[more[k].no]
              /\ more[k].rule.body \in Firing
              /\ more[k].rule.body \in Consumes => k = n + 1 /\ next = len + 1
              /\ \A j \in 1..(k - 1) : more[j].no < more[k].no
      <3> SUFFICES ASSUME NEW k \in 1..(n + 1)
                   PROVE  /\ more[k].no < next /\ more[k].rule = table[more[k].no]
                          /\ more[k].rule.body \in Firing
                          /\ more[k].rule.body \in Consumes => k = n + 1 /\ next = len + 1
                          /\ \A j \in 1..(k - 1) : more[j].no < more[k].no
        OBVIOUS
      <3>1. CASE k = n + 1
        <4>1. more[k].no = p /\ more[k].rule = table[p]
          BY <2>1, <2>2, <3>1
        <4>2. \A j \in 1..(k - 1) : more[j].no < p
          BY <1>8, <2>2, <3>1, SMTT(60)
        <4> QED
          BY <1>4, <1>6, <1>10, <2>5, <3>1, <4>1, <4>2
      <3>2. CASE k \in 1..n
        <4>1. more[k] = ran[k] /\ \A j \in 1..(k - 1) : more[j] = ran[j]
          BY <2>2, <3>2
        <4>2. /\ ran[k].no < p /\ ran[k].rule = table[ran[k].no]
              /\ ran[k].rule.body \in Firing /\ ran[k].rule.body \notin Consumes
              /\ \A j \in 1..(k - 1) : ran[j].no < ran[k].no
          BY <1>8, <2>4, <3>2
        <4>3. ran[k].no < next
          BY <1>4, <2>3, <2>5, <3>2, <4>2
        <4> QED
          BY <4>1, <4>2, <4>3
      <3> QED
        BY <2>2, <3>1, <3>2
    <2>7. \A i \in 1..(next - 1) : table[i].body \in Firing =>
              \E k \in 1..(n + 1) :
                 more[k].no = i \/ (more[k].no < i /\ more[k].rule.body \in Consumes)
      <3> SUFFICES ASSUME NEW i \in 1..(next - 1), table[i].body \in Firing
                   PROVE  \E k \in 1..(n + 1) :
                             more[k].no = i \/ (more[k].no < i /\ more[k].rule.body \in Consumes)
        OBVIOUS
      <3>1. CASE i < p
        <4>1. i \in 1..(p - 1)
          BY <1>4, <2>5, <3>1
        <4>2. PICK k \in 1..n :
                 ran[k].no = i \/ (ran[k].no < i /\ ran[k].rule.body \in Consumes)
          BY <1>8, <4>1
        <4> QED
          BY <2>2, <4>2
      <3>2. CASE i = p
        BY <2>1, <2>2, <3>2
      <3>3. CASE i > p
        <4>1. table[p].body \in Consumes
          BY <1>4, <1>6, <2>5, <3>3
        <4>2. more[n + 1].no = p /\ more[n + 1].rule.body \in Consumes
          BY <2>1, <2>2, <4>1
        <4> QED
          BY <2>2, <3>3, <4>2
      <3> QED
        BY <1>4, <2>5, <3>1, <3>2, <3>3
    <2>8. Looping'
      <3>1. Len(ran') = n + 1 /\ Len(table') = len /\ table' = table
        BY <1>1, <1>3, <2>2
      <3>2. ran' \in Seq([no : 1..Len(table'), rule : R!Rule])
        BY <2>2, <3>1
      <3>3. loop'.i \in 1..(Len(table') + 1)
        BY <1>4, <1>7, <2>5, <3>1
      <3> HIDE DEF One
      <3> QED
        BY <1>7, <2>2, <2>6, <2>7, <3>1, <3>2, <3>3 DEF Looping
    <2> QED
      BY <1>2, <2>8
  <1> QED
    BY <1>9, <1>10

LEMMA RulesRest ==
    ASSUME RuleInv, R!EndEvent \/ R!PowerCut \/ UNCHANGED R!vars PROVE RuleInv'
  <1> USE DEF RuleInv
  <1>1. CASE R!EndEvent
    <2>1. loop' = None /\ UNCHANGED <<file, tmp, table, swaps, editor, due, hurt>>
      BY <1>1 DEF R!EndEvent
    <2> QED
      BY <2>1 DEF RuleType, Copied, Looping, Edits, R!Loaded
  <1>2. CASE R!PowerCut
    <2>1. /\ tmp' \in {tmp, IF tmp = None THEN None ELSE Half}
          /\ editor' = [e \in {RuleEditor} |-> R!Idle] /\ loop' = None
          /\ file # Half /\ table' = R!Loaded /\ due' = R!Loaded /\ file' = file
          /\ hurt' = (hurt \/ Edits.at = "rename")
      BY <1>2 DEF R!PowerCut, R!At, Edits
    <2>2. Edits' = R!Idle
      BY <2>1 DEF Edits
    <2>3. RuleType'
      BY <2>1, <2>2, IdleIs, LoadedIs DEF RuleType, Contents, Places
    <2>4. Copied'
      BY <2>1, <2>2, IdleIs DEF Copied, R!Loaded
    <2> QED
      BY <2>1, <2>3, <2>4 DEF Looping
  <1>3. CASE UNCHANGED R!vars
    BY <1>3 DEF R!vars, RuleType, Copied, Looping, Edits, R!Loaded
  <1> QED
    BY <1>1, <1>2, <1>3

LEMMA RuleSafe == RuleInv => R!EditsKept /\ R!OneTableRuns
  <1> SUFFICES ASSUME RuleInv PROVE R!EditsKept /\ R!OneTableRuns
    OBVIOUS
  <1>1. R!EditsKept
    <2> SUFFICES ASSUME ~hurt
                 PROVE  /\ Edits.at = "idle" => table = due /\ R!Loaded = due
                        /\ file \in {due, None} \cup {Edits.new}
                        /\ file = None /\ due # <<>> => Edits.at = "rename"
      BY DEF R!EditsKept, R!At, Edits
    <2>1. CASE Edits.at \in {"idle", "open", "fill", "remove"}
      BY <2>1 DEF RuleInv, Copied, R!Loaded
    <2>2. CASE Edits.at = "rename"
      BY <2>2 DEF RuleInv, Copied
    <2>3. CASE Edits.at = "swap"
      BY <2>3, RuleAssumption DEF RuleInv, RuleType, Copied, R!Loaded
    <2> QED
      BY <2>1, <2>2, <2>3 DEF RuleInv, RuleType, Places
  <1>2. R!OneTableRuns
    <2> SUFFICES ASSUME loop # None PROVE R!OneTableRuns
      BY DEF R!OneTableRuns
    <2>1. /\ Len(table) \in Nat /\ DOMAIN table = 1..Len(table)
          /\ Len(ran) \in Nat /\ DOMAIN ran = 1..Len(ran)
          /\ \A k \in 1..Len(ran) : ran[k].no \in 1..Len(table)
      <3>1. table \in Seq(R!Rule) /\ ran \in Seq([no : 1..Len(table), rule : R!Rule])
        BY DEF RuleInv, RuleType, Looping
      <3>2. \A k \in 1..Len(ran) : ran[k] \in [no : 1..Len(table), rule : R!Rule]
        BY <3>1, ElementOfSeq
      <3> QED
        BY <3>1, <3>2, LenProperties
    <2>2. loop.i > Len(table) => loop.i - 1 = Len(table)
      BY <2>1 DEF RuleInv, Looping
    <2> QED
      BY <2>1, <2>2 DEF RuleInv, Looping, R!OneTableRuns
  <1> QED
    BY <1>1, <1>2

\* After every answered edit, file and table are what the edits make of the file there was,
\* through failed writes and power cuts that do not hurt the file; and a loop over the rules
\* runs those that fire, in order, of the one table it began with.
THEOREM RulesAreKept == R!Spec => [](R!EditsKept /\ R!OneTableRuns)
  <1>1. R!Init => RuleInv
    BY RuleInit
  <1>2. RuleInv /\ [R!Next]_(R!vars) => RuleInv'
    <2> SUFFICES ASSUME RuleInv, [R!Next]_(R!vars) PROVE RuleInv'
      OBVIOUS
    <2> QED
      BY RuleBegins, RuleReloads, RuleCopies, RuleRenames, RuleSwaps, EventStarts, RuleRuns,
         RulesRest DEF R!Next, R!Edit, R!Router
  <1>3. RuleInv => R!EditsKept /\ R!OneTableRuns
    BY RuleSafe
  <1> QED
    BY <1>1, <1>2, <1>3, PTL DEF R!Spec

LEMMA RulesRun == StoresSafe => R!Spec
  <1>1. StoresInit => R!Init
    BY DEF StoresInit
  <1>2. [StoresNext]_storesVars => [R!Next]_(R!vars)
    BY DEF StoresNext, Is, storesVars, ruleVars, R!vars
  <1> QED
    BY <1>1, <1>2, PTL DEF StoresSafe, R!Spec

-----------------------------------------------------------------------------
(* The conversations: what the ring of places tells of the turns there were,   *)
(* however far the file is filled, and which version a session has.            *)

Sids  == 0..MaxVersion
Entry == [n : Nat, who : {"user", "assistant"}, era : Nat]
Ask   == [sid : Sids, era : Nat, n : Nat]
Cell  == Entry \X Nat \X Nat
Spot  == [off : Nat, len : Nat \ {0}]
Ring  == [total : Nat, at : Seq(Spot)]

\* The slot of the j-th record there ever was, and the records still told.
Slot(j)   == ((j - 1) % Slots) + 1
Retold(n)   == {j \in 1..n : j > n - Slots}
Spanned(b, p) == p.off + p.len <= Len(b)

\* A header and what is behind it tell the newest of these turns, as far as the places
\* are filled.
Tells(h, b, l) ==
    /\ h \in Ring /\ b \in Seq(Cell) /\ l \in Seq(Entry)
    /\ h.total = Len(l) /\ Len(h.at) = S!Retained(h)
    /\ \A j \in Retold(Len(l)) :
          Spanned(b, h.at[Slot(j)]) =>
              S!Cells(b, h.at[Slot(j)]) = S!Record(l[j], h.at[Slot(j)].len)

Complete(h, b) == \A j \in Retold(h.total) : Spanned(b, h.at[Slot(j)])

-----------------------------------------------------------------------------
(* Slots.                                                                     *)

LEMMA SlotsAre == Slots \in Nat /\ Slots # 0 /\ Slots >= 1
  BY SessionAssumption

LEMMA Divided ==
    ASSUME NEW n \in Nat, NEW s \in Nat \ {0}
    PROVE  n % s \in 0..(s - 1) /\ n \div s \in Nat /\ n = s * (n \div s) + (n % s)
           /\ s * (n \div s) \in Nat
  OBVIOUS

LEMMA Remains ==
    ASSUME NEW s \in Nat \ {0}, NEW q \in Nat, NEW x \in 0..(s - 1)
    PROVE  (s * q + x) % s = x
  OBVIOUS

LEMMA FarApart ==
    ASSUME NEW s \in Nat \ {0}, NEW p \in Nat, NEW q \in Nat, p < q
    PROVE  s * q >= s * p + s /\ s * p \in Nat /\ s * q \in Nat
  OBVIOUS

LEMMA SlotIs ==
    ASSUME NEW j \in Nat \ {0}
    PROVE  Slot(j) \in 1..Slots /\ (j <= Slots => Slot(j) = j)
  <1>1. (j - 1) % Slots \in 0..(Slots - 1)
    BY SlotsAre, Divided
  <1>2. j <= Slots => (j - 1) % Slots = j - 1
    BY SlotsAre
  <1> QED
    BY <1>1, <1>2, SlotsAre DEF Slot

LEMMA SlotsDiffer ==
    ASSUME NEW j \in Nat \ {0}, NEW k \in Nat \ {0}, j < k, k - j < Slots
    PROVE  Slot(j) # Slot(k)
  <1> SUFFICES ASSUME Slot(j) = Slot(k) PROVE FALSE
    OBVIOUS
  <1>1. PICK p, x : p = (j - 1) \div Slots /\ x = (j - 1) % Slots
    OBVIOUS
  <1>2. PICK q, y : q = (k - 1) \div Slots /\ y = (k - 1) % Slots
    OBVIOUS
  <1>3. /\ x \in 0..(Slots - 1) /\ p \in Nat /\ j - 1 = Slots * p + x /\ Slots * p \in Nat
        /\ y \in 0..(Slots - 1) /\ q \in Nat /\ k - 1 = Slots * q + y /\ Slots * q \in Nat
    <2>1. j - 1 \in Nat /\ k - 1 \in Nat
      OBVIOUS
    <2>2. x \in 0..(Slots - 1) /\ p \in Nat /\ j - 1 = Slots * p + x /\ Slots * p \in Nat
      BY <1>1, <2>1, SlotsAre, Divided
    <2>3. y \in 0..(Slots - 1) /\ q \in Nat /\ k - 1 = Slots * q + y /\ Slots * q \in Nat
      BY <1>2, <2>1, SlotsAre, Divided
    <2> QED
      BY <2>2, <2>3
  <1>4. x = y
    <2>1. x + 1 = y + 1
      BY <1>1, <1>2 DEF Slot
    <2> QED
      BY <1>3, <2>1, SlotsAre
  <1>5. PICK u, v : u = Slots * p /\ v = Slots * q
    OBVIOUS
  <1>6. v - u \in 1..(Slots - 1) /\ u \in Nat /\ v \in Nat
    BY <1>3, <1>4, <1>5, SlotsAre
  <1>7. p < q => v >= u + Slots
    BY <1>3, <1>5, FarApart, SlotsAre
  <1>8. q < p => u >= v + Slots
    BY <1>3, <1>5, FarApart, SlotsAre
  <1>9. p = q => u = v
    BY <1>5
  <1> QED
    BY <1>3, <1>6, <1>7, <1>8, <1>9, SlotsAre

\* The i-th place of the header is the slot of the record that is the i-th still told.
LEMMA PlaceIs ==
    ASSUME NEW h \in Ring, NEW i \in 1..S!Retained(h)
    PROVE  /\ S!Retained(h) \in Nat /\ h.total - S!Retained(h) \in Nat
           /\ ((S!Oldest(h) + i - 1) % Slots) + 1 = Slot(h.total - S!Retained(h) + i)
           /\ h.total - S!Retained(h) + i \in Retold(h.total)
  <1>1. PICK t : t = h.total
    OBVIOUS
  <1>2. t \in Nat
    BY <1>1 DEF Ring
  <1>3. CASE t < Slots
    <2>1. S!Retained(h) = t /\ S!Oldest(h) = 0
      BY <1>1, <1>3 DEF S!Retained, S!Oldest
    <2>2. i \in 1..t
      BY <2>1
    <2>3. t - t + i = i /\ 0 + i - 1 = i - 1 /\ t - t = 0
      BY <1>2, <2>2
    <2>4. i \in Retold(t)
      BY <1>2, <1>3, <2>2, SlotsAre DEF Retold
    <2> QED
      BY <1>1, <1>2, <2>1, <2>3, <2>4 DEF Slot
  <1>4. CASE t >= Slots
    <2>1. S!Retained(h) = Slots /\ S!Oldest(h) = t % Slots
      BY <1>1, <1>2, <1>4, SlotsAre DEF S!Retained, S!Oldest
    <2>2. PICK q, x : q = t \div Slots /\ x = t % Slots
      OBVIOUS
    <2>3. x \in 0..(Slots - 1) /\ q \in Nat /\ t = Slots * q + x /\ Slots * q \in Nat
      BY <1>2, <2>2, Divided, SlotsAre
    <2>4. q # 0
      BY <1>4, <2>3, SlotsAre
    <2>5. Slots * (q - 1) = Slots * q - Slots /\ q - 1 \in Nat /\ Slots * 1 = Slots
          /\ Slots * (q - 1) \in Nat
      BY <2>3, <2>4, SlotsAre
    <2>6. i \in 1..Slots
      BY <2>1
    <2>7. (x + i - 1) % Slots = (t - Slots + i - 1) % Slots
      <3>1. CASE x + i - 1 < Slots
        <4>1. x + i - 1 \in 0..(Slots - 1)
          BY <2>3, <2>6, <3>1, SlotsAre
        <4>2. (Slots * (q - 1) + (x + i - 1)) % Slots = x + i - 1
          BY <2>5, <4>1, Remains, SlotsAre
        <4>3. Slots * (q - 1) + (x + i - 1) = t - Slots + i - 1
          BY <2>3, <2>5, <2>6, SlotsAre
        <4>4. (x + i - 1) % Slots = x + i - 1
          BY <4>1, SlotsAre
        <4> QED
          BY <4>2, <4>3, <4>4
      <3>2. CASE x + i - 1 >= Slots
        <4>1. x + i - 1 - Slots \in 0..(Slots - 1)
          BY <2>3, <2>6, <3>2, SlotsAre
        <4>2. (Slots * q + (x + i - 1 - Slots)) % Slots = x + i - 1 - Slots
          BY <2>3, <4>1, Remains, SlotsAre
        <4>3. (Slots * 1 + (x + i - 1 - Slots)) % Slots = x + i - 1 - Slots
          BY <4>1, Remains, SlotsAre
        <4>4. Slots * q + (x + i - 1 - Slots) = t - Slots + i - 1
          BY <2>3, <2>6, SlotsAre
        <4>5. Slots * 1 + (x + i - 1 - Slots) = x + i - 1
          BY <2>3, <2>5, <2>6, SlotsAre
        <4> QED
          BY <4>2, <4>3, <4>4, <4>5
      <3> QED
        BY <2>3, <2>6, <3>1, <3>2, SlotsAre
    <2>8. t - Slots + i \in Retold(t) /\ t - Slots \in Nat
      BY <1>2, <1>4, <2>6, SlotsAre DEF Retold
    <2>9. t - Slots + i - 1 = (t - Slots + i) - 1
      BY <1>2, <2>6, SlotsAre
    <2> QED
      BY <1>1, <2>1, <2>2, <2>7, <2>8, <2>9, SlotsAre DEF Slot
  <1> QED
    BY <1>2, <1>3, <1>4, SlotsAre

\* The slot of a record that is told is one of the header's.
LEMMA SlotIsThere ==
    ASSUME NEW h \in Ring, Len(h.at) = S!Retained(h), NEW j \in Retold(h.total)
    PROVE  /\ j \in Nat \ {0} /\ j <= h.total
           /\ Slot(j) \in 1..Len(h.at) /\ h.at[Slot(j)] \in Spot
  <1>1. j \in Nat \ {0} /\ j <= h.total /\ h.total \in Nat /\ h.at \in Seq(Spot)
    BY DEF Retold, Ring
  <1>2. Slot(j) \in 1..Slots /\ (j <= Slots => Slot(j) = j)
    BY <1>1, SlotIs
  <1>3. Slot(j) \in 1..Len(h.at)
    BY <1>1, <1>2, SlotsAre DEF S!Retained
  <1> QED
    BY <1>1, <1>3, ElementOfSeq

-----------------------------------------------------------------------------
(* Files.                                                                     *)

LEMMA RecordIs ==
    ASSUME NEW r \in Entry, NEW n \in Nat \ {0}
    PROVE  /\ S!Record(r, n) \in Seq(Cell) /\ Len(S!Record(r, n)) = n
           /\ \A i \in 1..n : S!Record(r, n)[i] = <<r, i, n>>
           /\ S!Record(r, n)[1][1] = r
  <1>1. \A i \in 1..n : <<r, i, n>> \in Cell
    BY DEF Cell
  <1> QED
    BY <1>1 DEF S!Record

LEMMA CellsAre ==
    ASSUME NEW b \in Seq(Cell), NEW p \in Spot, Spanned(b, p)
    PROVE  /\ S!Cells(b, p) \in Seq(Cell) /\ Len(S!Cells(b, p)) = p.len
           /\ \A i \in 1..p.len : S!Cells(b, p)[i] = b[p.off + i] /\ p.off + i \in 1..Len(b)
  <1>1. PICK m, n : m = p.off + 1 /\ n = p.off + p.len
    OBVIOUS
  <1>2. m \in 1..n /\ n \in 1..Len(b) /\ m \in 1..(Len(b) + 1) /\ n \in (m - 1)..Len(b)
        /\ n - m + 1 = p.len /\ p.len \in Nat /\ p.off \in Nat /\ Len(b) \in Nat
    BY <1>1, LenProperties DEF Spot, Spanned
  <1>3. /\ SubSeq(b, m, n) \in Seq(Cell) /\ Len(SubSeq(b, m, n)) = n - m + 1
        /\ \A i \in 1..(n - m + 1) : SubSeq(b, m, n)[i] = b[m + i - 1]
    <2>1. Len(SubSeq(b, m, n)) = IF m <= n THEN n - m + 1 ELSE 0
      BY <1>2, SubSeqProperties
    <2> QED
      BY <1>2, <2>1, SubSeqProperties
  <1>4. \A i \in 1..p.len : m + i - 1 = p.off + i /\ p.off + i \in 1..Len(b)
    <2>1. PICK off, len, all : off = p.off /\ len = p.len /\ all = Len(b)
      OBVIOUS
    <2>2. off \in Nat /\ len \in Nat /\ all \in Nat /\ m = off + 1 /\ off + len <= all
      BY <1>1, <1>2, <2>1
    <2>3. \A i \in 1..len : m + i - 1 = off + i /\ off + i \in 1..all
      BY <2>2
    <2> QED
      BY <2>1, <2>3
  <1> QED
    BY <1>1, <1>2, <1>3, <1>4 DEF S!Cells

\* Bodies that agree as far as a place reaches have the same there.
LEMMA SameCells ==
    ASSUME NEW b \in Seq(Cell), NEW c \in Seq(Cell), NEW p \in Spot,
           Spanned(b, p), Spanned(c, p),
           \A i \in 1..(p.off + p.len) : b[i] = c[i]
    PROVE  S!Cells(b, p) = S!Cells(c, p)
  <1>1. /\ S!Cells(b, p) \in Seq(Cell) /\ Len(S!Cells(b, p)) = p.len
        /\ \A i \in 1..p.len : S!Cells(b, p)[i] = b[p.off + i]
    BY CellsAre
  <1>2. /\ S!Cells(c, p) \in Seq(Cell) /\ Len(S!Cells(c, p)) = p.len
        /\ \A i \in 1..p.len : S!Cells(c, p)[i] = c[p.off + i]
    BY CellsAre
  <1>3. \A i \in 1..p.len : p.off + i \in 1..(p.off + p.len)
    BY DEF Spot
  <1>4. PICK x, y : x = S!Cells(b, p) /\ y = S!Cells(c, p)
    OBVIOUS
  <1>5. x \in Seq(Cell) /\ y \in Seq(Cell) /\ Len(x) = Len(y)
        /\ \A i \in 1..Len(x) : x[i] = y[i]
    BY <1>1, <1>2, <1>3, <1>4
  <1> QED
    BY <1>4, <1>5, SeqEqual

LEMMA NewTells == Tells(S!NewHead, <<>>, <<>>) /\ Complete(S!NewHead, <<>>)
  <1>1. S!NewHead = [total |-> 0, at |-> <<>>] /\ S!NewHead.total = 0 /\ S!NewHead.at = <<>>
    BY DEF S!NewHead
  <1>2. S!NewHead \in Ring /\ S!Retained(S!NewHead) = 0 /\ Len(<<>>) = 0 /\ Retold(0) = {}
    BY <1>1, SlotsAre DEF Ring, S!Retained, Retold
  <1> QED
    BY <1>1, <1>2 DEF Tells, Complete

\* What comes behind does not change what is told, ...
LEMMA TellsLonger ==
    ASSUME NEW h, NEW b, NEW l, Tells(h, b, l), Complete(h, b),
           NEW c \in Seq(Cell), Len(b) <= Len(c), \A i \in 1..Len(b) : c[i] = b[i]
    PROVE  Tells(h, c, l) /\ Complete(h, c)
  <1>1. /\ h \in Ring /\ b \in Seq(Cell) /\ h.total = Len(l) /\ Len(h.at) = S!Retained(h)
        /\ Len(b) \in Nat /\ Len(c) \in Nat
    BY LenProperties DEF Tells
  <1>2. ASSUME NEW j \in Retold(Len(l))
        PROVE  /\ Spanned(c, h.at[Slot(j)])
               /\ S!Cells(c, h.at[Slot(j)]) = S!Record(l[j], h.at[Slot(j)].len)
    <2>1. PICK p : p = h.at[Slot(j)]
      OBVIOUS
    <2>2. p \in Spot
      BY <1>1, <2>1, SlotIsThere
    <2>3. Spanned(b, p) /\ S!Cells(b, p) = S!Record(l[j], p.len)
      BY <1>1, <2>1 DEF Tells, Complete
    <2>4. Spanned(c, p) /\ \A i \in 1..(p.off + p.len) : b[i] = c[i]
      BY <1>1, <2>2, <2>3 DEF Spanned, Spot
    <2>5. S!Cells(b, p) = S!Cells(c, p)
      BY <1>1, <2>2, <2>3, <2>4, SameCells
    <2> QED
      BY <2>1, <2>3, <2>4, <2>5
  <1> QED
    BY <1>1, <1>2 DEF Tells, Complete

\* ... nor does what is cut off, as far as the places are still filled.
LEMMA TellsCut ==
    ASSUME NEW h, NEW b, NEW l, Tells(h, b, l), NEW n \in 0..Len(b)
    PROVE  Tells(h, SubSeq(b, 1, n), l)
  <1>1. /\ h \in Ring /\ b \in Seq(Cell) /\ h.total = Len(l) /\ Len(h.at) = S!Retained(h)
        /\ Len(b) \in Nat /\ n \in Nat /\ n <= Len(b)
    BY LenProperties DEF Tells
  <1>2. PICK c : c = SubSeq(b, 1, n)
    OBVIOUS
  <1>3. c \in Seq(Cell) /\ Len(c) = n /\ \A i \in 1..n : c[i] = b[i]
    <2>1. 1 \in 1..(Len(b) + 1) /\ n \in (1 - 1)..Len(b)
      BY <1>1
    <2>2. c \in Seq(Cell) /\ Len(c) = (IF 1 <= n THEN n - 1 + 1 ELSE 0)
          /\ \A i \in 1..(n - 1 + 1) : c[i] = b[1 + i - 1]
      BY <1>1, <1>2, <2>1, SubSeqProperties
    <2>3. n - 1 + 1 = n /\ \A i \in 1..n : 1 + i - 1 = i
      BY <1>1
    <2>4. Len(c) = n
      BY <1>1, <2>2
    <2> QED
      BY <2>2, <2>3, <2>4
  <1>4. ASSUME NEW j \in Retold(Len(l)), Spanned(c, h.at[Slot(j)])
        PROVE  S!Cells(c, h.at[Slot(j)]) = S!Record(l[j], h.at[Slot(j)].len)
    <2>1. PICK p : p = h.at[Slot(j)]
      OBVIOUS
    <2>2. p \in Spot
      BY <1>1, <2>1, SlotIsThere
    <2>3. /\ Spanned(c, p) /\ Spanned(b, p)
          /\ \A i \in 1..(p.off + p.len) : b[i] = c[i]
      BY <1>1, <1>3, <1>4, <2>1, <2>2 DEF Spanned, Spot
    <2>4. S!Cells(b, p) = S!Record(l[j], p.len)
      BY <2>1, <2>3 DEF Tells
    <2>5. S!Cells(b, p) = S!Cells(c, p)
      BY <1>1, <1>3, <2>2, <2>3, SameCells
    <2> QED
      BY <2>1, <2>4, <2>5
  <1> QED
    BY <1>1, <1>2, <1>3, <1>4 DEF Tells

\* One record more: its place is the slot of the oldest, when all are used.
LEMMA TellsOneMore ==
    ASSUME NEW h, NEW b, NEW l, Tells(h, b, l), Complete(h, b),
           NEW r \in Entry, NEW n \in Nat \ {0}
    PROVE  /\ Tells(S!Noted(h, Len(b), n), b \o S!Record(r, n), Append(l, r))
           /\ Complete(S!Noted(h, Len(b), n), b \o S!Record(r, n))
           /\ Len(b \o S!Record(r, n)) = Len(b) + n
  <1>1. /\ h \in Ring /\ b \in Seq(Cell) /\ l \in Seq(Entry) /\ h.total = Len(l)
        /\ Len(h.at) = S!Retained(h) /\ Len(b) \in Nat /\ Len(l) \in Nat
    BY LenProperties DEF Tells
  <1>2. PICK t, at0 : t = h.total /\ at0 = h.at
    OBVIOUS
  <1>3. t \in Nat /\ at0 \in Seq(Spot) /\ Len(at0) = (IF t < Slots THEN t ELSE Slots)
        /\ Len(at0) \in Nat
    BY <1>1, <1>2, LenProperties DEF Ring, S!Retained
  <1>4. PICK c : c = b \o S!Record(r, n)
    OBVIOUS
  <1>5. /\ c \in Seq(Cell) /\ Len(c) = Len(b) + n
        /\ \A i \in 1..Len(b) : c[i] = b[i]
        /\ \A i \in 1..n : c[Len(b) + i] = <<r, i, n>>
    <2>1. /\ S!Record(r, n) \in Seq(Cell) /\ Len(S!Record(r, n)) = n
          /\ \A i \in 1..n : S!Record(r, n)[i] = <<r, i, n>>
      BY RecordIs
    <2>2. PICK m : m = S!Record(r, n)
      OBVIOUS
    <2>3. /\ c \in Seq(Cell) /\ Len(c) = Len(b) + Len(m)
          /\ \A i \in 1..(Len(b) + Len(m)) :
                c[i] = IF i <= Len(b) THEN b[i] ELSE m[i - Len(b)]
      BY <1>1, <1>4, <2>1, <2>2, ConcatProperties
    <2>4. Len(m) = n
      BY <2>1, <2>2
    <2>5. \A i \in 1..Len(b) : c[i] = b[i]
      BY <1>1, <2>3, <2>4
    <2>6. \A i \in 1..n : c[Len(b) + i] = m[i]
      <3> SUFFICES ASSUME NEW i \in 1..n PROVE c[Len(b) + i] = m[i]
        OBVIOUS
      <3>1. Len(b) + i \in 1..(Len(b) + Len(m)) /\ ~(Len(b) + i <= Len(b))
            /\ Len(b) + i - Len(b) = i
        BY <1>1, <2>4
      <3> QED
        BY <2>3, <3>1
    <2> QED
      BY <2>1, <2>2, <2>3, <2>4, <2>5, <2>6
  <1>6. PICK p : p = [off |-> Len(b), len |-> n]
    OBVIOUS
  <1>7. p \in Spot /\ p.off = Len(b) /\ p.len = n
    BY <1>1, <1>6 DEF Spot
  <1>8. Spanned(c, p) /\ S!Cells(c, p) = S!Record(r, n)
    <2>1. Spanned(c, p)
      BY <1>1, <1>5, <1>7 DEF Spanned
    <2>2. /\ S!Cells(c, p) \in Seq(Cell) /\ Len(S!Cells(c, p)) = n
          /\ \A i \in 1..n : S!Cells(c, p)[i] = <<r, i, n>>
      BY <1>5, <1>7, <2>1, CellsAre, ZenonT(60)
    <2>3. PICK x, y : x = S!Cells(c, p) /\ y = S!Record(r, n)
      OBVIOUS
    <2>4. /\ x \in Seq(Cell) /\ y \in Seq(Cell) /\ Len(x) = Len(y)
          /\ \A i \in 1..Len(x) : x[i] = y[i]
      <3>1. /\ y \in Seq(Cell) /\ Len(y) = n
            /\ \A i \in 1..n : y[i] = <<r, i, n>>
        BY <2>3, RecordIs
      <3>2. x \in Seq(Cell) /\ Len(x) = n /\ \A i \in 1..n : x[i] = <<r, i, n>>
        BY <2>2, <2>3
      <3> QED
        BY <3>1, <3>2
    <2> QED
      BY <2>1, <2>3, <2>4, SeqEqual
  <1>9. PICK slot : slot = Slot(t + 1)
    OBVIOUS
  <1>10. slot \in 1..Slots /\ (t < Slots => slot = t + 1) /\ (t % Slots) + 1 = slot
    <2>1. t + 1 \in Nat \ {0} /\ (t + 1) - 1 = t /\ (t < Slots => t + 1 <= Slots)
      BY <1>3, SlotsAre
    <2>2. slot \in 1..Slots /\ (t + 1 <= Slots => slot = t + 1)
      BY <1>9, <2>1, SlotIs
    <2>3. (t % Slots) + 1 = slot
      BY <1>9, <2>1 DEF Slot
    <2> QED
      BY <2>1, <2>2, <2>3
  <1>11. PICK at1 : at1 = IF slot > Len(at0) THEN Append(at0, p) ELSE [at0 EXCEPT ![slot] = p]
    OBVIOUS
  <1>12. S!Noted(h, Len(b), n) = [total |-> t + 1, at |-> at1]
    BY <1>2, <1>6, <1>10, <1>11 DEF S!Noted
  <1>13. /\ at1 \in Seq(Spot)
         /\ Len(at1) = IF t + 1 < Slots THEN t + 1 ELSE Slots
         /\ at1[slot] = p
         /\ \A i \in 1..Len(at0) : i # slot => at1[i] = at0[i]
    <2>1. CASE t < Slots
      <3>1. slot = Len(at0) + 1 /\ slot > Len(at0)
        BY <1>3, <1>10, <2>1
      <3>2. at1 = Append(at0, p)
        BY <1>11, <3>1
      <3>3. /\ at1 \in Seq(Spot) /\ Len(at1) = Len(at0) + 1 /\ at1[Len(at0) + 1] = p
            /\ \A i \in 1..Len(at0) : at1[i] = at0[i]
        BY <1>3, <1>7, <3>2, AppendProperties
      <3> QED
        BY <1>3, <2>1, <3>1, <3>3, SlotsAre
    <2>2. CASE t >= Slots
      <3>1. Len(at0) = Slots /\ ~(slot > Len(at0)) /\ slot \in 1..Len(at0)
        BY <1>3, <1>10, <2>2, SlotsAre
      <3>2. at1 = [at0 EXCEPT ![slot] = p]
        BY <1>11, <3>1
      <3>3. at1 \in Seq(Spot) /\ Len(at1) = Len(at0) /\ at1[slot] = p
            /\ \A i \in 1..Len(at0) : i # slot => at1[i] = at0[i]
        BY <1>3, <1>7, <3>1, <3>2, ExceptSeq
      <3> QED
        BY <1>3, <2>2, <3>1, <3>3, SlotsAre
    <2> QED
      BY <1>3, <2>1, <2>2, SlotsAre
  <1>14. PICK g : g = S!Noted(h, Len(b), n)
    OBVIOUS
  <1>15. g \in Ring /\ g.total = t + 1 /\ g.at = at1 /\ Len(g.at) = S!Retained(g)
    <2>1. g = [total |-> t + 1, at |-> at1]
      BY <1>12, <1>14
    <2>2. g.total = t + 1 /\ g.at = at1
      BY <2>1
    <2>3. S!Retained(g) = IF t + 1 < Slots THEN t + 1 ELSE Slots
      BY <2>2 DEF S!Retained
    <2>4. g \in Ring
      BY <1>3, <1>13, <2>1 DEF Ring
    <2> QED
      BY <1>13, <2>2, <2>3, <2>4
  <1>16. PICK k : k = Append(l, r)
    OBVIOUS
  <1>17. k \in Seq(Entry) /\ Len(k) = t + 1 /\ k[t + 1] = r /\ \A j \in 1..t : k[j] = l[j]
    BY <1>1, <1>2, <1>16, AppendProperties
  <1>18. ASSUME NEW j \in Retold(t + 1)
         PROVE  /\ Spanned(c, g.at[Slot(j)])
                /\ S!Cells(c, g.at[Slot(j)]) = S!Record(k[j], g.at[Slot(j)].len)
    <2>1. CASE j = t + 1
      BY <1>7, <1>8, <1>9, <1>13, <1>15, <1>17, <2>1
    <2>2. CASE j # t + 1
      <3>1. /\ j \in Retold(t) /\ j \in 1..t /\ j \in Nat \ {0} /\ t + 1 \in Nat \ {0}
            /\ j < t + 1 /\ t + 1 - j < Slots
        BY <1>3, <2>2, SlotsAre DEF Retold
      <3>2. Slot(j) # slot
        <4>1. PICK u : u = t + 1
          OBVIOUS
        <4>2. u \in Nat \ {0} /\ j \in Nat \ {0} /\ j < u /\ u - j < Slots
          BY <1>3, <3>1, <4>1, SlotsAre
        <4>3. Slot(j) # Slot(u)
          BY <4>2, SlotsDiffer
        <4> QED
          BY <1>9, <4>1, <4>3
      <3>3. Slot(j) \in 1..Len(at0) /\ at0[Slot(j)] \in Spot
        BY <1>1, <1>2, <3>1, SlotIsThere
      <3>4. PICK q : q = at0[Slot(j)]
        OBVIOUS
      <3>5. q \in Spot /\ g.at[Slot(j)] = q
        BY <1>13, <1>15, <3>2, <3>3, <3>4
      <3>6. Spanned(b, q) /\ S!Cells(b, q) = S!Record(l[j], q.len)
        BY <1>1, <1>2, <3>1, <3>4 DEF Tells, Complete
      <3>7. Spanned(c, q) /\ \A i \in 1..(q.off + q.len) : b[i] = c[i]
        BY <1>1, <1>5, <3>5, <3>6 DEF Spanned, Spot
      <3>8. S!Cells(b, q) = S!Cells(c, q)
        BY <1>1, <1>5, <3>5, <3>6, <3>7, SameCells
      <3> QED
        BY <1>17, <3>1, <3>5, <3>6, <3>7, <3>8
    <2> QED
      BY <2>1, <2>2
  <1>19. Tells(g, c, k)
    BY <1>5, <1>15, <1>17, <1>18 DEF Tells
  <1>20. Complete(g, c)
    BY <1>15, <1>18 DEF Complete
  <1> QED
    BY <1>4, <1>5, <1>14, <1>16, <1>19, <1>20

\* A file tells all its places or does not read well.
LEMMA ReadsWell ==
    ASSUME NEW h, NEW b, NEW l, Tells(h, b, l), NEW file0, file0.head = h, file0.body = b
    PROVE  /\ S!Readable(file0) <=> Complete(h, b)
           /\ Complete(h, b) => S!Rendered(file0) = S!Newest(l, Slots)
  <1>1. /\ h \in Ring /\ b \in Seq(Cell) /\ l \in Seq(Entry) /\ h.total = Len(l)
        /\ Len(h.at) = S!Retained(h) /\ Len(l) \in Nat
    BY LenProperties DEF Tells
  <1>2. h \notin {None, Broken}
    <2>1. h \in [total : Nat, at : Seq([off : Nat, len : Nat])]
      <3>1. h.at \in Seq([off : Nat, len : Nat])
        <4>1. Spot \subseteq [off : Nat, len : Nat]
          BY DEF Spot
        <4>2. h.at \in Seq(Spot)
          BY <1>1 DEF Ring
        <4> QED
          BY <4>1, <4>2, SeqMonotonic
      <3> QED
        BY <1>1, <3>1 DEF Ring
    <2> QED
      BY <2>1, SessionAssumption
  <1>3. PICK m, d : m = S!Retained(h) /\ d = h.total - S!Retained(h)
    OBVIOUS
  <1>4. /\ m = (IF Len(l) < Slots THEN Len(l) ELSE Slots) /\ d = Len(l) - m
        /\ m \in Nat /\ d \in Nat /\ d + m = Len(l)
    BY <1>1, <1>3, SlotsAre DEF S!Retained
  <1>5. DOMAIN S!Places(h) = 1..m
    BY <1>3 DEF S!Places
  <1>6. \A i \in 1..m : S!Places(h)[i] = h.at[Slot(d + i)] /\ d + i \in Retold(Len(l))
    BY <1>1, <1>3, PlaceIs DEF S!Places
  <1>7. \A j \in Retold(Len(l)) : j - d \in 1..m /\ d + (j - d) = j
    <2>1. PICK t : t = Len(l)
      OBVIOUS
    <2>2. t \in Nat /\ m = (IF t < Slots THEN t ELSE Slots) /\ d = t - m /\ m \in Nat /\ d \in Nat
      BY <1>1, <1>4, <2>1
    <2>3. \A j \in Retold(t) : j \in 1..t /\ j > t - Slots
      BY DEF Retold
    <2>4. \A j \in 1..t : j > t - Slots => j - d \in 1..m /\ d + (j - d) = j
      BY <2>2, SlotsAre
    <2> QED
      BY <2>1, <2>3, <2>4
  <1>8. ASSUME NEW j \in Retold(Len(l)), Spanned(b, h.at[Slot(j)])
        PROVE  S!Whole(b, h.at[Slot(j)]) /\ b[h.at[Slot(j)].off + 1][1] = l[j]
    <2>1. PICK p : p = h.at[Slot(j)]
      OBVIOUS
    <2>2. p \in Spot /\ j \in 1..Len(l)
      BY <1>1, <2>1, SlotIsThere DEF Retold
    <2>3. l[j] \in Entry /\ p.len \in Nat \ {0}
      BY <1>1, <2>2, ElementOfSeq DEF Spot
    <2>4. S!Cells(b, p) = S!Record(l[j], p.len) /\ Spanned(b, p)
      BY <1>8, <2>1 DEF Tells
    <2>5. S!Cells(b, p)[1] = b[p.off + 1]
      BY <1>1, <2>2, <2>3, <2>4, CellsAre
    <2>6. S!Record(l[j], p.len)[1][1] = l[j]
      BY <2>3, RecordIs
    <2>7. b[p.off + 1][1] = l[j]
      BY <2>4, <2>5, <2>6
    <2> QED
      BY <2>1, <2>4, <2>7 DEF S!Whole, Spanned
  <1>9. S!Readable(file0) => Complete(h, b)
    <2> SUFFICES ASSUME S!Readable(file0), NEW j \in Retold(Len(l)) PROVE Spanned(b, h.at[Slot(j)])
      BY <1>1 DEF Complete
    <2>1. j - d \in 1..m /\ S!Places(h)[j - d] = h.at[Slot(j)]
      BY <1>6, <1>7
    <2>2. S!Whole(b, S!Places(h)[j - d])
      BY <1>5, <2>1 DEF S!Readable
    <2> QED
      BY <2>1, <2>2 DEF S!Whole, Spanned
  <1>10. ASSUME Complete(h, b)
         PROVE  S!Readable(file0) /\ S!Rendered(file0) = S!Newest(l, Slots)
    <2>1. \A i \in 1..m : /\ S!Whole(b, S!Places(h)[i])
                         /\ b[S!Places(h)[i].off + 1][1] = l[d + i]
      BY <1>1, <1>6, <1>8, <1>10 DEF Complete
    <2>2. S!Readable(file0)
      BY <1>2, <1>5, <2>1 DEF S!Readable
    <2>3. S!Rendered(file0) = [i \in 1..m |-> l[d + i]]
      BY <1>5, <2>1 DEF S!Rendered
    <2>4. PICK w : w = S!Newest(l, Slots)
      OBVIOUS
    <2>5. /\ w \in Seq(Entry) /\ Len(w) = m /\ \A i \in 1..m : w[i] = l[d + i]
      <3>1. CASE Len(l) <= Slots
        <4>1. w = l /\ m = Len(l) /\ d = 0
          <5>1. w = l
            BY <2>4, <3>1 DEF S!Newest
          <5>2. PICK t : t = Len(l)
            OBVIOUS
          <5>3. t \in Nat /\ t <= Slots /\ m = (IF t < Slots THEN t ELSE Slots) /\ d = t - m
            BY <1>1, <1>4, <3>1, <5>2
          <5>4. m = t /\ d = 0
            BY <5>3, SlotsAre
          <5> QED
            BY <5>1, <5>2, <5>4
        <4> QED
          BY <1>1, <4>1
      <3>2. CASE Len(l) > Slots
        <4>1. w = SubSeq(l, Len(l) - Slots + 1, Len(l)) /\ m = Slots /\ d = Len(l) - Slots
          <5>1. ~(Len(l) <= Slots)
            BY <1>1, <3>2, SlotsAre
          <5>2. w = SubSeq(l, Len(l) - Slots + 1, Len(l))
            BY <2>4, <5>1 DEF S!Newest
          <5>3. ~(Len(l) < Slots)
            BY <1>1, <3>2, SlotsAre
          <5> QED
            BY <1>4, <5>2, <5>3
        <4>2. /\ d + 1 \in 1..(Len(l) + 1) /\ Len(l) \in ((d + 1) - 1)..Len(l) /\ d + 1 <= Len(l)
              /\ Len(l) - Slots + 1 = d + 1 /\ Len(l) - (d + 1) + 1 = m
              /\ \A i \in 1..m : (d + 1) + i - 1 = d + i
          <5>1. PICK t : t = Len(l)
            OBVIOUS
          <5>2. t \in Nat /\ d = t - Slots /\ m = Slots /\ t > Slots /\ d \in Nat
            BY <1>1, <1>4, <3>2, <4>1, <5>1
          <5>3. /\ d + 1 \in 1..(t + 1) /\ t \in ((d + 1) - 1)..t /\ d + 1 <= t
                /\ t - Slots + 1 = d + 1 /\ t - (d + 1) + 1 = m
                /\ \A i \in 1..m : (d + 1) + i - 1 = d + i
            BY <5>2, SlotsAre
          <5> QED
            BY <5>1, <5>3
        <4>3. /\ w \in Seq(Entry) /\ Len(w) = Len(l) - (d + 1) + 1
              /\ \A i \in 1..(Len(l) - (d + 1) + 1) : w[i] = l[(d + 1) + i - 1]
          <5>1. w = SubSeq(l, d + 1, Len(l))
            BY <4>1, <4>2
          <5> QED
            BY <1>1, <4>2, <5>1, SubSeqProperties
        <4> QED
          BY <4>2, <4>3
      <3> QED
        BY <1>1, <3>1, <3>2, SlotsAre
    <2>6. w = [i \in 1..m |-> l[d + i]]
      BY <2>5
    <2> QED
      BY <2>2, <2>3, <2>4, <2>6
  <1> QED
    BY <1>9, <1>10

-----------------------------------------------------------------------------
(* The chat's conversations.                                                  *)

History == [head : Ring \cup {None, Broken}, body : Seq(Cell)]
Kept(v) == files[v].head \notin {None, Broken}

ChatType ==
    /\ mapped \in (1..MaxVersion) \cup {None, Broken}
    /\ files \in [Sids -> History] /\ log \in [Sids -> Seq(Entry)]
    /\ line \in Seq(Ask) /\ turns \in Nat /\ era \in Nat /\ sfaults \in Nat
    /\ turn = None \/ turn \in [req : Ask, shown : Seq(Entry)]
    /\ strayed \in BOOLEAN

\* What each file tells, however far it is filled.
FilesTell ==
    \A v \in Sids :
        /\ files[v].head = None => log[v] = <<>>
        /\ Kept(v) => Tells(files[v].head, files[v].body, log[v])

\* A file is complete that no power cut has been into, and the one a turn is loaded from.
FilesFilled ==
    /\ sfaults = 0 =>
          \A v \in Sids : /\ files[v].head # Broken
                          /\ Kept(v) => Complete(files[v].head, files[v].body)
    /\ turn # None =>
          /\ files[turn.req.sid].head # Broken
          /\ Kept(turn.req.sid) =>
                Complete(files[turn.req.sid].head, files[turn.req.sid].body)

\* The version of a session follows from how often the chat was rolled.
VersionsFollow ==
    ~strayed =>
        /\ mapped # Broken
        /\ mapped = None =>
              /\ era = 0 /\ line = <<>> /\ turn = None
              /\ \A v \in Sids : log[v] = <<>>
        /\ \E d \in {0, 1} :
              /\ mapped # None => mapped = era + d
              /\ \A i \in 1..Len(line) : line[i].sid = line[i].era + d
              /\ \A v \in Sids : \A i \in 1..Len(log[v]) : log[v][i].era + d = v
              /\ turn # None =>
                    /\ turn.req.sid = turn.req.era + d
                    /\ \A i \in 1..Len(turn.shown) : turn.shown[i].era + d = turn.req.sid

ChatInv == ChatType /\ FilesTell /\ FilesFilled /\ VersionsFollow

LEMMA SidsAre == S!Sessionids = Sids
  BY SessionAssumption DEF S!Sessionids, S!Fallback, Sids

LEMMA RingIsNoMark == \A h \in Ring : h \notin {None, Broken}
  <1> SUFFICES ASSUME NEW h \in Ring PROVE h \in [total : Nat, at : Seq([off : Nat, len : Nat])]
    BY SessionAssumption
  <1>1. Spot \subseteq [off : Nat, len : Nat]
    BY DEF Spot
  <1>2. h.at \in Seq([off : Nat, len : Nat])
    <2>1. h.at \in Seq(Spot)
      BY DEF Ring
    <2> QED
      BY <1>1, <2>1, SeqMonotonic
  <1> QED
    BY <1>2 DEF Ring

LEMMA ChatInit == S!Init => ChatInv
  <1> SUFFICES ASSUME S!Init PROVE ChatInv
    OBVIOUS
  <1>1. /\ mapped = None /\ files = [v \in Sids |-> S!NoFile] /\ line = <<>> /\ turn = None
        /\ turns = 0 /\ sfaults = 0 /\ era = 0 /\ log = [v \in Sids |-> <<>>] /\ strayed = FALSE
    BY SidsAre DEF S!Init
  <1>2. S!NoFile.head = None /\ S!NoFile \in History
    BY DEF S!NoFile, History
  <1>3. ChatType
    <2>1. files \in [Sids -> History]
      BY <1>1, <1>2
    <2>2. log \in [Sids -> Seq(Entry)]
      BY <1>1
    <2>3. line \in Seq(Ask)
      BY <1>1
    <2> QED
      BY <1>1, <2>1, <2>2, <2>3 DEF ChatType
  <1>4. FilesTell /\ FilesFilled
    BY <1>1, <1>2, SessionAssumption DEF FilesTell, FilesFilled, Kept
  <1>5. VersionsFollow
    <2>1. None # Broken => mapped # Broken
      BY <1>1
    <2>2. /\ mapped # None => mapped = era + 0
          /\ \A i \in 1..Len(line) : line[i].sid = line[i].era + 0
          /\ \A v \in Sids : log[v] = <<>> /\ \A i \in 1..Len(log[v]) : log[v][i].era + 0 = v
      BY <1>1
    <2> QED
      BY <1>1, <2>1, <2>2, SessionAssumption DEF VersionsFollow
  <1> QED
    BY <1>3, <1>4, <1>5 DEF ChatInv

\* What a file tells when it reads well.
LEMMA LoadTells ==
    ASSUME ChatType, FilesTell, NEW v \in Sids
    PROVE  /\ S!Readable(files[v]) <=> Kept(v) /\ Complete(files[v].head, files[v].body)
           /\ S!Readable(files[v]) => S!Rendered(files[v]) = S!Newest(log[v], Slots)
  <1>1. CASE Kept(v)
    BY <1>1, ReadsWell DEF FilesTell
  <1>2. CASE ~Kept(v)
    BY <1>2 DEF Kept, S!Readable
  <1> QED
    BY <1>1, <1>2

LEMMA NewestIs ==
    ASSUME NEW l \in Seq(Entry)
    PROVE  /\ S!Newest(l, Slots) \in Seq(Entry)
           /\ \A i \in 1..Len(S!Newest(l, Slots)) :
                 \E j \in 1..Len(l) : S!Newest(l, Slots)[i] = l[j]
  <1>1. PICK t, w : t = Len(l) /\ w = S!Newest(l, Slots)
    OBVIOUS
  <1>2. t \in Nat
    BY <1>1
  <1>3. CASE t <= Slots
    BY <1>1, <1>3 DEF S!Newest
  <1>4. CASE t > Slots
    <2>1. w = SubSeq(l, t - Slots + 1, t)
      <3>1. ~(t <= Slots)
        BY <1>2, <1>4, SlotsAre
      <3> QED
        BY <1>1, <3>1 DEF S!Newest
    <2>2. PICK m : m = t - Slots + 1
      OBVIOUS
    <2>3. m \in 1..(t + 1) /\ t \in (m - 1)..t /\ m <= t
          /\ \A i \in 1..(t - m + 1) : m + i - 1 \in 1..t
      BY <1>2, <1>4, <2>2, SlotsAre
    <2>4. /\ w \in Seq(Entry) /\ Len(w) = t - m + 1
          /\ \A i \in 1..(t - m + 1) : w[i] = l[m + i - 1]
      BY <1>1, <2>1, <2>2, <2>3, SubSeqProperties
    <2> QED
      BY <1>1, <2>3, <2>4
  <1> QED
    BY <1>1, <1>2, <1>3, <1>4, SlotsAre

\* A version is that of the map file, or none.
LEMMA VersionIs ==
    ASSUME ChatType
    PROVE  /\ mapped \in {None, Broken} => S!Version = 0
           /\ mapped \notin {None, Broken} => S!Version = mapped /\ mapped \in 1..MaxVersion
  BY DEF ChatType, S!Version

\* One request more.
LEMMA AskIs ==
    ASSUME ChatType, NEW sid \in Sids, S!Ask(sid)
    PROVE  /\ line' \in Seq(Ask) /\ turns' \in Nat /\ Len(line') = Len(line) + 1
           /\ Len(line) \in Nat
           /\ \A i \in 1..Len(line) : line'[i] = line[i]
           /\ line'[Len(line) + 1].sid = sid /\ line'[Len(line) + 1].era = era
  <1>1. PICK x : x = [sid |-> sid, era |-> era, n |-> turns + 1]
    OBVIOUS
  <1>2. x \in Ask /\ x.sid = sid /\ x.era = era
    BY <1>1 DEF ChatType, Ask
  <1>3. line' = Append(line, x) /\ turns' = turns + 1
    BY <1>1 DEF S!Ask
  <1>4. /\ line' \in Seq(Ask) /\ Len(line') = Len(line) + 1
        /\ \A i \in 1..Len(line) : line'[i] = line[i]
        /\ line'[Len(line) + 1] = x
    BY <1>2, <1>3, AppendProperties DEF ChatType
  <1> QED
    BY <1>2, <1>3, <1>4, LenProperties DEF ChatType

\* Where files and turn stay as they are, so does what the files tell.
LEMMA FilesStay ==
    ASSUME ChatInv, UNCHANGED <<files, log, turn>>, sfaults' \in {sfaults, sfaults + 1}
    PROVE  FilesTell' /\ FilesFilled' /\ sfaults' \in Nat
  <1>1. sfaults' \in Nat /\ (sfaults' = 0 => sfaults = 0)
    BY DEF ChatInv, ChatType
  <1> QED
    BY <1>1 DEF ChatInv, FilesTell, FilesFilled, Kept

LEMMA ChatMessage == ASSUME ChatInv, S!Message PROVE ChatInv'
  <1> USE DEF ChatInv
  <1>1. UNCHANGED <<files, turn, era, log>>
    BY DEF S!Message
  <1>2. CASE /\ S!Ask(IF S!Version = 0 THEN 1 ELSE S!Version)
             /\ mapped' = (IF S!Version = 0 THEN 1 ELSE mapped)
             /\ UNCHANGED <<sfaults, strayed>>
    <2>1. PICK sid : sid = IF S!Version = 0 THEN 1 ELSE S!Version
      OBVIOUS
    <2>2. /\ sid \in 1..MaxVersion /\ sid \in Sids /\ mapped' = sid
          /\ mapped = None => sid = 1
          /\ mapped \notin {None, Broken} => sid = mapped
      BY <1>2, <2>1, VersionIs, SessionAssumption DEF Sids
    <2>3. /\ line' \in Seq(Ask) /\ turns' \in Nat /\ Len(line') = Len(line) + 1
          /\ Len(line) \in Nat
          /\ \A i \in 1..Len(line) : line'[i] = line[i]
          /\ line'[Len(line) + 1].sid = sid /\ line'[Len(line) + 1].era = era
      BY <1>2, <2>1, <2>2, AskIs
    <2>4. ChatType'
      BY <1>1, <1>2, <2>2, <2>3 DEF ChatType
    <2>5. VersionsFollow'
      <3> SUFFICES ASSUME ~strayed'
                   PROVE  \E d \in {0, 1} :
                      /\ mapped' = era' + d
                      /\ \A i \in 1..Len(line') : line'[i].sid = line'[i].era + d
                      /\ \A v \in Sids : \A i \in 1..Len(log'[v]) : log'[v][i].era + d = v
                      /\ turn' # None =>
                            /\ turn'.req.sid = turn'.req.era + d
                            /\ \A i \in 1..Len(turn'.shown) : turn'.shown[i].era + d = turn'.req.sid
        <4>1. mapped' # None /\ mapped' # Broken
          BY <2>2, SessionAssumption
        <4> QED
          BY <4>1 DEF VersionsFollow
      <3>1. CASE mapped = None
        <4>1. /\ era = 0 /\ line = <<>> /\ turn = None /\ sid = 1
              /\ \A v \in Sids : log[v] = <<>>
          BY <1>2, <2>2, <3>1 DEF VersionsFollow
        <4>2. Len(line') = 1 /\ line'[1].sid = 1 /\ line'[1].era = 0
          BY <2>3, <4>1
        <4>3. \A i \in 1..Len(line') : line'[i].sid = line'[i].era + 1
          BY <4>2
        <4>4. \A v \in Sids : \A i \in 1..Len(log'[v]) : log'[v][i].era + 1 = v
          BY <1>1, <4>1
        <4> QED
          BY <1>1, <2>2, <4>1, <4>3, <4>4
      <3>2. CASE mapped # None
        <4>1. mapped # Broken /\ sid = mapped
          BY <1>2, <2>2, <3>2 DEF VersionsFollow
        <4>2. PICK d \in {0, 1} :
                 /\ mapped = era + d
                 /\ \A i \in 1..Len(line) : line[i].sid = line[i].era + d
                 /\ \A v \in Sids : \A i \in 1..Len(log[v]) : log[v][i].era + d = v
                 /\ turn # None =>
                       /\ turn.req.sid = turn.req.era + d
                       /\ \A i \in 1..Len(turn.shown) : turn.shown[i].era + d = turn.req.sid
          BY <1>2, <3>2 DEF VersionsFollow
        <4>3. \A i \in 1..Len(line') : line'[i].sid = line'[i].era + d
          BY <2>3, <4>1, <4>2
        <4> QED
          BY <1>1, <2>2, <4>1, <4>2, <4>3
      <3> QED
        BY <3>1, <3>2
    <2> QED
      BY <1>1, <1>2, <2>4, <2>5, FilesStay
  <1>3. CASE /\ S!Version = 0 /\ S!Ask(S!Fallback) /\ S!Fault
             /\ mapped' \in {mapped, Broken} /\ strayed' = TRUE
    <2>1. S!Fallback \in Sids
      BY SessionAssumption DEF S!Fallback, Sids
    <2>2. line' \in Seq(Ask) /\ turns' \in Nat
      BY <1>3, <2>1, AskIs
    <2>3. sfaults' = sfaults + 1
      BY <1>3 DEF S!Fault
    <2>4. FilesTell' /\ FilesFilled' /\ sfaults' \in Nat
      BY <1>1, <2>3, FilesStay
    <2>5. ChatType'
      BY <1>1, <1>3, <2>2, <2>4 DEF ChatType
    <2> QED
      BY <1>3, <2>4, <2>5 DEF VersionsFollow
  <1> QED
    BY <1>2, <1>3 DEF S!Message

LEMMA ChatRoll == ASSUME ChatInv, S!Roll PROVE ChatInv'
  <1> USE DEF ChatInv
  <1>1. UNCHANGED <<files, line, turn, turns, log>> /\ S!NextVersion \in 1..MaxVersion
    BY DEF S!Roll
  <1>2. CASE mapped' = S!NextVersion /\ era' = era + 1 /\ UNCHANGED <<sfaults, strayed>>
    <2>1. ChatType'
      BY <1>1, <1>2 DEF ChatType
    <2>2. mapped' # None /\ mapped' # Broken
      BY <1>1, <1>2, SessionAssumption
    <2>3. VersionsFollow'
      <3> SUFFICES ASSUME ~strayed'
                   PROVE  \E d \in {0, 1} :
                      /\ mapped' = era' + d
                      /\ \A i \in 1..Len(line') : line'[i].sid = line'[i].era + d
                      /\ \A v \in Sids : \A i \in 1..Len(log'[v]) : log'[v][i].era + d = v
                      /\ turn' # None =>
                            /\ turn'.req.sid = turn'.req.era + d
                            /\ \A i \in 1..Len(turn'.shown) : turn'.shown[i].era + d = turn'.req.sid
        BY <2>2 DEF VersionsFollow
      <3>1. CASE mapped = None
        <4>1. /\ era = 0 /\ line = <<>> /\ turn = None
              /\ \A v \in Sids : log[v] = <<>>
          BY <1>2, <3>1 DEF VersionsFollow
        <4>2. mapped' = 1 /\ era' = 1
          BY <1>2, <3>1, <4>1, VersionIs DEF S!NextVersion
        <4>3. \A v \in Sids : \A i \in 1..Len(log'[v]) : log'[v][i].era + 0 = v
          BY <1>1, <4>1
        <4>4. \A i \in 1..Len(line') : line'[i].sid = line'[i].era + 0
          BY <1>1, <4>1
        <4>5. mapped' = era' + 0 /\ turn' = None
          BY <1>1, <4>1, <4>2
        <4> QED
          BY <4>3, <4>4, <4>5
      <3>2. CASE mapped # None
        <4>1. S!Version = mapped
          BY <1>2, <3>2, VersionIs DEF VersionsFollow
        <4>2. PICK d \in {0, 1} :
                 /\ mapped = era + d
                 /\ \A i \in 1..Len(line) : line[i].sid = line[i].era + d
                 /\ \A v \in Sids : \A i \in 1..Len(log[v]) : log[v][i].era + d = v
                 /\ turn # None =>
                       /\ turn.req.sid = turn.req.era + d
                       /\ \A i \in 1..Len(turn.shown) : turn.shown[i].era + d = turn.req.sid
          BY <1>2, <3>2 DEF VersionsFollow
        <4>3. mapped' = era' + d
          BY <1>2, <4>1, <4>2 DEF S!NextVersion, ChatType
        <4> QED
          BY <1>1, <4>2, <4>3
      <3> QED
        BY <3>1, <3>2
    <2> QED
      BY <1>1, <1>2, <2>1, <2>3, FilesStay
  <1>3. CASE S!Fault /\ mapped' \in {mapped, Broken} /\ strayed' = TRUE /\ UNCHANGED era
    <2>1. sfaults' = sfaults + 1
      BY <1>3 DEF S!Fault
    <2>2. FilesTell' /\ FilesFilled' /\ sfaults' \in Nat
      BY <1>1, <2>1, FilesStay
    <2>3. ChatType'
      BY <1>1, <1>3, <2>2 DEF ChatType
    <2> QED
      BY <1>3, <2>2, <2>3 DEF VersionsFollow
  <1> QED
    BY <1>2, <1>3 DEF S!Roll

LEMMA ChatLoad == ASSUME ChatInv, S!Load PROVE ChatInv'
  <1> USE DEF ChatInv
  <1>1. /\ turn = None /\ line # <<>> /\ line' = Tail(line)
        /\ UNCHANGED <<mapped, turns, sfaults, era, strayed>>
    BY DEF S!Load
  <1>2. PICK q : q = Head(line)
    OBVIOUS
  <1>3. /\ q \in Ask /\ q.sid \in Sids /\ q = line[1] /\ 1 \in 1..Len(line)
        /\ line' \in Seq(Ask) /\ \A i \in 1..Len(line') : line'[i] = line[i + 1] /\ i + 1 \in 1..Len(line)
    <2>1. line \in Seq(Ask) /\ Len(line) \in Nat \ {0}
      BY <1>1, EmptySeq DEF ChatType
    <2>2. q = line[1] /\ 1 \in 1..Len(line)
      BY <1>2, <2>1
    <2>3. q \in Ask
      BY <2>1, <2>2, ElementOfSeq
    <2>4. /\ Tail(line) \in Seq(Ask) /\ Len(Tail(line)) = Len(line) - 1
          /\ \A i \in 1..(Len(line) - 1) : Tail(line)[i] = line[i + 1]
      BY <1>1, <2>1, HeadTailProperties
    <2> QED
      BY <1>1, <2>1, <2>2, <2>3, <2>4 DEF Ask
  <1>4. PICK well \in BOOLEAN : well <=> S!Readable(files[q.sid])
    OBVIOUS
  <1>5. PICK shown : shown = IF well THEN S!Rendered(files[q.sid]) ELSE <<>>
    OBVIOUS
  <1>6. turn' = [req |-> q, shown |-> shown]
    BY <1>2, <1>4, <1>5 DEF S!Load
  <1>7. shown \in Seq(Entry)
        /\ \A i \in 1..Len(shown) : \E j \in 1..Len(log[q.sid]) : shown[i] = log[q.sid][j]
    <2>1. CASE well
      <3>1. shown = S!Newest(log[q.sid], Slots)
        BY <1>3, <1>4, <1>5, <2>1, LoadTells
      <3>2. log[q.sid] \in Seq(Entry)
        BY <1>3 DEF ChatType
      <3> QED
        BY <3>1, <3>2, NewestIs
    <2>2. CASE ~well
      BY <1>5, <2>2
    <2> QED
      BY <2>1, <2>2
  <1>8. turn' \in [req : Ask, shown : Seq(Entry)] /\ turn'.req = q /\ turn'.shown = shown
    BY <1>3, <1>6, <1>7
  <1>9. PICK fresh : fresh = [head |-> S!NewHead, body |-> <<>>]
    OBVIOUS
  <1>10. /\ fresh.head = S!NewHead /\ fresh.body = <<>> /\ fresh \in History
         /\ Tells(fresh.head, fresh.body, <<>>) /\ Complete(fresh.head, fresh.body)
         /\ fresh.head \notin {None, Broken}
    <2>1. fresh.head = S!NewHead /\ fresh.body = <<>>
      BY <1>9
    <2>2. Tells(fresh.head, fresh.body, <<>>) /\ Complete(fresh.head, fresh.body)
      BY <2>1, NewTells
    <2>3. fresh.head \in Ring
      BY <2>2 DEF Tells
    <2>4. fresh \in History
      BY <1>9, <2>1, <2>3 DEF History
    <2> QED
      BY <2>1, <2>2, <2>3, <2>4, RingIsNoMark
  <1>11. /\ files' = IF well \/ files[q.sid].head = None THEN files
                     ELSE [files EXCEPT ![q.sid] = fresh]
         /\ log' = IF well THEN log ELSE [log EXCEPT ![q.sid] = <<>>]
    BY <1>2, <1>4, <1>9 DEF S!Load
  <1>12. ASSUME NEW v \in Sids
         PROVE  /\ files'[v] \in History /\ log'[v] \in Seq(Entry)
                /\ v # q.sid => files'[v] = files[v] /\ log'[v] = log[v]
                /\ v = q.sid =>
                      \/ /\ files'[v] = files[v] /\ log'[v] = log[v]
                         /\ Kept(v) /\ Complete(files[v].head, files[v].body)
                      \/ files'[v].head = None /\ log'[v] = <<>>
                      \/ files'[v] = fresh /\ log'[v] = <<>>
    <2>1. files \in [Sids -> History] /\ log \in [Sids -> Seq(Entry)]
      BY DEF ChatType
    <2>2. CASE well
      <3>1. Kept(q.sid) /\ Complete(files[q.sid].head, files[q.sid].body)
        BY <1>3, <1>4, <2>2, LoadTells
      <3>2. files' = files /\ log' = log
        BY <1>11, <2>2
      <3>3. files'[v] = files[v] /\ log'[v] = log[v]
        BY <3>2
      <3>4. v = q.sid => Kept(v) /\ Complete(files[v].head, files[v].body)
        BY <3>1
      <3>5. files'[v] \in History /\ log'[v] \in Seq(Entry)
        BY <2>1, <3>3
      <3> QED
        BY <3>3, <3>4, <3>5
    <2>3. CASE ~well
      BY <1>3, <1>10, <1>11, <2>1, <2>3
    <2> QED
      BY <2>2, <2>3
  <1>13. files' \in [Sids -> History] /\ log' \in [Sids -> Seq(Entry)]
    <2>1. files' = [v \in Sids |-> files'[v]] /\ log' = [v \in Sids |-> log'[v]]
      BY <1>11 DEF ChatType
    <2> QED
      BY <1>12, <2>1
  <1>14. ChatType'
    BY <1>1, <1>3, <1>8, <1>13 DEF ChatType
  <1>15. FilesTell'
    <2> SUFFICES ASSUME NEW v \in Sids
                 PROVE  /\ files'[v].head = None => log'[v] = <<>>
                        /\ files'[v].head \notin {None, Broken} =>
                              Tells(files'[v].head, files'[v].body, log'[v])
      BY DEF FilesTell, Kept
    <2>1. CASE files'[v] = files[v] /\ log'[v] = log[v]
      BY <2>1 DEF FilesTell, Kept
    <2>2. CASE files'[v].head = None /\ log'[v] = <<>>
      BY <2>2
    <2>3. CASE files'[v] = fresh /\ log'[v] = <<>>
      BY <1>10, <2>3
    <2> QED
      BY <1>12, <2>1, <2>2, <2>3
  <1>16. FilesFilled'
    <2>1. ASSUME NEW v \in Sids, sfaults = 0 \/ v = q.sid
          PROVE  /\ files'[v].head # Broken
                 /\ files'[v].head \notin {None, Broken} => Complete(files'[v].head, files'[v].body)
      <3>1. CASE v = q.sid
        BY <1>10, <1>12, <3>1, SessionAssumption DEF Kept
      <3>2. CASE v # q.sid
        <4>1. sfaults = 0 /\ files'[v] = files[v]
          BY <1>12, <2>1, <3>2
        <4>2. PICK w : w = files[v]
          OBVIOUS
        <4>3. /\ w.head # Broken
              /\ w.head \notin {None, Broken} => Complete(w.head, w.body)
          <5>1. \A x \in Sids : files[x].head # Broken /\
                  (files[x].head \notin {None, Broken} => Complete(files[x].head, files[x].body))
            BY <4>1 DEF FilesFilled, Kept
          <5> QED
            BY <4>2, <5>1
        <4> QED
          BY <4>1, <4>2, <4>3
      <3> QED
        BY <3>1, <3>2
    <2> QED
      BY <1>1, <1>3, <1>8, <2>1 DEF FilesFilled, Kept
  <1>17. VersionsFollow'
    <2> SUFFICES ASSUME ~strayed'
                 PROVE  /\ mapped' # Broken /\ mapped' # None
                        /\ \E d \in {0, 1} :
                             /\ mapped' # None => mapped' = era' + d
                             /\ \A i \in 1..Len(line') : line'[i].sid = line'[i].era + d
                             /\ \A v \in Sids : \A i \in 1..Len(log'[v]) : log'[v][i].era + d = v
                             /\ turn'.req.sid = turn'.req.era + d
                             /\ \A i \in 1..Len(turn'.shown) : turn'.shown[i].era + d = turn'.req.sid
      BY DEF VersionsFollow
    <2>1. mapped # Broken /\ mapped # None
      BY <1>1 DEF VersionsFollow
    <2>2. PICK d \in {0, 1} :
             /\ mapped = era + d
             /\ \A i \in 1..Len(line) : line[i].sid = line[i].era + d
             /\ \A v \in Sids : \A i \in 1..Len(log[v]) : log[v][i].era + d = v
      BY <1>1, <2>1 DEF VersionsFollow
    <2>3. \A i \in 1..Len(line') : line'[i].sid = line'[i].era + d
      BY <1>3, <2>2
    <2>4. \A v \in Sids : \A i \in 1..Len(log'[v]) : log'[v][i].era + d = v
      <3> SUFFICES ASSUME NEW v \in Sids, NEW i \in 1..Len(log'[v])
                   PROVE  log'[v] = log[v]
        BY <2>2
      <3> QED
        BY <1>12
    <2>5. q.sid = q.era + d
      BY <1>3, <2>2
    <2>6. \A i \in 1..Len(shown) : shown[i].era + d = q.sid
      <3> SUFFICES ASSUME NEW i \in 1..Len(shown) PROVE shown[i].era + d = q.sid
        OBVIOUS
      <3>1. PICK j \in 1..Len(log[q.sid]) : shown[i] = log[q.sid][j]
        BY <1>7
      <3>2. log[q.sid][j].era + d = q.sid
        BY <1>3, <2>2
      <3> QED
        BY <3>1, <3>2
    <2> QED
      BY <1>1, <1>8, <2>1, <2>2, <2>3, <2>4, <2>5, <2>6
  <1> QED
    BY <1>14, <1>15, <1>16, <1>17

\* A file that a turn can be appended to: there is none, or it is complete.
Ready(f, l) ==
    /\ f \in History /\ l \in Seq(Entry) /\ f.head # Broken
    /\ f.head = None => l = <<>>
    /\ f.head \notin {None, Broken} => Tells(f.head, f.body, l) /\ Complete(f.head, f.body)

\* A turn of two records more: what is kept of it, and what a power cut leaves.
TurnKept(new, old, l, u, a) ==
    /\ Tells(new.head, new.body, Append(Append(l, u), a)) /\ Complete(new.head, new.body)
    /\ Tells(old.head, old.body, l) /\ Tells(old.head, new.body, l)
    /\ Len(old.body) \in Nat /\ Len(old.body) <= Len(new.body)
    /\ new = [head |-> new.head, body |-> new.body]

LEMMA TurnTells ==
    ASSUME NEW file0, NEW l, Ready(file0, l), NEW u \in Entry, NEW a \in Entry,
           NEW ulen \in Lengths, NEW alen \in Lengths
    PROVE  TurnKept(S!WithTurn(file0, u, a, ulen, alen), S!Opened(file0), l, u, a)
  <1>0. PICK new, old : new = S!WithTurn(file0, u, a, ulen, alen) /\ old = S!Opened(file0)
    OBVIOUS
  <1> USE <1>0 DEF Ready
  <1>1. Tells(old.head, old.body, l) /\ Complete(old.head, old.body)
    <2>1. CASE file0.head = None
      <3>1. old.head = S!NewHead /\ old.body = <<>>
        BY <2>1 DEF S!Opened
      <3> QED
        BY <2>1, <3>1, NewTells
    <2>2. CASE file0.head # None
      BY <2>2 DEF S!Opened
    <2> QED
      BY <2>1, <2>2
  <1>2. ulen \in Nat \ {0} /\ alen \in Nat \ {0}
    BY SessionAssumption
  <1>3. PICK h, b : h = old.head /\ b = old.body
    OBVIOUS
  <1>4. PICK h1, b1 : h1 = S!Noted(h, Len(b), ulen) /\ b1 = b \o S!Record(u, ulen)
    OBVIOUS
  <1>5. PICK h2, b2 : h2 = S!Noted(h1, Len(b1), alen) /\ b2 = b1 \o S!Record(a, alen)
    OBVIOUS
  <1>6. Tells(h1, b1, Append(l, u)) /\ Complete(h1, b1) /\ Len(b1) = Len(b) + ulen
    BY <1>1, <1>2, <1>3, <1>4, TellsOneMore
  <1>7. Tells(h2, b2, Append(Append(l, u), a)) /\ Complete(h2, b2) /\ Len(b2) = Len(b1) + alen
    BY <1>2, <1>5, <1>6, TellsOneMore
  <1>8. new = [head |-> h2, body |-> b2]
    BY <1>3, <1>4, <1>5, <1>6 DEF S!WithTurn
  <1>9. new.head = h2 /\ new.body = b2
    BY <1>8
  <1>10. /\ b \in Seq(Cell) /\ b1 \in Seq(Cell) /\ b2 \in Seq(Cell)
         /\ Len(b) \in Nat /\ Len(b1) \in Nat /\ Len(b2) \in Nat
    BY <1>1, <1>3, <1>6, <1>7, LenProperties DEF Tells
  <1>11. \A i \in 1..Len(b) : b2[i] = b[i]
    <2>1. /\ S!Record(u, ulen) \in Seq(Cell) /\ S!Record(a, alen) \in Seq(Cell)
      BY <1>2, RecordIs
    <2>2. \A i \in 1..(Len(b) + Len(S!Record(u, ulen))) : i <= Len(b) => b1[i] = b[i]
      BY <1>4, <1>10, <2>1, ConcatProperties
    <2>3. \A i \in 1..(Len(b1) + Len(S!Record(a, alen))) : i <= Len(b1) => b2[i] = b1[i]
      BY <1>5, <1>10, <2>1, ConcatProperties
    <2>4. Len(S!Record(u, ulen)) = ulen /\ Len(S!Record(a, alen)) = alen
      BY <1>2, RecordIs
    <2> SUFFICES ASSUME NEW i \in 1..Len(b) PROVE b2[i] = b[i]
      OBVIOUS
    <2>5. i \in 1..(Len(b) + ulen) /\ i <= Len(b) /\ i \in 1..(Len(b1) + alen) /\ i <= Len(b1)
      BY <1>2, <1>6, <1>10
    <2> QED
      BY <2>2, <2>3, <2>4, <2>5
  <1>12. Len(b) <= Len(b2)
    BY <1>2, <1>6, <1>7, <1>10
  <1>13. Tells(h, b2, l)
    BY <1>1, <1>3, <1>10, <1>11, <1>12, TellsLonger
  <1> QED
    BY <1>1, <1>3, <1>7, <1>8, <1>9, <1>10, <1>12, <1>13 DEF TurnKept

\* The turn that is written: the file of its session, and what is said in it.
LEMMA TurnIs ==
    ASSUME ChatInv, turn # None, NEW ulen \in Lengths, NEW alen \in Lengths
    PROVE  LET v    == turn.req.sid
               new  == S!WithTurn(files[v], S!Said("user"), S!Said("assistant"), ulen, alen)
               old  == S!Opened(files[v])
               more == log[v] \o <<S!Said("user"), S!Said("assistant")>>
           IN  /\ v \in Sids /\ more \in Seq(Entry)
               /\ Tells(new.head, new.body, more) /\ Complete(new.head, new.body)
               /\ Tells(old.head, old.body, log[v]) /\ Tells(old.head, new.body, log[v])
               /\ Len(old.body) \in Nat /\ Len(old.body) <= Len(new.body)
               /\ new = [head |-> new.head, body |-> new.body]
               /\ \A i \in 1..Len(more) : more[i].era = turn.req.era \/
                     \E j \in 1..Len(log[v]) : more[i] = log[v][j]
  <1>0. PICK v, new, old, more :
           /\ v = turn.req.sid
           /\ new = S!WithTurn(files[v], S!Said("user"), S!Said("assistant"), ulen, alen)
           /\ old = S!Opened(files[v])
           /\ more = Append(Append(log[v], S!Said("user")), S!Said("assistant"))
    OBVIOUS
  <1>1. turn.req \in Ask /\ v \in Sids
    BY <1>0 DEF ChatInv, ChatType, Ask
  <1>2. PICK u, a : u = S!Said("user") /\ a = S!Said("assistant")
    OBVIOUS
  <1>3. u \in Entry /\ a \in Entry /\ u.era = turn.req.era /\ a.era = turn.req.era
    BY <1>1, <1>2 DEF S!Said, Entry, Ask
  <1>4. Ready(files[v], log[v]) /\ log[v] \in Seq(Entry)
    <2>1. files[v].head # Broken
          /\ (Kept(v) => Complete(files[v].head, files[v].body))
      BY <1>0 DEF ChatInv, FilesFilled
    <2>2. files[v].head = None => log[v] = <<>>
      BY <1>1 DEF ChatInv, FilesTell
    <2>3. Kept(v) => Tells(files[v].head, files[v].body, log[v])
      BY <1>1 DEF ChatInv, FilesTell
    <2>4. files[v] \in History /\ log[v] \in Seq(Entry)
      BY <1>1 DEF ChatInv, ChatType
    <2> QED
      BY <2>1, <2>2, <2>3, <2>4 DEF Ready, Kept
  <1>5. /\ Tells(new.head, new.body, Append(Append(log[v], u), a)) /\ Complete(new.head, new.body)
        /\ Tells(old.head, old.body, log[v]) /\ Tells(old.head, new.body, log[v])
        /\ Len(old.body) \in Nat /\ Len(old.body) <= Len(new.body)
        /\ new = [head |-> new.head, body |-> new.body]
    <2>1. TurnKept(S!WithTurn(files[v], u, a, ulen, alen), S!Opened(files[v]), log[v], u, a)
      BY <1>3, <1>4, TurnTells
    <2>2. TurnKept(new, old, log[v], u, a)
      BY <1>0, <1>2, <2>1
    <2> QED
      BY <2>2 DEF TurnKept
  <1>6. PICK l, one : l = log[v] /\ one = Append(l, u)
    OBVIOUS
  <1>7. /\ one \in Seq(Entry) /\ Len(one) = Len(l) + 1 /\ one[Len(l) + 1] = u
        /\ \A i \in 1..Len(l) : one[i] = l[i]
    BY <1>3, <1>4, <1>6, AppendProperties
  <1>8. /\ more \in Seq(Entry) /\ Len(more) = Len(one) + 1 /\ more[Len(one) + 1] = a
        /\ \A i \in 1..Len(one) : more[i] = one[i]
    BY <1>0, <1>2, <1>3, <1>6, <1>7, AppendProperties
  <1>9. Len(l) \in Nat /\ Len(one) \in Nat
    BY <1>4, <1>6, <1>7, LenProperties
  <1>10. l \o <<u, a>> = more
    <2>1. <<u, a>> \in Seq(Entry) /\ Len(<<u, a>>) = 2 /\ <<u, a>>[1] = u /\ <<u, a>>[2] = a
      BY <1>3
    <2>2. PICK w, two : w = l \o two /\ two = <<u, a>>
      OBVIOUS
    <2>3. /\ w \in Seq(Entry) /\ Len(w) = Len(l) + 2
          /\ \A i \in 1..(Len(l) + 2) : w[i] = IF i <= Len(l) THEN l[i] ELSE two[i - Len(l)]
      <3>1. two \in Seq(Entry) /\ Len(two) = 2 /\ l \in Seq(Entry)
        BY <1>4, <1>6, <2>1, <2>2
      <3> QED
        BY <2>2, <3>1, ConcatProperties
    <2>4. two[1] = u /\ two[2] = a
      BY <2>1, <2>2
    <2>5. Len(w) = Len(more) /\ Len(w) = Len(l) + 2
      BY <1>7, <1>8, <1>9, <2>3
    <2>6. ASSUME NEW i \in 1..Len(w) PROVE w[i] = more[i]
      <3>1. CASE i \in 1..Len(l)
        <4>1. w[i] = l[i]
          BY <1>9, <2>3, <2>5, <3>1
        <4>2. more[i] = l[i]
          BY <1>7, <1>8, <1>9, <3>1
        <4> QED
          BY <4>1, <4>2
      <3>2. CASE i = Len(l) + 1
        <4>1. w[i] = u
          BY <1>9, <2>3, <2>4, <2>5, <3>2
        <4>2. i \in 1..Len(one) /\ i = Len(one)
          BY <1>7, <1>9, <3>2
        <4>3. more[i] = u
          BY <1>7, <1>8, <3>2, <4>2
        <4> QED
          BY <4>1, <4>3
      <3>3. CASE i = Len(l) + 2
        <4>1. w[i] = a
          BY <1>9, <2>3, <2>4, <2>5, <3>3
        <4>2. more[i] = a
          BY <1>7, <1>8, <1>9, <3>3
        <4> QED
          BY <4>1, <4>2
      <3> QED
        <4>1. i \in 1..(Len(l) + 2)
          BY <2>5, <2>6
        <4>2. i \in 1..Len(l) \/ i = Len(l) + 1 \/ i = Len(l) + 2
          BY <1>9, <4>1
        <4> QED
          BY <3>1, <3>2, <3>3, <4>2
    <2> QED
      BY <1>8, <2>2, <2>3, <2>5, <2>6, SeqEqual
  <1>11. ASSUME NEW i \in 1..Len(more)
         PROVE  more[i].era = turn.req.era \/ \E j \in 1..Len(l) : more[i] = l[j]
    <2>1. CASE i \in 1..Len(l)
      <3>1. more[i] = l[i]
        BY <1>7, <1>8, <1>9, <2>1
      <3> QED
        BY <2>1, <3>1
    <2>2. CASE i = Len(l) + 1
      <3>1. more[i] = u
        BY <1>7, <1>8, <1>9, <2>2
      <3> QED
        BY <1>3, <3>1
    <2>3. CASE i = Len(l) + 2
      <3>1. more[i] = a
        BY <1>7, <1>8, <1>9, <2>3
      <3> QED
        BY <1>3, <3>1
    <2> QED
      BY <1>7, <1>8, <1>9, <1>11, <2>1, <2>2, <2>3
  <1> QED
    <2>1. log[v] \o <<S!Said("user"), S!Said("assistant")>> = more
      BY <1>2, <1>6, <1>10
    <2>2. Tells(new.head, new.body, more)
      BY <1>0, <1>2, <1>5
    <2>3. \A i \in 1..Len(more) : more[i].era = turn.req.era \/
             \E j \in 1..Len(log[v]) : more[i] = log[v][j]
      BY <1>6, <1>11
    <2>4. /\ v \in Sids /\ more \in Seq(Entry)
          /\ Tells(new.head, new.body, more) /\ Complete(new.head, new.body)
          /\ Tells(old.head, old.body, log[v]) /\ Tells(old.head, new.body, log[v])
          /\ Len(old.body) \in Nat /\ Len(old.body) <= Len(new.body)
          /\ new = [head |-> new.head, body |-> new.body]
      BY <1>1, <1>5, <1>8, <2>2
    <2>5. /\ v = turn.req.sid /\ old = S!Opened(files[v])
          /\ new = S!WithTurn(files[v], S!Said("user"), S!Said("assistant"), ulen, alen)
          /\ more = log[v] \o <<S!Said("user"), S!Said("assistant")>>
      BY <1>0, <2>1
    <2> QED
      BY <2>3, <2>4, <2>5

\* What a turn leaves of the versions.
LEMMA TurnFollows ==
    ASSUME ChatInv, turn # None, turn' = None, NEW v \in Sids, v = turn.req.sid,
           NEW more \in Seq(Entry),
           \A i \in 1..Len(more) : more[i].era = turn.req.era \/
                 \E j \in 1..Len(log[v]) : more[i] = log[v][j],
           log' = [log EXCEPT ![v] = more], line' \in {line, <<>>},
           UNCHANGED <<mapped, era, strayed>>
    PROVE  VersionsFollow'
  <1> SUFFICES ASSUME ~strayed PROVE VersionsFollow'
    BY DEF VersionsFollow
  <1>1. mapped # None /\ mapped # Broken
    BY DEF ChatInv, VersionsFollow
  <1>2. PICK d \in {0, 1} :
           /\ mapped = era + d
           /\ \A i \in 1..Len(line) : line[i].sid = line[i].era + d
           /\ \A w \in Sids : \A i \in 1..Len(log[w]) : log[w][i].era + d = w
           /\ turn.req.sid = turn.req.era + d
    BY <1>1 DEF ChatInv, VersionsFollow
  <1>3. \A i \in 1..Len(line') : line'[i].sid = line'[i].era + d
    <2>1. CASE line' = line
      BY <1>2, <2>1
    <2>2. CASE line' = <<>>
      BY <2>2
    <2> QED
      BY <2>1, <2>2
  <1>4. ASSUME NEW w \in Sids, NEW i \in 1..Len(log'[w]) PROVE log'[w][i].era + d = w
    <2>1. log \in [Sids -> Seq(Entry)]
      BY DEF ChatInv, ChatType
    <2>2. CASE w = v
      <3>1. log'[w] = more
        BY <2>1, <2>2
      <3>2. CASE more[i].era = turn.req.era
        BY <1>2, <2>2, <3>1, <3>2
      <3>3. CASE \E j \in 1..Len(log[v]) : more[i] = log[v][j]
        <4>1. PICK j \in 1..Len(log[v]) : more[i] = log[v][j]
          BY <3>3
        <4>2. log[v][j].era + d = v
          BY <1>2
        <4> QED
          BY <2>2, <3>1, <4>1, <4>2
      <3> QED
        BY <1>4, <3>1, <3>2, <3>3
    <2>3. CASE w # v
      <3>1. log'[w] = log[w]
        BY <2>1, <2>3
      <3> QED
        BY <1>2, <1>4, <3>1
    <2> QED
      BY <2>2, <2>3
  <1> QED
    BY <1>1, <1>2, <1>3, <1>4 DEF VersionsFollow

LEMMA ChatKeeps ==
    ASSUME ChatInv, NEW ulen \in Lengths, NEW alen \in Lengths, S!KeepTurn(ulen, alen)
    PROVE  ChatInv'
  <1>1. PICK v : v = turn.req.sid
    OBVIOUS
  <1>2. PICK new, more :
           /\ new = S!WithTurn(files[v], S!Said("user"), S!Said("assistant"), ulen, alen)
           /\ more = log[v] \o <<S!Said("user"), S!Said("assistant")>>
    OBVIOUS
  <1>3. /\ turn # None /\ turn' = None
        /\ files' = [files EXCEPT ![v] = new]
        /\ log' = [log EXCEPT ![v] = more]
        /\ UNCHANGED <<mapped, line, turns, sfaults, era, strayed>>
    BY <1>1, <1>2 DEF S!KeepTurn
  <1>4. /\ v \in Sids /\ more \in Seq(Entry)
        /\ Tells(new.head, new.body, more) /\ Complete(new.head, new.body)
        /\ new = [head |-> new.head, body |-> new.body]
        /\ \A i \in 1..Len(more) : more[i].era = turn.req.era \/
              \E j \in 1..Len(log[v]) : more[i] = log[v][j]
    BY <1>1, <1>2, <1>3, TurnIs
  <1>5. log' = [log EXCEPT ![v] = more]
    BY <1>3
  <1>6. new.head \in Ring /\ new.head \notin {None, Broken} /\ new.body \in Seq(Cell)
    BY <1>4, RingIsNoMark DEF Tells
  <1>7. new \in History
    BY <1>4, <1>6 DEF History
  <1>8. ChatType'
    BY <1>3, <1>4, <1>5, <1>7 DEF ChatInv, ChatType
  <1>9. ASSUME NEW w \in Sids
        PROVE  IF w = v THEN files'[w] = new /\ log'[w] = more
               ELSE files'[w] = files[w] /\ log'[w] = log[w]
    BY <1>3, <1>5 DEF ChatInv, ChatType
  <1>10. FilesTell'
    <2> SUFFICES ASSUME NEW w \in Sids
                 PROVE  /\ files'[w].head = None => log'[w] = <<>>
                        /\ files'[w].head \notin {None, Broken} =>
                              Tells(files'[w].head, files'[w].body, log'[w])
      BY DEF FilesTell, Kept
    <2>1. CASE w = v
      <3>1. files'[w] = new /\ log'[w] = more
        BY <1>9, <2>1
      <3> QED
        BY <1>4, <1>6, <3>1
    <2>2. CASE w # v
      <3>1. files'[w] = files[w] /\ log'[w] = log[w]
        BY <1>9, <2>2
      <3> QED
        BY <3>1 DEF ChatInv, FilesTell, Kept
    <2> QED
      BY <2>1, <2>2
  <1>11. FilesFilled'
    <2> SUFFICES ASSUME NEW w \in Sids, sfaults = 0
                 PROVE  /\ files'[w].head # Broken
                        /\ files'[w].head \notin {None, Broken} =>
                              Complete(files'[w].head, files'[w].body)
      BY <1>3 DEF FilesFilled, Kept
    <2>1. CASE w = v
      <3>1. files'[w] = new
        BY <1>9, <2>1
      <3> QED
        BY <1>4, <1>6, <3>1
    <2>2. CASE w # v
      <3>1. files'[w] = files[w]
        BY <1>9, <2>2
      <3>2. \A x \in Sids : files[x].head # Broken /\
                  (files[x].head \notin {None, Broken} => Complete(files[x].head, files[x].body))
        BY DEF ChatInv, FilesFilled, Kept
      <3> QED
        BY <3>1, <3>2
    <2> QED
      BY <2>1, <2>2
  <1>12. VersionsFollow'
    BY <1>1, <1>3, <1>4, <1>5, TurnFollows
  <1> QED
    BY <1>8, <1>10, <1>11, <1>12 DEF ChatInv

LEMMA ChatCutsTurn ==
    ASSUME ChatInv, NEW ulen \in Lengths, NEW alen \in Lengths, S!CutIntoTurn(ulen, alen)
    PROVE  ChatInv'
  <1>1. PICK v : v = turn.req.sid
    OBVIOUS
  <1>2. PICK new, old, more :
           /\ new = S!WithTurn(files[v], S!Said("user"), S!Said("assistant"), ulen, alen)
           /\ old = S!Opened(files[v])
           /\ more = log[v] \o <<S!Said("user"), S!Said("assistant")>>
    OBVIOUS
  <1>3. /\ v \in Sids /\ more \in Seq(Entry)
        /\ Tells(new.head, new.body, more)
        /\ Tells(old.head, old.body, log[v]) /\ Tells(old.head, new.body, log[v])
        /\ Len(old.body) \in Nat /\ Len(old.body) <= Len(new.body)
        /\ \A i \in 1..Len(more) : more[i].era = turn.req.era \/
              \E j \in 1..Len(log[v]) : more[i] = log[v][j]
    <2>1. turn # None
      BY DEF S!CutIntoTurn
    <2> QED
      BY <1>1, <1>2, <2>1, TurnIs
  <1>4. PICK n \in Len(old.body)..Len(new.body), head \in {old.head, new.head, Broken} :
           /\ files' = [files EXCEPT ![v] = [head |-> head, body |-> SubSeq(new.body, 1, n)]]
           /\ log' = [log EXCEPT ![v] = IF head = new.head THEN more ELSE @]
    BY <1>1, <1>2, <1>3, ZenonT(60) DEF S!CutIntoTurn
  <1>5. /\ turn # None /\ turn' = None /\ line' = <<>> /\ sfaults' = sfaults + 1
        /\ UNCHANGED <<mapped, turns, era, strayed>>
    BY DEF S!CutIntoTurn, S!Fault
  <1>6. PICK cut, told : cut = SubSeq(new.body, 1, n) /\ told = IF head = new.head THEN more ELSE log[v]
    OBVIOUS
  <1>7. /\ cut \in Seq(Cell) /\ told \in Seq(Entry) /\ head \in Ring \cup {Broken}
        /\ head # Broken => Tells(head, cut, told)
    <2>1. new.body \in Seq(Cell) /\ Len(new.body) \in Nat /\ n \in 0..Len(new.body)
      BY <1>3, LenProperties DEF Tells
    <2>2. Tells(new.head, cut, more) /\ Tells(old.head, cut, log[v])
      BY <1>3, <1>6, <2>1, TellsCut
    <2> QED
      BY <1>3, <1>6, <2>2 DEF Tells
  <1>8. [head |-> head, body |-> cut] \in History
    BY <1>7 DEF History
  <1>9. ASSUME NEW w \in Sids
        PROVE  IF w = v THEN files'[w].head = head /\ files'[w].body = cut /\ log'[w] = told
               ELSE files'[w] = files[w] /\ log'[w] = log[w]
    BY <1>4, <1>6 DEF ChatInv, ChatType
  <1>10. ChatType'
    <2>1. files' \in [Sids -> History]
      BY <1>3, <1>4, <1>6, <1>8 DEF ChatInv, ChatType
    <2>2. log' \in [Sids -> Seq(Entry)]
      BY <1>3, <1>4, <1>6, <1>7 DEF ChatInv, ChatType
    <2> QED
      BY <1>5, <2>1, <2>2 DEF ChatInv, ChatType
  <1>11. FilesTell'
    <2> SUFFICES ASSUME NEW w \in Sids
                 PROVE  /\ files'[w].head = None => log'[w] = <<>>
                        /\ files'[w].head \notin {None, Broken} =>
                              Tells(files'[w].head, files'[w].body, log'[w])
      BY DEF FilesTell, Kept
    <2>1. CASE w = v
      <3>1. files'[w].head = head /\ files'[w].body = cut /\ log'[w] = told
        BY <1>9, <2>1
      <3>2. head # None
        BY <1>7, RingIsNoMark, SessionAssumption
      <3> QED
        BY <1>7, <3>1, <3>2
    <2>2. CASE w # v
      <3>1. files'[w] = files[w] /\ log'[w] = log[w]
        BY <1>9, <2>2
      <3> QED
        BY <3>1 DEF ChatInv, FilesTell, Kept
    <2> QED
      BY <2>1, <2>2
  <1>12. FilesFilled'
    BY <1>5 DEF FilesFilled, ChatInv, ChatType
  <1>13. VersionsFollow'
    <2>1. CASE head = new.head
      <3>1. log' = [log EXCEPT ![v] = more]
        BY <1>4, <2>1
      <3> QED
        BY <1>1, <1>3, <1>5, <3>1, TurnFollows
    <2>2. CASE head # new.head
      <3>1. log' = [log EXCEPT ![v] = log[v]] /\ log[v] \in Seq(Entry)
        BY <1>3, <1>4, <2>2 DEF ChatInv, ChatType
      <3>2. \A i \in 1..Len(log[v]) : \E j \in 1..Len(log[v]) : log[v][i] = log[v][j]
        OBVIOUS
      <3> QED
        BY <1>1, <1>3, <1>5, <3>1, <3>2, TurnFollows
    <2> QED
      BY <2>1, <2>2
  <1> QED
    BY <1>10, <1>11, <1>12, <1>13 DEF ChatInv

LEMMA ChatRest ==
    ASSUME ChatInv, S!Drop \/ S!Cut \/ UNCHANGED S!vars PROVE ChatInv'
  <1> USE DEF ChatInv
  <1>1. CASE S!Drop
    <2>1. turn' = None /\ UNCHANGED <<mapped, files, line, turns, sfaults, era, log, strayed>>
      BY <1>1 DEF S!Drop
    <2> QED
      BY <2>1 DEF ChatType, FilesTell, FilesFilled, VersionsFollow, Kept
  <1>2. CASE S!Cut
    <2>1. turn' = None /\ line' = <<>> /\ sfaults' = sfaults + 1 /\ UNCHANGED <<turns, era, log>>
      BY <1>2 DEF S!Cut, S!Fault
    <2>2. /\ mapped' \in {mapped, Broken} /\ strayed' \in BOOLEAN /\ line' \in Seq(Ask)
          /\ strayed' \/ (mapped' = mapped /\ strayed' = strayed)
      <3>1. \/ UNCHANGED <<mapped, strayed>>
            \/ mapped' = Broken /\ strayed' = TRUE
        BY <1>2 DEF S!Cut
      <3>2. line' \in Seq(Ask)
        BY <2>1
      <3> QED
        BY <3>1, <3>2 DEF ChatType
    <2>3. FilesFilled'
      BY <2>1 DEF FilesFilled, ChatType
    <2>4. VersionsFollow'
      BY <2>1, <2>2 DEF VersionsFollow
    <2>5. CASE files' = files
      <3>1. ChatType'
        BY <2>1, <2>2, <2>5 DEF ChatType
      <3>2. FilesTell'
        BY <2>1, <2>5 DEF FilesTell, Kept
      <3> QED
        BY <2>3, <2>4, <3>1, <3>2
    <2>6. CASE files' # files
      <3>1. PICK v : /\ v = Head(line).sid /\ line # <<>>
                     /\ files' = [files EXCEPT ![v] = [head |-> Broken, body |-> <<>>]]
        BY <1>2, <2>6 DEF S!Cut
      <3>2. v \in Sids
        <4>1. line \in Seq(Ask) /\ line # <<>>
          BY <3>1 DEF ChatType
        <4>2. Head(line) \in Ask
          BY <4>1, HeadTailProperties
        <4> QED
          BY <3>1, <4>2 DEF Ask
      <3>3. files' \in [Sids -> History]
        BY <3>1, <3>2 DEF ChatType, History
      <3>4. ChatType'
        BY <2>1, <2>2, <3>3 DEF ChatType
      <3>5. \A w \in Sids : files'[w] = files[w] \/ files'[w].head = Broken
        BY <3>1, <3>2 DEF ChatType
      <3>6. FilesTell'
        <4> SUFFICES ASSUME NEW w \in Sids
                     PROVE  /\ files'[w].head = None => log'[w] = <<>>
                            /\ files'[w].head \notin {None, Broken} =>
                                  Tells(files'[w].head, files'[w].body, log'[w])
          BY DEF FilesTell, Kept
        <4>1. CASE files'[w] = files[w]
          BY <2>1, <4>1 DEF FilesTell, Kept
        <4>2. CASE files'[w].head = Broken
          BY <4>2, SessionAssumption
        <4> QED
          BY <3>5, <4>1, <4>2
      <3> QED
        BY <2>3, <2>4, <3>4, <3>6
    <2> QED
      BY <2>5, <2>6
  <1>3. CASE UNCHANGED S!vars
    BY <1>3 DEF S!vars, ChatType, FilesTell, FilesFilled, VersionsFollow, Kept
  <1> QED
    BY <1>1, <1>2, <1>3

LEMMA ChatSafe == ChatInv => S!LoadTellsTheTurns /\ S!RollStartsFresh
  <1> SUFFICES ASSUME ChatInv PROVE S!LoadTellsTheTurns /\ S!RollStartsFresh
    OBVIOUS
  <1>1. S!LoadTellsTheTurns
    <2> SUFFICES ASSUME NEW v \in Sids
                 PROVE  /\ S!Readable(files[v]) => S!Rendered(files[v]) = S!Newest(log[v], Slots)
                        /\ sfaults = 0 /\ log[v] # <<>> => S!Readable(files[v])
      BY SidsAre DEF S!LoadTellsTheTurns
    <2>1. S!Readable(files[v]) => S!Rendered(files[v]) = S!Newest(log[v], Slots)
      BY LoadTells DEF ChatInv
    <2>2. ASSUME sfaults = 0, log[v] # <<>> PROVE S!Readable(files[v])
      <3>1. files[v].head # None
        BY <2>2 DEF ChatInv, FilesTell
      <3>2. files[v].head # Broken /\ (Kept(v) => Complete(files[v].head, files[v].body))
        BY <2>2 DEF ChatInv, FilesFilled
      <3> QED
        BY <3>1, <3>2, LoadTells DEF ChatInv, Kept
    <2> QED
      BY <2>1, <2>2
  <1>2. S!RollStartsFresh
    <2> SUFFICES ASSUME turn # None, ~strayed, NEW i \in DOMAIN turn.shown
                 PROVE  turn.shown[i].era >= turn.req.era
      BY DEF S!RollStartsFresh
    <2>1. turn.shown \in Seq(Entry) /\ turn.req \in Ask /\ i \in 1..Len(turn.shown)
      BY DEF ChatInv, ChatType
    <2>2. turn.shown[i].era \in Nat /\ turn.req.era \in Nat
      <3>1. turn.shown[i] \in Entry
        BY <2>1, ElementOfSeq
      <3> QED
        BY <2>1, <3>1 DEF Entry, Ask
    <2>3. PICK d \in {0, 1} :
             /\ turn.req.sid = turn.req.era + d
             /\ \A k \in 1..Len(turn.shown) : turn.shown[k].era + d = turn.req.sid
      BY DEF ChatInv, VersionsFollow
    <2>4. turn.shown[i].era + d = turn.req.era + d
      BY <2>1, <2>3
    <2> QED
      BY <2>2, <2>4
  <1> QED
    BY <1>1, <1>2

\* A session file that reads well tells the newest turns of its session, in order, once each,
\* wherever the ring stands and whatever a power cut left of a turn; and what was said before
\* a roll is not shown to a message sent after it.
THEOREM TurnsAreTold == S!Spec => [](S!LoadTellsTheTurns /\ S!RollStartsFresh)
  <1>1. S!Init => ChatInv
    BY ChatInit
  <1>2. ChatInv /\ [S!Next]_(S!vars) => ChatInv'
    <2> SUFFICES ASSUME ChatInv, [S!Next]_(S!vars) PROVE ChatInv'
      OBVIOUS
    <2> QED
      BY ChatMessage, ChatRoll, ChatLoad, ChatKeeps, ChatCutsTurn, ChatRest DEF S!Next
  <1>3. ChatInv => S!LoadTellsTheTurns /\ S!RollStartsFresh
    BY ChatSafe
  <1> QED
    BY <1>1, <1>2, <1>3, PTL DEF S!Spec

LEMMA ChatRuns == StoresSafe => S!Spec
  <1>1. StoresInit => S!Init
    BY DEF StoresInit
  <1>2. [StoresNext]_storesVars => [S!Next]_(S!vars)
    BY DEF StoresNext, Is, storesVars, sessionVars, S!vars
  <1> QED
    BY <1>1, <1>2, PTL DEF StoresSafe, S!Spec

-----------------------------------------------------------------------------
(* The specification of the run.                                              *)

\* Of the rules: the file is what the answered edits make of it, and a loop over the rules
\* ends over the table it began with.
THEOREM RulesAreHeld == StoresSpec => []RulesHold
  <1>1. R!EditsKept /\ R!OneTableRuns => RulesHold
    BY DEF RulesHold
  <1> QED
    BY <1>1, RulesAreKept, RulesRun, PTL DEF StoresSpec

\* Of the conversations: a file that reads well tells the newest turns, and nothing said
\* before a roll is shown to a message sent after it.
THEOREM HistoryIsTold == StoresSpec => []HistoryHolds
  <1>1. S!LoadTellsTheTurns /\ S!RollStartsFresh => HistoryHolds
    BY DEF HistoryHolds
  <1> QED
    BY <1>1, TurnsAreTold, ChatRuns, PTL DEF StoresSpec
=============================================================================
