--------------------------- MODULE ClawCoreProofs ---------------------------
(***************************************************************************)
(* Proofs about ClawCore for every number of requests and clients, every   *)
(* queue length and every iteration limit.  Each safety property follows   *)
(* from an inductive invariant that adds to it what the worker's place in  *)
(* claw_core_task says about its locals and about the in-flight slot.      *)
(***************************************************************************)
EXTENDS ClawCore, FiniteSetTheorems, SequenceTheorems, TLAPS

LEMMA RemoveAtType ==
    ASSUME NEW S, NEW s \in Seq(S), NEW i \in DOMAIN s
    PROVE  RemoveAt(s, i) \in Seq(S)
  BY DEF RemoveAt

\* The place of the worker determines whether it owns a request, and the loop
\* is never entered again at the iteration limit.
InLoop == pc \in {"begin", "start", "context", "llm", "tools"}

TypeInv ==
    /\ TypeOK
    /\ pc = "idle" <=> cur = 0
    /\ InLoop => iteration < MaxToolIterations

LEMMA TypeInit == Init => TypeInv
  <1> SUFFICES ASSUME Init PROVE TypeInv
    OBVIOUS
  <1> USE ConstantsOK DEF Init
  <1>1. reply \in Reply
    BY DEF FreshReply, Reply, Texts, Errors
  <1>2. client \in [Clients -> [pc : ClientPcs, want : Requests \cup {0}]]
    BY DEF ClientPcs
  <1>3. sessionLog \in [Requests -> Seq({"turn", "failure"})]
    OBVIOUS
  <1>4. iteration \in 0 .. MaxToolIterations /\ iteration < MaxToolIterations
    OBVIOUS
  <1>5. /\ requestQ \in Seq(Requests) /\ Len(requestQ) <= RequestQueueLen
        /\ responseQ \in Seq(Response) /\ Len(responseQ) <= ResponseQueueLen
        /\ pending \in Seq(Response)
        /\ submitted \in Seq(Requests) /\ finished \in Seq(Response)
    BY EmptySeq
  <1>6. delivered \in [Requests -> Nat]
    OBVIOUS
  <1>7. TypeOK
    BY <1>1, <1>2, <1>3, <1>4, <1>5, <1>6 DEF TypeOK, WorkerPcs
  <1> QED BY <1>4, <1>7 DEF TypeInv, InLoop

LEMMA RememberType ==
    ASSUME TypeInv, NEW what \in {"turn", "failure"}, Remember(what)
    PROVE  sessionLog' \in [Requests -> Seq({"turn", "failure"})]
  <1>1. \A r \in Requests : sessionLog[r] \in Seq({"turn", "failure"})
    BY DEF TypeInv, TypeOK
  <1>2. \A r \in Requests : Append(sessionLog[r], what) \in Seq({"turn", "failure"})
    BY <1>1
  <1> QED BY <1>1, <1>2 DEF TypeInv, TypeOK, Remember

LEMMA DeliverType ==
    ASSUME TypeInv, NEW c \in Clients, NEW resp \in Response, Deliver(c, resp)
    PROVE  /\ delivered' \in [Requests -> Nat]
           /\ client' \in [Clients -> [pc : ClientPcs, want : Requests \cup {0}]]
  <1>1. resp.id \in Requests
    BY DEF Response
  <1>2. delivered[resp.id] + 1 \in Nat
    BY <1>1 DEF TypeInv, TypeOK
  <1>3. [pc |-> "idle", want |-> 0] \in [pc : ClientPcs, want : Requests \cup {0}]
    BY DEF ClientPcs
  <1> QED BY <1>2, <1>3 DEF Deliver, TypeInv, TypeOK

LEMMA TypeStep == TypeInv /\ [Next]_vars => TypeInv'
  <1> SUFFICES ASSUME TypeInv, [Next]_vars PROVE TypeInv'
    OBVIOUS
  <1> USE ConstantsOK DEF TypeInv, TypeOK, InLoop
  <1>1. ASSUME NEW c \in Clients, NEW r \in Requests, Submit(c, r) PROVE TypeInv'
    <2>1. /\ requestQ' \in Seq(Requests) /\ Len(requestQ') <= RequestQueueLen
          /\ submitted' \in Seq(Requests)
      BY <1>1 DEF Submit, Enqueue
    <2>2. client' \in [Clients -> [pc : ClientPcs, want : Requests \cup {0}]]
      BY <1>1 DEF Submit, ClientPcs
    <2> QED BY <1>1, <2>1, <2>2 DEF Submit, flightVars
  <1>2. ASSUME NEW c \in Clients, NEW want \in Requests \cup {0}, ReceiveBegin(c, want)
        PROVE TypeInv'
    <2>1. CASE \E i \in DOMAIN pending : /\ FirstMatch(want, i)
                                         /\ pending' = Unlink(i)
                                         /\ Deliver(c, pending[i])
                                         /\ UNCHANGED lockOwner
      <3>1. PICK i \in DOMAIN pending : pending' = Unlink(i) /\ Deliver(c, pending[i])
                                        /\ UNCHANGED lockOwner
        BY <2>1
      <3>2. pending' \in Seq(Response)
        BY <3>1, RemoveAtType DEF Unlink
      <3>3. pending[i] \in Response
        OBVIOUS
      <3>4. /\ delivered' \in [Requests -> Nat]
            /\ client' \in [Clients -> [pc : ClientPcs, want : Requests \cup {0}]]
        BY <3>1, <3>3, DeliverType
      <3> QED BY <1>2, <3>1, <3>2, <3>4 DEF ReceiveBegin, coreVars,
                 flightVars, logVars
    <2>2. CASE /\ lockOwner' = c
               /\ client' = [client EXCEPT ![c] = [pc |-> "wait", want |-> want]]
               /\ UNCHANGED <<pending, delivered>>
      BY <1>2, <2>2 DEF ReceiveBegin, ClientPcs, coreVars, flightVars, logVars
    <2> QED BY <1>2, <2>1, <2>2 DEF ReceiveBegin
  <1>3. ASSUME NEW c \in Clients, ReceiveItem(c) PROVE TypeInv'
    <2>1. Head(responseQ) \in Response /\ Tail(responseQ) \in Seq(Response)
          /\ Len(Tail(responseQ)) <= ResponseQueueLen
      BY <1>3 DEF ReceiveItem
    <2>2. CASE Deliver(c, Head(responseQ)) /\ UNCHANGED <<pending, lost>> /\ Unlock
      <3>1. /\ delivered' \in [Requests -> Nat]
            /\ client' \in [Clients -> [pc : ClientPcs, want : Requests \cup {0}]]
        BY <2>1, <2>2, DeliverType
      <3> QED BY <1>3, <2>1, <2>2, <3>1 DEF ReceiveItem, Unlock, coreVars, flightVars, logVars
    <2>3. CASE /\ UNCHANGED <<lockOwner, client, delivered>>
               /\ \/ pending' = Append(pending, Head(responseQ)) /\ UNCHANGED lost
                  \/ lost' = lost \cup {Head(responseQ).id} /\ UNCHANGED pending
      <3>1. Append(pending, Head(responseQ)) \in Seq(Response)
        BY <2>1
      <3>2. Head(responseQ).id \in Requests
        BY <2>1 DEF Response
      <3> QED BY <1>3, <2>1, <2>3, <3>1, <3>2 DEF ReceiveItem, coreVars, flightVars, logVars
    <2> QED BY <1>3, <2>2, <2>3 DEF ReceiveItem
  <1>4. ASSUME NEW c \in Clients, ReceiveTimeout(c) PROVE TypeInv'
    BY <1>4 DEF ReceiveTimeout, Unlock, ClientPcs, coreVars, flightVars, logVars
  <1>5. ASSUME NEW q \in Requests \cup {0}, Cancel(q) PROVE TypeInv'
    BY <1>5 DEF Cancel, Addressed, coreVars, replyVars, logVars
  <1>6. CASE Dequeue
    <2>1. Head(requestQ) \in Requests /\ Tail(requestQ) \in Seq(Requests)
          /\ Len(Tail(requestQ)) <= RequestQueueLen
      BY <1>6 DEF Dequeue
    <2>2. FreshReply \in Reply
      BY DEF FreshReply, Reply, Texts, Errors
    <2>3. cur' \in Requests /\ pc' = "begin" /\ iteration' = 0 /\ err' = "ok"
      BY <1>6, <2>1 DEF Dequeue, Goto
    <2>4. requestQ' \in Seq(Requests) /\ Len(requestQ') <= RequestQueueLen /\ reply' \in Reply
      BY <1>6, <2>1, <2>2 DEF Dequeue
    <2>5. /\ UNCHANGED <<inflight, inflightAbort, armed, cancelAsked>>
          /\ UNCHANGED <<responseQ, pending, lockOwner, client, delivered, lost>>
          /\ UNCHANGED <<submitted, finished, sessionLog, observed, outMessages>>
      BY <1>6 DEF Dequeue, flightVars, replyVars, logVars
    <2>6. cur' # 0 /\ pc' \in WorkerPcs /\ iteration' \in 0 .. MaxToolIterations
      BY <2>3 DEF WorkerPcs
    <2>7. TypeOK'
      BY <2>3, <2>4, <2>5, <2>6
    <2> HIDE DEF TypeOK
    <2> QED BY <2>3, <2>6, <2>7
  <1>7. CASE BeginFlight
    BY <1>7 DEF BeginFlight, Goto, WorkerPcs, replyVars, logVars
  <1>8. CASE StartRequest
    BY <1>8 DEF StartRequest, Goto, WorkerPcs, Reply, Errors, replyVars, logVars
  <1>9. CASE BuildContext
    BY <1>9 DEF BuildContext, Fail, Goto, WorkerPcs, Reply, Errors, flightVars,
       replyVars, logVars
  <1>10. CASE LlmReturn
    BY <1>10 DEF LlmReturn, TransportError, Fail, Goto, WorkerPcs, Reply, Errors,
       flightVars, replyVars, logVars
  <1>11. CASE RunTools
    <2>1. /\ iteration' \in 0 .. MaxToolIterations
          /\ pc' = "context" => iteration' < MaxToolIterations
          /\ pc' \in {"context", "disarm"}
      BY <1>11 DEF RunTools, NextIteration, LimitReached, Fail, Goto
    <2>2. reply' \in Reply /\ err' \in {"ok", "fail"}
      BY <1>11 DEF RunTools, Fail, Goto, Reply, Errors
    <2> QED BY <1>11, <2>1, <2>2 DEF RunTools, WorkerPcs, flightVars, replyVars, logVars
  <1>12. CASE Complete
    <2>1. reply' \in Reply
      BY <1>12 DEF Complete, Reply, Errors
    <2>2. sessionLog' \in [Requests -> Seq({"turn", "failure"})]
      BY <1>12, RememberType DEF Complete
    <2> QED BY <1>12, <2>1, <2>2 DEF Complete, Goto, WorkerPcs, flightVars, replyVars
  <1>13. CASE Disarm
    BY <1>13 DEF Disarm, Goto, WorkerPcs, replyVars, logVars
  <1>14. CASE ClearFlight
    <2>1. reply' \in Reply
      BY <1>14 DEF ClearFlight, Reply, Errors
    <2>2. finished' \in Seq(Response)
      BY <1>14, <2>1 DEF ClearFlight, Response
    <2> QED BY <1>14, <2>1, <2>2 DEF ClearFlight, Goto, WorkerPcs, replyVars
  <1>15. CASE FailureTrace
    <2>1. sessionLog' \in [Requests -> Seq({"turn", "failure"})]
      BY <1>15, RememberType DEF FailureTrace
    <2> QED BY <1>15, <2>1 DEF FailureTrace, Goto, WorkerPcs, flightVars, replyVars
  <1>16. CASE PublishReply
    BY <1>16 DEF PublishReply, Goto, WorkerPcs, flightVars, replyVars
  <1>17. CASE PushResponse
    <2>1. [id |-> cur, reply |-> reply] \in Response
      BY <1>17 DEF PushResponse, Response
    <2>2. /\ Append(responseQ, [id |-> cur, reply |-> reply]) \in Seq(Response)
          /\ Len(Append(responseQ, [id |-> cur, reply |-> reply])) = Len(responseQ) + 1
      BY <2>1, AppendProperties
    <2>3. responseQ' \in Seq(Response) /\ Len(responseQ') <= ResponseQueueLen
      <3>1. CASE cur \in SkipQueue
        BY <1>17, <3>1 DEF PushResponse
      <3>2. CASE cur \notin SkipQueue
        <4> DEFINE longer == Append(responseQ, [id |-> cur, reply |-> reply])
        <4>1. responseQ' = longer /\ Len(responseQ) < ResponseQueueLen
          BY <1>17, <3>2 DEF PushResponse
        <4>2. longer \in Seq(Response) /\ Len(longer) = Len(responseQ) + 1
          BY <2>2
        <4> HIDE DEF longer
        <4> QED BY <4>1, <4>2
      <3> QED BY <3>1, <3>2
    <2> QED BY <1>17, <2>3 DEF PushResponse, Goto, WorkerPcs, flightVars, logVars
  <1>18. CASE UNCHANGED vars
    BY <1>18 DEF vars, coreVars, flightVars, replyVars, logVars
  <1> QED BY <1>1, <1>2, <1>3, <1>4, <1>5, <1>6, <1>7, <1>8, <1>9, <1>10, <1>11, <1>12,
             <1>13, <1>14, <1>15, <1>16, <1>17, <1>18 DEF Next, Worker, ClientStep

\* Type correctness of the whole core, the queue bounds and the iteration bound
\* of claw_core_task included.
THEOREM TypeCorrect == Spec => []TypeOK
  <1>1. TypeInv => TypeOK
    BY DEF TypeInv
  <1> QED BY <1>1, TypeInit, TypeStep, PTL DEF Spec
-----------------------------------------------------------------------------
(* Receivers: whoever sleeps on the queue holds response_lock, so the pending *)
(* list only changes by its own hand while it sleeps.                        *)

LockInv ==
    \A c \in Clients : client[c].pc = "wait" =>
        /\ lockOwner = c
        /\ \A i \in DOMAIN pending : ~Matches(client[c].want, pending[i])

LEMMA OthersKeepReceivers ==
    ASSUME Worker \/ (\E q \in Requests \cup {0} : Cancel(q))
    PROVE  UNCHANGED <<client, lockOwner, pending>>
  BY DEF Worker, Dequeue, BeginFlight, StartRequest, BuildContext, LlmReturn, RunTools,
     Complete, Disarm, ClearFlight, FailureTrace, PublishReply, PushResponse, Cancel,
     replyVars

LEMMA LockStep == TypeInv /\ LockInv /\ [Next]_vars => LockInv'
  <1> SUFFICES ASSUME TypeInv, LockInv, [Next]_vars PROVE LockInv'
    OBVIOUS
  <1> USE DEF LockInv
  <1>1. /\ client \in [Clients -> [pc : ClientPcs, want : Requests \cup {0}]]
        /\ pending \in Seq(Response) /\ responseQ \in Seq(Response)
        /\ NoClient \notin Clients
    BY ConstantsOK DEF TypeInv, TypeOK
  <1>2. CASE UNCHANGED <<client, lockOwner, pending>>
    BY <1>2 DEF Matches
  <1>3. ASSUME NEW c \in Clients, NEW r \in Requests, Submit(c, r) PROVE LockInv'
    BY <1>1, <1>3 DEF Submit, Matches
  <1>4. ASSUME NEW c \in Clients, NEW want \in Requests \cup {0}, ReceiveBegin(c, want)
        PROVE LockInv'
    <2>1. \A d \in Clients : client[d].pc # "wait"
      BY <1>1, <1>4 DEF ReceiveBegin, CanLock
    <2>2. \A d \in Clients : d # c => client'[d] = client[d]
      BY <1>1, <1>4 DEF ReceiveBegin, Deliver
    <2>3. CASE client' = [client EXCEPT ![c] = [pc |-> "idle", want |-> 0]]
      BY <1>1, <2>1, <2>2, <2>3
    <2>4. CASE /\ \A i \in DOMAIN pending : ~Matches(want, pending[i])
               /\ lockOwner' = c
               /\ client' = [client EXCEPT ![c] = [pc |-> "wait", want |-> want]]
               /\ UNCHANGED <<pending, delivered>>
      BY <1>1, <2>1, <2>2, <2>4 DEF Matches
    <2> QED BY <1>4, <2>3, <2>4 DEF ReceiveBegin, Deliver
  <1>5. ASSUME NEW c \in Clients, ReceiveItem(c) PROVE LockInv'
    <2>1. \A d \in Clients : client[d].pc = "wait" => d = c
      BY <1>5 DEF ReceiveItem
    <2>2. CASE client' = [client EXCEPT ![c] = [pc |-> "idle", want |-> 0]]
      BY <1>1, <2>1, <2>2
    <2>3. CASE /\ ~Matches(client[c].want, Head(responseQ))
               /\ UNCHANGED <<lockOwner, client>>
               /\ \/ pending' = Append(pending, Head(responseQ))
                  \/ UNCHANGED pending
      <3>1. \A i \in DOMAIN pending' : ~Matches(client[c].want, pending'[i])
        <4>1. CASE pending' = Append(pending, Head(responseQ))
          <5>1. Head(responseQ) \in Response
            BY <1>1, <1>5 DEF ReceiveItem
          <5>2. /\ DOMAIN pending' = 1 .. Len(pending) + 1
                /\ \A i \in 1 .. Len(pending) : pending'[i] = pending[i]
                /\ pending'[Len(pending) + 1] = Head(responseQ)
            BY <1>1, <4>1, <5>1
          <5>3. \A i \in DOMAIN pending' : i \in DOMAIN pending \/ i = Len(pending) + 1
            BY <1>1, <5>2
          <5> QED BY <1>1, <1>5, <2>3, <5>2, <5>3 DEF ReceiveItem
        <4>2. CASE UNCHANGED pending
          BY <1>5, <4>2 DEF ReceiveItem
        <4> QED BY <2>3, <4>1, <4>2
      <3> QED BY <2>1, <2>3, <3>1 DEF Matches
    <2> QED BY <1>5, <2>2, <2>3 DEF ReceiveItem, Deliver
  <1>6. ASSUME NEW c \in Clients, ReceiveTimeout(c) PROVE LockInv'
    BY <1>1, <1>6 DEF ReceiveTimeout, Matches
  <1>7. UNCHANGED vars => UNCHANGED <<client, lockOwner, pending>>
    BY DEF vars, replyVars
  <1> QED BY <1>2, <1>3, <1>4, <1>5, <1>6, <1>7, OthersKeepReceivers DEF Next, ClientStep

\* claw_core_receive_for never sleeps while its response is parked in the
\* pending list, for any number of receivers, timeouts and parked responses.
THEOREM NoReceiverMissesItsResponse == Spec => []WaiterMissesNothing
  <1>1. Init => LockInv
    BY DEF Init, LockInv
  <1>2. LockInv => WaiterMissesNothing
    BY DEF LockInv, WaiterMissesNothing
  <1> QED BY <1>1, <1>2, TypeInit, TypeStep, LockStep, PTL DEF Spec
-----------------------------------------------------------------------------
(* Cancellation: the in-flight slot holds the worker's own request exactly   *)
(* between the two critical sections of inflight_lock, and the abort flag is *)
(* up only for a request that a cancel addressed.                            *)

Flying == pc \in {"start", "context", "llm", "tools", "complete", "disarm", "clear"}

SlotInv ==
    /\ inflight = IF Flying THEN cur ELSE 0
    /\ inflightAbort => Flying /\ inflight \in cancelAsked

\* What the worker's locals hold on the way to the second critical section.
ReplyInv ==
    /\ Flying \/ pc = "begin" => reply.error # "cancelled"
    /\ pc \in {"disarm", "clear"} =>
         \/ reply.status = "ok"
         \/ reply.error = "no_memory"
         \/ err = "fail" /\ reply.error # "none"

FlightInv == SlotInv /\ ReplyInv /\ CancelHitsOnlyItsTarget /\ CancelIsReported

\* Steps outside the slot and the locals: the receivers' and the ones after it.
LEMMA FlightFrame ==
    ASSUME FlightInv, UNCHANGED <<inflight, inflightAbort, cancelAsked, finished, pc, cur,
                                  err, reply>>
    PROVE  FlightInv'
  BY DEF FlightInv, SlotInv, ReplyInv, Flying, CancelHitsOnlyItsTarget, CancelIsReported

\* Steps of the worker that leave the slot and the history alone.
LEMMA LocalStep ==
    ASSUME FlightInv, UNCHANGED <<inflight, inflightAbort, cancelAsked, finished>>,
           SlotInv', ReplyInv'
    PROVE  FlightInv'
  BY DEF FlightInv, CancelHitsOnlyItsTarget, CancelIsReported

LEMMA FlightStep == TypeInv /\ FlightInv /\ [Next]_vars => FlightInv'
  <1> SUFFICES ASSUME TypeInv, FlightInv, [Next]_vars PROVE FlightInv'
    OBVIOUS
  <1>1. /\ finished \in Seq(Response) /\ reply \in Reply /\ cancelAsked \subseteq Requests
        /\ inflightAbort \in BOOLEAN /\ err \in {"ok", "fail"}
        /\ pc = "idle" <=> cur = 0
        /\ 0 \notin Requests
    BY ConstantsOK DEF TypeInv, TypeOK
  <1>2. SlotInv /\ ReplyInv
    BY DEF FlightInv
  <1>3. ASSUME NEW c \in Clients, ClientStep(c) PROVE FlightInv'
    BY <1>3, FlightFrame DEF ClientStep, Submit, ReceiveBegin, ReceiveItem, ReceiveTimeout,
       coreVars, flightVars, logVars
  <1>4. ASSUME NEW q \in Requests \cup {0}, Cancel(q) PROVE FlightInv'
    <2>1. /\ inflight # 0 /\ inflightAbort' /\ cancelAsked' = cancelAsked \cup {inflight}
          /\ UNCHANGED <<inflight, pc, cur, err, reply, finished>>
      BY <1>4 DEF Cancel, Addressed, coreVars, logVars
    <2>2. SlotInv' /\ ReplyInv'
      BY <1>2, <2>1 DEF SlotInv, ReplyInv, Flying
    <2>3. CancelHitsOnlyItsTarget'
      BY <2>1 DEF FlightInv, CancelHitsOnlyItsTarget
    <2>4. CancelIsReported'
      BY <2>1 DEF FlightInv, CancelIsReported
    <2> QED BY <2>2, <2>3, <2>4 DEF FlightInv
  <1>5. CASE Dequeue
    <2>1. /\ UNCHANGED <<inflight, inflightAbort, cancelAsked, finished>>
          /\ pc = "idle" /\ pc' = "begin" /\ reply' = FreshReply
      BY <1>5 DEF Dequeue, Goto, flightVars, logVars
    <2>2. SlotInv' /\ ReplyInv'
      BY <1>1, <1>2, <2>1 DEF SlotInv, ReplyInv, Flying, FreshReply
    <2> QED BY <2>1, <2>2, LocalStep
  <1>6. CASE BeginFlight
    <2>1. /\ pc = "begin" /\ pc' = "start" /\ inflight' = cur /\ ~inflightAbort'
          /\ UNCHANGED <<cancelAsked, finished, cur, err, reply>>
      BY <1>6 DEF BeginFlight, Goto, logVars
    <2>2. ~inflightAbort
      BY <1>2, <2>1 DEF SlotInv, Flying
    <2>3. SlotInv' /\ ReplyInv'
      BY <1>2, <2>1 DEF SlotInv, ReplyInv, Flying
    <2>4. CancelHitsOnlyItsTarget' /\ CancelIsReported'
      BY <2>1, <2>2 DEF FlightInv, CancelHitsOnlyItsTarget, CancelIsReported
    <2> QED BY <2>3, <2>4 DEF FlightInv
  <1>7. CASE StartRequest \/ BuildContext \/ LlmReturn \/ RunTools \/ Complete
    <2>1. /\ UNCHANGED <<inflight, inflightAbort, cancelAsked, finished, cur>>
          /\ pc \in {"start", "context", "llm", "tools", "complete"}
          /\ pc' \in {"context", "llm", "tools", "complete", "disarm"}
      BY <1>7 DEF StartRequest, BuildContext, LlmReturn, RunTools, Complete, Fail, Goto,
         flightVars, logVars
    <2>2. SlotInv'
      BY <1>2, <2>1 DEF SlotInv, Flying
    <2>3. reply.error # "cancelled"
      BY <1>2, <2>1 DEF ReplyInv, Flying
    <2>4. ReplyInv'
      <3>1. CASE StartRequest
        BY <1>1, <2>3, <3>1 DEF StartRequest, Goto, ReplyInv, Flying, Reply
      <3>2. CASE BuildContext
        BY <1>1, <2>3, <3>2 DEF BuildContext, Fail, Goto, ReplyInv, Flying, Reply
      <3>3. CASE LlmReturn
        BY <1>1, <2>3, <3>3 DEF LlmReturn, TransportError, Fail, Goto, ReplyInv, Flying,
           Reply
      <3>4. CASE RunTools
        BY <1>1, <2>3, <3>4 DEF RunTools, Fail, Goto, ReplyInv, Flying, Reply
      <3>5. CASE Complete
        BY <1>1, <2>3, <3>5 DEF Complete, Goto, ReplyInv, Flying, Reply
      <3> QED BY <1>7, <3>1, <3>2, <3>3, <3>4, <3>5
    <2> QED BY <2>1, <2>2, <2>4, LocalStep
  <1>8. CASE Disarm
    <2>1. /\ UNCHANGED <<inflight, inflightAbort, cancelAsked, finished, cur, err, reply>>
          /\ pc = "disarm" /\ pc' = "clear"
      BY <1>8 DEF Disarm, Goto, logVars
    <2>2. SlotInv' /\ ReplyInv'
      BY <1>2, <2>1 DEF SlotInv, ReplyInv, Flying
    <2> QED BY <2>1, <2>2, LocalStep
  <1>9. CASE ClearFlight
    <2> DEFINE resp == [id |-> cur, reply |-> reply']
    <2>1. /\ pc = "clear" /\ pc' = "trace" /\ inflight' = 0 /\ ~inflightAbort'
          /\ finished' = Append(finished, resp)
          /\ UNCHANGED <<cancelAsked, cur, err>>
      BY <1>9 DEF ClearFlight, Goto
    <2>2. reply' = IF WasCancelled THEN [reply EXCEPT !.error = "cancelled"] ELSE reply
      BY <1>9 DEF ClearFlight
    <2>3. SlotInv' /\ ReplyInv'
      BY <2>1 DEF SlotInv, ReplyInv, Flying
    <2>4. inflight = cur /\ reply.error # "cancelled" /\ (inflightAbort => cur \in cancelAsked)
      BY <1>2, <2>1 DEF SlotInv, ReplyInv, Flying
    <2>5. /\ DOMAIN finished' = 1 .. Len(finished) + 1
          /\ DOMAIN finished = 1 .. Len(finished)
          /\ \A i \in DOMAIN finished : finished'[i] = finished[i]
          /\ finished'[Len(finished) + 1] = resp
          /\ Len(finished) \in Nat
      <3> HIDE DEF resp
      <3>1. \A e : finished \in Seq(Response \cup {e})
        BY <1>1
      <3> QED BY <2>1, <3>1
    <2>6. reply'.error = "cancelled" => cur \in cancelAsked
      BY <2>2, <2>4 DEF WasCancelled
    <2>7. CancelHitsOnlyItsTarget'
      <3> SUFFICES ASSUME NEW i \in DOMAIN finished', finished'[i].reply.error = "cancelled"
                   PROVE  finished'[i].id \in cancelAsked
        BY <2>1 DEF CancelHitsOnlyItsTarget
      <3>1. CASE i \in DOMAIN finished
        BY <2>5, <3>1 DEF FlightInv, CancelHitsOnlyItsTarget
      <3>2. CASE i = Len(finished) + 1
        BY <2>5, <2>6, <3>2
      <3> QED BY <2>5, <3>1, <3>2
    <2>8. CancelIsReported'
      <3> SUFFICES ASSUME NEW r \in cancelAsked
                   PROVE  \E i \in DOMAIN finished' :
                            /\ finished'[i].id = r
                            /\ \/ finished'[i].reply.status = "ok"
                               \/ finished'[i].reply.error \in {"cancelled", "no_memory"}
        BY <2>1 DEF CancelIsReported
      <3>1. CASE inflight = r /\ inflightAbort
        <4>1. reply'.status = "ok" \/ reply'.error \in {"cancelled", "no_memory"}
          BY <1>1, <1>2, <2>1, <2>2, <3>1 DEF ReplyInv, WasCancelled, Reply
        <4>2. /\ Len(finished) + 1 \in DOMAIN finished'
              /\ finished'[Len(finished) + 1].id = r
              /\ finished'[Len(finished) + 1].reply = reply'
          BY <2>4, <2>5, <3>1
        <4> QED BY <4>1, <4>2
      <3>2. CASE ~(inflight = r /\ inflightAbort)
        <4>1. PICK i \in DOMAIN finished :
                /\ finished[i].id = r
                /\ \/ finished[i].reply.status = "ok"
                   \/ finished[i].reply.error \in {"cancelled", "no_memory"}
          BY <3>2 DEF FlightInv, CancelIsReported
        <4> QED BY <2>5, <4>1
      <3> QED BY <3>1, <3>2
    <2> QED BY <2>3, <2>7, <2>8 DEF FlightInv
  <1>10. CASE FailureTrace \/ PublishReply \/ PushResponse
    <2>1. /\ UNCHANGED <<inflight, inflightAbort, cancelAsked, finished, err, reply>>
          /\ pc \in {"trace", "publish", "push"} /\ pc' \in {"publish", "push", "idle"}
      BY <1>10 DEF FailureTrace, PublishReply, PushResponse, Goto, flightVars, logVars
    <2>2. SlotInv' /\ ReplyInv'
      BY <1>2, <2>1 DEF SlotInv, ReplyInv, Flying
    <2> QED BY <2>1, <2>2, LocalStep
  <1>11. CASE UNCHANGED vars
    BY <1>11, FlightFrame DEF vars, coreVars, flightVars, logVars
  <1> QED BY <1>3, <1>4, <1>5, <1>6, <1>7, <1>8, <1>9, <1>10, <1>11 DEF Next, Worker

LEMMA FlightInit == Init => FlightInv
  BY DEF Init, FlightInv, SlotInv, ReplyInv, Flying, CancelHitsOnlyItsTarget,
     CancelIsReported

\* A cancel never hits a bystander: the race between claw_core_cancel_request
\* and the end of one request and the start of the next is harmless.
THEOREM CancelNeverHitsABystander == Spec => []CancelHitsOnlyItsTarget
  <1>1. FlightInv => CancelHitsOnlyItsTarget
    BY DEF FlightInv
  <1> QED BY <1>1, TypeInit, TypeStep, FlightInit, FlightStep, PTL DEF Spec

\* An accepted cancel is never forgotten, and a request it aborted is never
\* reported with the transport's own error text.
THEOREM CancelNeverForgotten == Spec => []CancelIsReported
  <1>1. FlightInv => CancelIsReported
    BY DEF FlightInv
  <1> QED BY <1>1, TypeInit, TypeStep, FlightInit, FlightStep, PTL DEF Spec
-----------------------------------------------------------------------------
(* Order: what was submitted is what ended, the request at work, and what is *)
(* still queued, in this order, and no id twice.                             *)

AtWork == IF Busy THEN 1 ELSE 0

OrderInv ==
    /\ Len(submitted) = Len(finished) + AtWork + Len(requestQ)
    /\ \A i \in 1 .. Len(finished) : finished[i].id = submitted[i]
    /\ Busy => cur = submitted[Len(finished) + 1]
    /\ \A i \in 1 .. Len(requestQ) : requestQ[i] = submitted[Len(finished) + AtWork + i]
    /\ \A i, j \in 1 .. Len(submitted) : submitted[i] = submitted[j] => i = j
    /\ pc \in {"trace", "publish", "push"} =>
          Len(finished) > 0 /\ finished[Len(finished)].id = cur

LEMMA OrderInit == Init => OrderInv
  BY DEF Init, OrderInv, AtWork, Busy

\* What a step must keep for the order to stay as it is.
LEMMA OrderFrame ==
    ASSUME OrderInv, UNCHANGED <<submitted, finished, requestQ, cur, Busy>>,
           pc' \in {"trace", "publish", "push"} => pc \in {"trace", "publish", "push"}
    PROVE  OrderInv'
  <1>1. AtWork' = AtWork
    BY DEF AtWork
  <1> QED BY <1>1 DEF OrderInv

LEMMA SubmitKeepsOrder ==
    ASSUME TypeInv, OrderInv, NEW c \in Clients, NEW r \in Requests, Submit(c, r)
    PROVE  OrderInv'
  <1>1. /\ requestQ \in Seq(Requests) /\ submitted \in Seq(Requests) /\ Len(finished) \in Nat
        /\ AtWork \in {0, 1}
    BY DEF TypeInv, TypeOK, AtWork
  <1>2. /\ requestQ' = Append(requestQ, r) /\ submitted' = Append(submitted, r)
        /\ UNCHANGED <<finished, pc, cur>>
    BY DEF Submit, Enqueue
  <1>3. AtWork' = AtWork /\ Busy' = Busy
    BY <1>2 DEF AtWork, Busy
  <1>4. /\ Len(submitted') = Len(submitted) + 1 /\ submitted'[Len(submitted) + 1] = r
        /\ \A i \in 1 .. Len(submitted) : submitted'[i] = submitted[i] /\ submitted[i] # r
    BY <1>1, <1>2 DEF Submit, ToSet
  <1>5. /\ Len(requestQ') = Len(requestQ) + 1 /\ requestQ'[Len(requestQ) + 1] = r
        /\ \A i \in 1 .. Len(requestQ) : requestQ'[i] = requestQ[i]
    BY <1>1, <1>2
  <1>6. Len(submitted') = Len(finished) + AtWork + Len(requestQ')
    <2>1. Len(submitted) = Len(finished) + AtWork + Len(requestQ)
      BY DEF OrderInv
    <2>2. Len(requestQ) \in Nat /\ AtWork \in Nat
      BY <1>1
    <2> QED BY <1>1, <1>4, <1>5, <2>1, <2>2
  <1>7. \A i \in 1 .. Len(finished) : finished[i].id = submitted'[i]
    BY <1>1, <1>4 DEF OrderInv
  <1>8. Busy => cur = submitted'[Len(finished) + 1]
    BY <1>1, <1>4 DEF OrderInv, AtWork
  <1>9. \A i \in 1 .. Len(requestQ') : requestQ'[i] = submitted'[Len(finished) + AtWork + i]
    <2> SUFFICES ASSUME NEW i \in 1 .. Len(requestQ')
                 PROVE  requestQ'[i] = submitted'[Len(finished) + AtWork + i]
      OBVIOUS
    <2>1. CASE i = Len(requestQ) + 1
      <3>1. Len(finished) + AtWork + i = Len(submitted) + 1
        BY <1>1, <2>1 DEF OrderInv
      <3> QED BY <1>4, <1>5, <2>1, <3>1
    <2>2. CASE i # Len(requestQ) + 1
      <3>1. i \in 1 .. Len(requestQ) /\ Len(finished) + AtWork + i \in 1 .. Len(submitted)
        BY <1>1, <1>5, <2>2 DEF OrderInv
      <3> QED BY <1>4, <1>5, <3>1 DEF OrderInv
    <2> QED BY <2>1, <2>2
  <1>10. \A i, j \in 1 .. Len(submitted') : submitted'[i] = submitted'[j] => i = j
    <2>1. \A i \in 1 .. Len(submitted') : i \in 1 .. Len(submitted) \/ i = Len(submitted) + 1
      BY <1>1, <1>4
    <2> QED BY <1>4, <2>1 DEF OrderInv
  <1> QED BY <1>2, <1>3, <1>6, <1>7, <1>8, <1>9, <1>10 DEF OrderInv

LEMMA DequeueKeepsOrder ==
    ASSUME TypeInv, OrderInv, Dequeue
    PROVE  OrderInv' /\ cur' = submitted[Len(finished) + 1] /\ ~ Busy /\ Busy'
  <1>1. /\ requestQ \in Seq(Requests) /\ requestQ # <<>> /\ Len(finished) \in Nat
        /\ requestQ' = Tail(requestQ) /\ cur' = Head(requestQ) /\ pc = "idle" /\ pc' = "begin"
        /\ UNCHANGED <<submitted, finished>>
    BY DEF Dequeue, Goto, TypeInv, TypeOK, logVars
  <1>2. AtWork = 0 /\ AtWork' = 1 /\ ~ Busy /\ Busy'
    BY <1>1 DEF AtWork, Busy
  <1>3. /\ Len(requestQ') = Len(requestQ) - 1 /\ Len(requestQ) \in Nat \ {0}
        /\ \A i \in 1 .. Len(requestQ') : requestQ'[i] = requestQ[i + 1]
        /\ cur' = requestQ[1]
    BY <1>1
  <1>4. cur' = submitted[Len(finished) + 1]
    BY <1>1, <1>2, <1>3 DEF OrderInv
  <1>5. \A i \in 1 .. Len(requestQ') : requestQ'[i] = submitted[Len(finished) + 1 + i]
    <2> SUFFICES ASSUME NEW i \in 1 .. Len(requestQ')
                 PROVE  requestQ'[i] = submitted[Len(finished) + 1 + i]
      OBVIOUS
    <2>1. i + 1 \in 1 .. Len(requestQ) /\ Len(finished) + 0 + (i + 1) = Len(finished) + 1 + i
      BY <1>1, <1>3
    <2>2. requestQ[i + 1] = submitted[Len(finished) + 0 + (i + 1)]
      BY <1>2, <2>1 DEF OrderInv
    <2> QED BY <1>3, <2>1, <2>2
  <1>6. Len(submitted) = Len(finished) + 1 + Len(requestQ')
    BY <1>1, <1>2, <1>3 DEF OrderInv
  <1> QED BY <1>1, <1>2, <1>4, <1>5, <1>6 DEF OrderInv

\* The end of a request, as the history records it.
LEMMA ClearKeepsOrder ==
    ASSUME TypeInv, OrderInv, ClearFlight
    PROVE  /\ OrderInv' /\ Busy /\ ~ Busy'
           /\ Len(finished') = Len(finished) + 1
           /\ \A i \in 1 .. Len(finished) : finished'[i] = finished[i]
           /\ finished'[Len(finished) + 1] = [id |-> cur, reply |-> reply']
  <1>1. /\ finished \in Seq(Response) /\ Len(finished) \in Nat /\ Len(requestQ) \in Nat
        /\ pc = "clear" /\ pc' = "trace" /\ UNCHANGED <<submitted, requestQ, cur>>
        /\ finished' = Append(finished, [id |-> cur, reply |-> reply'])
    BY DEF ClearFlight, Goto, TypeInv, TypeOK
  <1>2. Busy /\ ~ Busy' /\ AtWork = 1 /\ AtWork' = 0
    BY <1>1 DEF Busy, AtWork
  <1>3. /\ Len(finished') = Len(finished) + 1
        /\ \A i \in 1 .. Len(finished) : finished'[i] = finished[i]
        /\ finished'[Len(finished) + 1] = [id |-> cur, reply |-> reply']
    <2>1. PICK resp : resp = [id |-> cur, reply |-> reply']
      OBVIOUS
    <2>2. finished \in Seq(Response \cup {resp}) /\ finished' = Append(finished, resp)
      BY <1>1, <2>1
    <2> QED BY <2>1, <2>2
  <1>4. \A i \in 1 .. Len(finished') : finished'[i].id = submitted[i]
    <2> SUFFICES ASSUME NEW i \in 1 .. Len(finished') PROVE finished'[i].id = submitted[i]
      OBVIOUS
    <2>1. i \in 1 .. Len(finished) \/ i = Len(finished) + 1
      BY <1>1, <1>3
    <2> QED BY <1>2, <1>3, <2>1 DEF OrderInv
  <1>5. \A i \in 1 .. Len(requestQ) : requestQ[i] = submitted[Len(finished') + 0 + i]
    <2> SUFFICES ASSUME NEW i \in 1 .. Len(requestQ)
                 PROVE  requestQ[i] = submitted[Len(finished') + 0 + i]
      OBVIOUS
    <2>1. Len(finished') + 0 + i = Len(finished) + 1 + i
      BY <1>1, <1>3
    <2> QED BY <1>2, <2>1 DEF OrderInv
  <1>6. Len(submitted) = Len(finished') + 0 + Len(requestQ)
    BY <1>1, <1>2, <1>3 DEF OrderInv
  <1>7. Len(finished') > 0 /\ finished'[Len(finished')].id = cur
    BY <1>1, <1>3
  <1> QED BY <1>1, <1>2, <1>3, <1>4, <1>5, <1>6, <1>7 DEF OrderInv

\* The other steps leave queue and histories alone.
LEMMA OthersKeepOrder ==
    ASSUME TypeInv, OrderInv,
           \/ \E c \in Clients : \/ \E want \in Requests \cup {0} : ReceiveBegin(c, want)
                                 \/ ReceiveItem(c) \/ ReceiveTimeout(c)
           \/ \E q \in Requests \cup {0} : Cancel(q)
           \/ BeginFlight \/ StartRequest \/ BuildContext \/ LlmReturn \/ RunTools \/ Complete
           \/ Disarm \/ FailureTrace \/ PublishReply \/ PushResponse
           \/ UNCHANGED vars
    PROVE  OrderInv' /\ UNCHANGED <<submitted, finished, Busy>>
  <1>1. CASE PushResponse
    <2>1. UNCHANGED <<submitted, finished, requestQ>> /\ pc = "push" /\ pc' = "idle"
      BY <1>1 DEF PushResponse, Goto, logVars
    <2>2. ~ Busy /\ ~ Busy' /\ AtWork' = AtWork
      BY <2>1 DEF Busy, AtWork
    <2>3. OrderInv'
      BY <2>1, <2>2 DEF OrderInv
    <2>4. Busy' = Busy
      BY <2>1 DEF Busy
    <2> QED BY <2>1, <2>3, <2>4
  <1>2. CASE ~ PushResponse
    <2>1. UNCHANGED <<submitted, finished, requestQ, cur>>
      BY <1>2 DEF ReceiveBegin, ReceiveItem, ReceiveTimeout, Cancel, BeginFlight, StartRequest,
         BuildContext, LlmReturn, RunTools, Complete, Disarm, FailureTrace, PublishReply, vars,
         coreVars, logVars
    <2>2. \/ pc' = pc
          \/ /\ pc \in {"begin", "start", "context", "llm", "tools", "complete", "disarm"}
             /\ pc' \in {"start", "context", "llm", "tools", "complete", "disarm", "clear"}
          \/ pc \in {"trace", "publish"} /\ pc' \in {"publish", "push"}
      BY <1>2 DEF ReceiveBegin, ReceiveItem, ReceiveTimeout, Cancel, BeginFlight, StartRequest,
         BuildContext, LlmReturn, RunTools, Complete, Disarm, FailureTrace, PublishReply, Fail,
         Goto, vars, coreVars
    <2>3. Busy' = Busy
      BY <2>2 DEF Busy
    <2>4. pc' \in {"trace", "publish", "push"} => pc \in {"trace", "publish", "push"}
      BY <2>2
    <2>5. OrderInv'
      BY <2>1, <2>3, <2>4, OrderFrame
    <2> QED BY <2>1, <2>3, <2>5
  <1> QED BY <1>1, <1>2

LEMMA OrderStep == TypeInv /\ OrderInv /\ [Next]_vars => OrderInv'
  BY SubmitKeepsOrder, DequeueKeepsOrder, ClearKeepsOrder, OthersKeepOrder
     DEF Next, Worker, ClientStep
-----------------------------------------------------------------------------
(* The core as an AgentService.                                              *)

ResultOf(resp) == [id |-> resp.id, outcome |-> Outcome(resp)]
ResultsOf(f)   == [i \in DOMAIN f |-> ResultOf(f[i])]
Results        == ResultsOf(finished)

Result      == [id : Requests, outcome : Service!Outcomes]
ServiceStep == [Service!Next]_(Service!svars)

LEMMA ResultsAre ==
    ASSUME NEW f \in Seq(Response)
    PROVE  /\ ResultsOf(f) \in Seq(Result) /\ Len(ResultsOf(f)) = Len(f)
           /\ \A i \in 1 .. Len(f) : ResultsOf(f)[i] = ResultOf(f[i])
  <1>1. DOMAIN f = 1 .. Len(f) /\ Len(f) \in Nat
    OBVIOUS
  <1>2. \A i \in 1 .. Len(f) : ResultOf(f[i]) \in Result
    <2> SUFFICES ASSUME NEW i \in 1 .. Len(f) PROVE ResultOf(f[i]) \in Result
      OBVIOUS
    <2>1. f[i] \in Response
      BY <1>1
    <2>2. f[i].id \in Requests
      BY <2>1 DEF Response
    <2>3. Outcome(f[i]) \in Service!Outcomes
      BY DEF Outcome, Service!Outcomes
    <2> QED BY <2>2, <2>3 DEF Result, ResultOf
  <1>3. ResultsOf(f) = [i \in 1 .. Len(f) |-> ResultOf(f[i])]
    BY <1>1 DEF ResultsOf
  <1> QED BY <1>1, <1>2, <1>3

\* One more response is one more result.
LEMMA ResultsGrow ==
    ASSUME NEW f \in Seq(Response), NEW resp \in Response
    PROVE  ResultsOf(Append(f, resp)) = Append(ResultsOf(f), ResultOf(resp))
  <1>1. PICK g : g = Append(f, resp)
    OBVIOUS
  <1>2. /\ g \in Seq(Response) /\ Len(g) = Len(f) + 1 /\ Len(f) \in Nat
        /\ \A i \in 1 .. Len(f) : g[i] = f[i]
        /\ g[Len(f) + 1] = resp
    BY <1>1
  <1>3. /\ ResultsOf(g) \in Seq(Result) /\ Len(ResultsOf(g)) = Len(f) + 1
        /\ \A i \in 1 .. Len(f) : ResultsOf(g)[i] = ResultOf(f[i])
        /\ ResultsOf(g)[Len(f) + 1] = ResultOf(resp)
    BY <1>2, ResultsAre
  <1>4. PICK x : x = ResultOf(resp)
    OBVIOUS
  <1>5. x \in Result
    <2>1. Len(ResultsOf(g)) \in 1 .. Len(ResultsOf(g))
      BY <1>2, <1>3
    <2> QED BY <1>3, <1>4, <2>1
  <1>6. PICK h : h = Append(ResultsOf(f), x)
    OBVIOUS
  <1>7. /\ ResultsOf(f) \in Seq(Result) /\ Len(ResultsOf(f)) = Len(f)
        /\ \A i \in 1 .. Len(f) : ResultsOf(f)[i] = ResultOf(f[i])
    BY ResultsAre
  <1>8. /\ h \in Seq(Result) /\ Len(h) = Len(f) + 1
        /\ \A i \in 1 .. Len(f) : h[i] = ResultOf(f[i])
        /\ h[Len(f) + 1] = x
    <2>1. /\ h \in Seq(Result) /\ Len(h) = Len(ResultsOf(f)) + 1
          /\ \A i \in 1 .. Len(ResultsOf(f)) : h[i] = ResultsOf(f)[i]
          /\ h[Len(ResultsOf(f)) + 1] = x
      BY <1>5, <1>6, <1>7
    <2> QED BY <1>7, <2>1
  <1>9. \A i \in 1 .. Len(f) + 1 : i \in 1 .. Len(f) \/ i = Len(f) + 1
    BY <1>2
  <1>10. \A i \in 1 .. Len(f) + 1 : ResultsOf(g)[i] = h[i]
    BY <1>3, <1>4, <1>8, <1>9
  <1>11. ResultsOf(g) = h
    BY <1>3, <1>8, <1>10, SeqEqual
  <1> QED BY <1>1, <1>4, <1>6, <1>11

\* The results the refinement mapping names are these.
LEMMA ServiceResults ==
    ASSUME TypeInv
    PROVE  /\ Results = [i \in DOMAIN finished |->
                           [id |-> finished[i].id, outcome |-> Outcome(finished[i])]]
           /\ Len(Results) = Len(finished)
           /\ Len([i \in DOMAIN finished |->
                     [id |-> finished[i].id, outcome |-> Outcome(finished[i])]]) = Len(finished)
  <1>1. Results = [i \in DOMAIN finished |->
                     [id |-> finished[i].id, outcome |-> Outcome(finished[i])]]
    BY DEF Results, ResultsOf, ResultOf
  <1>2. Len(Results) = Len(finished)
    BY ResultsAre DEF Results, TypeInv, TypeOK
  <1> QED BY <1>1, <1>2

LEMMA NoServiceStep ==
    ASSUME UNCHANGED <<submitted, finished, Busy, inflightAbort>>
    PROVE  ServiceStep
  BY DEF ServiceStep, Service!svars, Outcome

\* claw_core_submit accepts a request while the queue has room.
LEMMA SubmitIsAccept ==
    ASSUME TypeInv, OrderInv, NEW c \in Clients, NEW r \in Requests, Submit(c, r)
    PROVE  ServiceStep
  <1>1. Len(finished) \in Nat /\ Len(requestQ) \in Nat
    BY DEF TypeInv, TypeOK
  <1>2. Len(requestQ) < RequestQueueLen
    BY DEF Submit
  <1>3. Len(submitted) = Len(finished) + AtWork + Len(requestQ)
    BY DEF OrderInv
  <1>4. AtWork \in Nat
    BY DEF AtWork
  <1>5. Len(submitted) - Len(finished) - AtWork < RequestQueueLen
    BY <1>1, <1>2, <1>3, <1>4, ConstantsOK
  <1>6. Service!Waiting < RequestQueueLen
    BY <1>5, ServiceResults DEF Service!Waiting, AtWork
  <1>7. submitted' = Append(submitted, r) /\ UNCHANGED <<finished, Busy, inflightAbort>>
    BY DEF Submit, Busy, flightVars
  <1>8. Service!Accept(r)
    BY <1>6, <1>7 DEF Service!Accept, Outcome
  <1> QED BY <1>8 DEF ServiceStep, Service!Next

LEMMA DequeueIsStart ==
    ASSUME TypeInv, OrderInv, Dequeue
    PROVE  ServiceStep
  <1>1. ~ Busy /\ Busy' /\ UNCHANGED <<submitted, finished, inflightAbort>>
    BY DequeueKeepsOrder DEF Dequeue, logVars, flightVars
  <1>2. Len(finished) \in Nat
    BY DEF TypeInv, TypeOK
  <1>3. Len(requestQ) \in Nat /\ Len(requestQ) > 0
    <2>1. requestQ \in Seq(Requests) /\ requestQ # <<>>
      BY DEF TypeInv, TypeOK, Dequeue
    <2> QED BY <2>1
  <1>4. Len(submitted) = Len(finished) + 0 + Len(requestQ)
    BY <1>1 DEF OrderInv, AtWork
  <1>5. Len(submitted) - Len(finished) - 0 > 0
    BY <1>2, <1>3, <1>4
  <1>6. Service!Waiting > 0
    BY <1>1, <1>5, ServiceResults DEF Service!Waiting
  <1>7. Service!Start
    BY <1>1, <1>6 DEF Service!Start, Outcome
  <1> QED BY <1>7 DEF ServiceStep, Service!Next

\* A cancel finds an id in the slot, so a request is being processed.
LEMMA CancelIsAsked ==
    ASSUME FlightInv, NEW q \in Requests \cup {0}, Cancel(q)
    PROVE  ServiceStep
  <1>1. Busy
    BY DEF Cancel, Addressed, FlightInv, SlotInv, Flying, Busy
  <1>2. inflightAbort' = TRUE /\ UNCHANGED <<submitted, finished, Busy>>
    BY DEF Cancel, coreVars, logVars, Busy
  <1>3. Service!AskCancel
    BY <1>1, <1>2 DEF Service!AskCancel, Outcome
  <1> QED BY <1>3 DEF ServiceStep, Service!Next

\* The second critical section ends the request, "cancelled" only if it was asked.
LEMMA ClearIsFinish ==
    ASSUME TypeInv, TypeInv', OrderInv, FlightInv, ClearFlight
    PROVE  ServiceStep
  <1>1. PICK resp : resp = [id |-> cur, reply |-> reply']
    OBVIOUS
  <1>2. finished \in Seq(Response) /\ finished' \in Seq(Response) /\ Len(finished) \in Nat
    BY DEF TypeInv, TypeOK
  <1>3. Busy /\ ~ Busy' /\ finished' = Append(finished, resp)
    BY <1>1, ClearKeepsOrder DEF ClearFlight
  <1>4. inflightAbort' = FALSE /\ UNCHANGED submitted
    BY DEF ClearFlight
  <1>5. resp \in Response
    <2>1. cur \in Requests
      BY DEF ClearFlight, TypeInv, TypeOK
    <2>2. reply' \in Reply
      BY DEF TypeInv, TypeOK
    <2> QED BY <1>1, <2>1, <2>2 DEF Response
  <1>6. resp.id = submitted[Len(finished) + 1]
    BY <1>1, <1>3 DEF OrderInv
  <1>7. Outcome(resp) \in Service!Outcomes /\ (Outcome(resp) = "cancelled" => inflightAbort)
    <2>1. pc = "clear" /\ reply.error # "cancelled"
      BY DEF ClearFlight, FlightInv, ReplyInv, Flying
    <2>2. reply' = IF WasCancelled THEN [reply EXCEPT !.error = "cancelled"] ELSE reply
      BY DEF ClearFlight
    <2>3. reply'.error = "cancelled" => inflightAbort
      BY <2>1, <2>2 DEF WasCancelled
    <2> QED BY <1>1, <2>3 DEF Outcome, Service!Outcomes
  <1>8. Results' = Append(Results, [id |-> submitted[Len(Results) + 1],
                                    outcome |-> Outcome(resp)])
    <2>1. ResultsOf(finished') = Append(ResultsOf(finished), ResultOf(resp))
      BY <1>2, <1>3, <1>5, ResultsGrow
    <2>2. ResultOf(resp) = [id |-> submitted[Len(Results) + 1], outcome |-> Outcome(resp)]
      BY <1>6, ServiceResults DEF ResultOf
    <2>3. Results' = ResultsOf(finished')
      BY DEF Results, ResultsOf, ResultOf, Outcome
    <2> QED BY <2>1, <2>2, <2>3 DEF Results
  <1>9. Service!Finish(Outcome(resp))
    <2>1. Busy' = FALSE
      BY <1>3 DEF Busy
    <2>2. Results = [i \in DOMAIN finished |->
                       [id |-> finished[i].id, outcome |-> Outcome(finished[i])]]
      BY DEF Results, ResultsOf, ResultOf
    <2>3. Results' = [i \in DOMAIN finished |->
                        [id |-> finished[i].id, outcome |-> Outcome(finished[i])]]'
      BY DEF Results, ResultsOf, ResultOf, Outcome
    <2> HIDE DEF Results
    <2> QED BY <1>3, <1>4, <1>7, <1>8, <2>1, <2>2, <2>3 DEF Service!Finish
  <1> QED BY <1>7, <1>9 DEF ServiceStep, Service!Next

LEMMA OthersAreNoService ==
    ASSUME TypeInv, OrderInv, FlightInv,
           \/ \E c \in Clients : \/ \E want \in Requests \cup {0} : ReceiveBegin(c, want)
                                 \/ ReceiveItem(c) \/ ReceiveTimeout(c)
           \/ BeginFlight \/ StartRequest \/ BuildContext \/ LlmReturn \/ RunTools \/ Complete
           \/ Disarm \/ FailureTrace \/ PublishReply \/ PushResponse
           \/ UNCHANGED vars
    PROVE  ServiceStep
  <1>1. UNCHANGED <<submitted, finished, Busy>>
    BY OthersKeepOrder
  <1>2. UNCHANGED inflightAbort
    <2>1. CASE BeginFlight
      BY <2>1 DEF BeginFlight, FlightInv, SlotInv, Flying, TypeInv, TypeOK
    <2>2. CASE ~ BeginFlight
      BY <2>2 DEF ReceiveBegin, ReceiveItem, ReceiveTimeout, StartRequest, BuildContext,
         LlmReturn, RunTools, Complete, Disarm, FailureTrace, PublishReply, PushResponse, vars,
         flightVars
    <2> QED BY <2>1, <2>2
  <1> QED BY <1>1, <1>2, NoServiceStep

LEMMA EveryStepIsAService ==
    TypeInv /\ TypeInv' /\ OrderInv /\ FlightInv /\ [Next]_vars => ServiceStep
  BY SubmitIsAccept, DequeueIsStart, CancelIsAsked, ClearIsFinish, OthersAreNoService
     DEF Next, Worker, ClientStep

\* claw_core is the service its header promises: requests are accepted up to the
\* queue's length, processed one at a time in the order of submission, end once
\* each, and end as cancelled only if that was asked while they were processed.
THEOREM CoreIsAnAgentService == Spec => ImplementsService
  <1>1. Init => Service!Init
    <2> SUFFICES ASSUME Init PROVE Service!Init
      OBVIOUS
    <2>1. Results = <<>>
      BY DEF Init, Results, ResultsOf
    <2>2. submitted = <<>> /\ ~ Busy /\ inflightAbort = FALSE
      BY DEF Init, Busy
    <2> QED BY <2>1, <2>2 DEF Service!Init, Results, ResultsOf, ResultOf
  <1>2. TypeInv /\ TypeInv' /\ OrderInv /\ FlightInv /\ [Next]_vars
          => [Service!Next]_(Service!svars)
    BY EveryStepIsAService DEF ServiceStep
  <1> QED BY <1>1, <1>2, TypeInit, TypeStep, OrderInit, OrderStep, FlightInit, FlightStep, PTL
      DEF Spec, ImplementsService, Service!Spec
-----------------------------------------------------------------------------
(* Responses: how often an id stands in a queue, and where a response is.    *)

LEMMA CopiesType ==
    ASSUME NEW s \in Seq(Response), NEW r
    PROVE  IsFiniteSet({i \in DOMAIN s : s[i].id = r}) /\ Copies(s, r) \in Nat
  <1>1. DOMAIN s = 1 .. Len(s) /\ 1 \in Int /\ Len(s) \in Int
    OBVIOUS
  <1>2. IsFiniteSet(DOMAIN s)
    BY <1>1, FS_Interval, Zenon
  <1>3. IsFiniteSet({i \in DOMAIN s : s[i].id = r})
    BY <1>2, FS_Subset
  <1> QED BY <1>3, FS_CardinalityType DEF Copies

\* A sequence without its k-th element has one copy less of that element's id
\* and as many as before of every other.
LEMMA CopiesRemove ==
    ASSUME NEW s \in Seq(Response), NEW t \in Seq(Response), NEW k \in 1 .. Len(s),
           Len(s) = Len(t) + 1,
           \A j \in 1 .. Len(t) : /\ j < k => t[j] = s[j]
                                  /\ ~ (j < k) => t[j] = s[j + 1],
           NEW r
    PROVE  Copies(s, r) = Copies(t, r) + (IF s[k].id = r THEN 1 ELSE 0)
  <1>1. PICK A : A = {i \in 1 .. Len(s) : s[i].id = r}
    OBVIOUS
  <1>2. PICK B : B = {i \in 1 .. Len(t) : t[i].id = r}
    OBVIOUS
  <1>3. IsFiniteSet(A) /\ IsFiniteSet(B) /\ Copies(s, r) = Cardinality(A)
        /\ Copies(t, r) = Cardinality(B)
    <2>1. DOMAIN s = 1 .. Len(s) /\ DOMAIN t = 1 .. Len(t)
      OBVIOUS
    <2> QED BY <1>1, <1>2, <2>1, CopiesType DEF Copies
  <1>4. Len(t) \in Nat /\ k \in Nat
    OBVIOUS
  <1>5. PICK f : f = [j \in B |-> IF j < k THEN j ELSE j + 1]
    OBVIOUS
  <1>6. \A j \in B : f[j] \in A \ {k}
    <2> SUFFICES ASSUME NEW j \in B PROVE f[j] \in A \ {k}
      OBVIOUS
    <2>1. j \in 1 .. Len(t) /\ t[j].id = r /\ f[j] = IF j < k THEN j ELSE j + 1
      BY <1>2, <1>5
    <2>2. f[j] \in 1 .. Len(s) /\ f[j] # k
      BY <1>4, <2>1
    <2>3. t[j] = s[f[j]]
      BY <2>1
    <2> QED BY <1>1, <2>1, <2>2, <2>3
  <1>7. \A i, j \in B : f[i] = f[j] => i = j
    <2>1. \A j \in B : j \in Nat /\ f[j] = IF j < k THEN j ELSE j + 1
      BY <1>2, <1>4, <1>5
    <2> QED BY <1>4, <2>1
  <1>8. \A i \in A \ {k} : \E j \in B : f[j] = i
    <2> SUFFICES ASSUME NEW i \in A \ {k} PROVE \E j \in B : f[j] = i
      OBVIOUS
    <2>1. PICK j : j = IF i < k THEN i ELSE i - 1
      OBVIOUS
    <2>2. i \in 1 .. Len(s) /\ i # k /\ s[i].id = r
      BY <1>1
    <2>3. j \in 1 .. Len(t) /\ (IF j < k THEN j ELSE j + 1) = i
      BY <1>4, <2>1, <2>2
    <2>4. j \in B
      BY <1>2, <2>2, <2>3
    <2> QED BY <1>5, <2>3, <2>4
  <1>9. f \in Bijection(B, A \ {k})
    <2>1. f \in [B -> A \ {k}]
      BY <1>5, <1>6
    <2> QED BY <1>7, <1>8, <2>1 DEF Bijection, Injection, Surjection, IsInjective
  <1>10. Cardinality(A \ {k}) = Cardinality(B)
    BY <1>3, <1>9, FS_Bijection DEF ExistsBijection
  <1>11. Cardinality(A \ {k}) = IF k \in A THEN Cardinality(A) - 1 ELSE Cardinality(A)
    BY <1>3, FS_RemoveElement
  <1>12. k \in A <=> s[k].id = r
    BY <1>1
  <1>13. Cardinality(A) \in Nat /\ Cardinality(B) \in Nat
    BY <1>3, FS_CardinalityType
  <1> QED BY <1>3, <1>10, <1>11, <1>12, <1>13

LEMMA CopiesAppend ==
    ASSUME NEW s \in Seq(Response), NEW x \in Response, NEW r
    PROVE  Copies(Append(s, x), r) = Copies(s, r) + (IF x.id = r THEN 1 ELSE 0)
  <1>1. PICK t : t = Append(s, x)
    OBVIOUS
  <1>2. /\ t \in Seq(Response) /\ Len(t) = Len(s) + 1 /\ Len(s) \in Nat
        /\ \A j \in 1 .. Len(s) : s[j] = t[j]
        /\ t[Len(t)] = x
    BY <1>1
  <1>3. \A j \in 1 .. Len(s) : j < Len(t)
    BY <1>2
  <1>4. Len(t) \in 1 .. Len(t)
    BY <1>2
  <1>5. Copies(t, r) = Copies(s, r) + (IF t[Len(t)].id = r THEN 1 ELSE 0)
    BY <1>2, <1>3, <1>4, CopiesRemove
  <1> QED BY <1>1, <1>2, <1>5

LEMMA CopiesTail ==
    ASSUME NEW s \in Seq(Response), s # <<>>, NEW r
    PROVE  Copies(s, r) = Copies(Tail(s), r) + (IF Head(s).id = r THEN 1 ELSE 0)
  <1>1. PICK t : t = Tail(s)
    OBVIOUS
  <1>2. /\ t \in Seq(Response) /\ Len(s) = Len(t) + 1 /\ Len(t) \in Nat
        /\ \A j \in 1 .. Len(t) : t[j] = s[j + 1]
        /\ Head(s) = s[1]
    BY <1>1
  <1>3. \A j \in 1 .. Len(t) : ~ (j < 1)
    BY <1>2
  <1>4. 1 \in 1 .. Len(s)
    BY <1>2
  <1>5. Copies(s, r) = Copies(t, r) + (IF s[1].id = r THEN 1 ELSE 0)
    BY <1>2, <1>3, <1>4, CopiesRemove
  <1> QED BY <1>1, <1>2, <1>5

LEMMA CopiesUnlink ==
    ASSUME NEW s \in Seq(Response), NEW k \in DOMAIN s, NEW r
    PROVE  Copies(s, r) = Copies(RemoveAt(s, k), r) + (IF s[k].id = r THEN 1 ELSE 0)
  <1>1. PICK t : t = RemoveAt(s, k)
    OBVIOUS
  <1>2. k \in 1 .. Len(s) /\ Len(s) \in Nat
    OBVIOUS
  <1>3. PICK u : u = SubSeq(s, 1, k - 1)
    OBVIOUS
  <1>4. PICK v : v = SubSeq(s, k + 1, Len(s))
    OBVIOUS
  <1>5. /\ u \in Seq(Response) /\ Len(u) = k - 1
        /\ \A j \in 1 .. k - 1 : u[j] = s[j]
    BY <1>2, <1>3
  <1>6. /\ v \in Seq(Response) /\ Len(v) = Len(s) - k
        /\ \A j \in 1 .. Len(s) - k : v[j] = s[k + j]
    BY <1>2, <1>4
  <1>7. t = u \o v
    BY <1>1, <1>3, <1>4 DEF RemoveAt
  <1>8. t \in Seq(Response) /\ Len(t) = Len(u) + Len(v)
    BY <1>5, <1>6, <1>7, ConcatProperties
  <1>9. \A j \in 1 .. Len(t) : t[j] = IF j <= Len(u) THEN u[j] ELSE v[j - Len(u)]
    BY <1>5, <1>6, <1>7, ConcatProperties
  <1>10. Len(u) = k - 1 /\ Len(v) = Len(s) - k
    BY <1>5, <1>6
  <1>11. Len(s) = Len(t) + 1
    <2>1. Len(t) = (k - 1) + (Len(s) - k)
      BY <1>8, <1>10
    <2>2. (k - 1) + (Len(s) - k) = Len(s) - 1
      BY <1>2
    <2> QED BY <1>2, <2>1, <2>2
  <1>12. ASSUME NEW j \in 1 .. Len(t), j < k PROVE t[j] = s[j]
    <2>1. j \in 1 .. k - 1 /\ j <= Len(u)
      BY <1>2, <1>10, <1>12
    <2> QED BY <1>5, <1>9, <2>1
  <1>13. ASSUME NEW j \in 1 .. Len(t), ~ (j < k) PROVE t[j] = s[j + 1]
    <2>1. j - Len(u) \in 1 .. Len(s) - k /\ k + (j - Len(u)) = j + 1 /\ ~ (j <= Len(u))
      BY <1>2, <1>10, <1>11, <1>13
    <2> QED BY <1>6, <1>9, <2>1
  <1>14. Copies(s, r) = Copies(t, r) + (IF s[k].id = r THEN 1 ELSE 0)
    <2>1. \A j \in 1 .. Len(t) : /\ j < k => t[j] = s[j]
                                 /\ ~ (j < k) => t[j] = s[j + 1]
      BY <1>12, <1>13
    <2>2. t \in Seq(Response) /\ k \in 1 .. Len(s)
      BY <1>2, <1>8
    <2> QED BY <1>11, <2>1, <2>2, CopiesRemove, ZenonT(30)
  <1> QED BY <1>1, <1>14

Ended(r) == \E i \in DOMAIN finished : finished[i].id = r

Places(r) == (IF cur = r THEN 1 ELSE 0) + Copies(responseQ, r) + Copies(pending, r)
               + delivered[r] + (IF r \in lost THEN 1 ELSE 0)

\* A request the worker has taken is in one place from then on, one it has not
\* taken is in none.
PlaceInv ==
    \A r \in Requests \ SkipQueue : Places(r) = IF cur = r \/ Ended(r) THEN 1 ELSE 0

LEMMA PlaceInit == Init => PlaceInv
  <1> SUFFICES ASSUME Init PROVE PlaceInv
    OBVIOUS
  <1>1. \A r \in Requests : Copies(<<>>, r) = 0
    <2>1. \A r \in Requests : {i \in DOMAIN <<>> : <<>>[i].id = r} = {}
      OBVIOUS
    <2> QED BY <2>1, FS_EmptySet DEF Copies
  <1>2. \A r \in Requests : r # 0
    BY ConstantsOK
  <1>3. \A r \in Requests : Places(r) = 0 /\ ~ Ended(r) /\ cur # r
    BY <1>1, <1>2 DEF Init, Places, Ended
  <1> QED BY <1>3 DEF PlaceInv

LEMMA PlaceFrame ==
    ASSUME PlaceInv, UNCHANGED <<cur, responseQ, pending, delivered, lost, finished>>
    PROVE  PlaceInv'
  BY DEF PlaceInv, Places, Ended

\* The counts are numbers.
LEMMA PlaceTypes ==
    ASSUME TypeInv, NEW r \in Requests
    PROVE  Copies(responseQ, r) \in Nat /\ Copies(pending, r) \in Nat /\ delivered[r] \in Nat
  BY CopiesType DEF TypeInv, TypeOK

\* What the worker takes from the queue has not ended before.
LEMMA DequeuedIsNew ==
    ASSUME TypeInv, OrderInv, Dequeue
    PROVE  /\ cur = 0 /\ UNCHANGED finished /\ ~ Ended(cur')
  <1>1. /\ cur = 0 /\ UNCHANGED <<submitted, finished>>
        /\ finished \in Seq(Response) /\ Len(finished) \in Nat
    BY DEF Dequeue, TypeInv, TypeOK, logVars
  <1>2. cur' = submitted[Len(finished) + 1]
    BY DequeueKeepsOrder
  <1>3. Len(finished) + 1 \in 1 .. Len(submitted)
    <2>1. requestQ \in Seq(Requests) /\ requestQ # <<>> /\ pc = "idle"
      BY DEF Dequeue, TypeInv, TypeOK
    <2>2. Len(requestQ) \in Nat /\ Len(requestQ) > 0
      BY <2>1
    <2>3. Len(submitted) = Len(finished) + 0 + Len(requestQ)
      BY <2>1 DEF OrderInv, AtWork, Busy
    <2> QED BY <1>1, <2>2, <2>3
  <1>4. ~ Ended(cur')
    <2> SUFFICES ASSUME NEW i \in DOMAIN finished, finished[i].id = cur' PROVE FALSE
      BY DEF Ended
    <2>1. i \in 1 .. Len(finished) /\ i \in 1 .. Len(submitted) /\ i # Len(finished) + 1
      BY <1>1, <1>3
    <2>2. submitted[i] = submitted[Len(finished) + 1]
      BY <1>2, <2>1 DEF OrderInv
    <2> QED BY <1>3, <2>1, <2>2 DEF OrderInv
  <1> QED BY <1>1, <1>4

LEMMA DequeuePlace ==
    ASSUME TypeInv, OrderInv, PlaceInv, Dequeue
    PROVE  PlaceInv'
  <1>1. /\ cur = 0 /\ UNCHANGED <<responseQ, pending, delivered, lost, finished>>
    BY DEF Dequeue, TypeInv, replyVars, logVars
  <1>4. ~ Ended(cur')
    BY DequeuedIsNew
  <1> SUFFICES ASSUME NEW r \in Requests \ SkipQueue
               PROVE  Places(r)' = IF cur' = r \/ Ended(r)' THEN 1 ELSE 0
    BY DEF PlaceInv
  <1>5. Places(r) = IF Ended(r) THEN 1 ELSE 0
    BY <1>1, ConstantsOK DEF PlaceInv
  <1>6. Ended(r)' = Ended(r)
    BY <1>1 DEF Ended
  <1>7. CASE cur' = r
    <2>1. Places(r) = 0 /\ Places(r)' = 1
      BY <1>1, <1>4, <1>5, <1>7, PlaceTypes, ConstantsOK DEF Places
    <2> QED BY <1>7, <2>1
  <1>8. CASE cur' # r
    <2>1. Places(r)' = Places(r)
      BY <1>1, <1>8, ConstantsOK DEF Places
    <2> QED BY <1>5, <1>6, <1>8, <2>1
  <1> QED BY <1>7, <1>8

LEMMA ClearPlace ==
    ASSUME TypeInv, TypeInv', OrderInv, PlaceInv, ClearFlight
    PROVE  PlaceInv'
  <1>1. UNCHANGED <<cur, responseQ, pending, delivered, lost>>
    BY DEF ClearFlight, replyVars
  <1>2. /\ Len(finished) \in Nat /\ finished \in Seq(Response) /\ finished' \in Seq(Response)
        /\ Len(finished') = Len(finished) + 1
        /\ \A i \in 1 .. Len(finished) : finished'[i] = finished[i]
        /\ finished'[Len(finished) + 1].id = cur
    <2>1. PICK resp : resp = [id |-> cur, reply |-> reply']
      OBVIOUS
    <2>2. resp.id = cur
      BY <2>1
    <2>3. finished \in Seq(Response) /\ finished' \in Seq(Response) /\ Len(finished) \in Nat
      BY DEF TypeInv, TypeOK
    <2>4. /\ Len(finished') = Len(finished) + 1
          /\ \A i \in 1 .. Len(finished) : finished'[i] = finished[i]
          /\ finished'[Len(finished) + 1] = resp
      BY <2>1, ClearKeepsOrder
    <2> QED BY <2>2, <2>3, <2>4
  <1>3. \A r : (cur' = r \/ Ended(r)') <=> (cur = r \/ Ended(r))
    <2>1. \A i \in DOMAIN finished' : i \in DOMAIN finished \/ i = Len(finished) + 1
      BY <1>2
    <2>2. \A i \in DOMAIN finished : i \in DOMAIN finished' /\ finished'[i] = finished[i]
      BY <1>2
    <2> QED BY <1>1, <1>2, <2>1, <2>2 DEF Ended
  <1>4. \A r : Places(r)' = Places(r)
    BY <1>1 DEF Places
  <1> QED BY <1>3, <1>4 DEF PlaceInv

LEMMA PushPlace ==
    ASSUME TypeInv, OrderInv, PlaceInv, PushResponse
    PROVE  PlaceInv'
  <1>1. /\ pc = "push" /\ cur' = 0 /\ UNCHANGED <<pending, delivered, lost, finished>>
        /\ cur \in Requests /\ finished \in Seq(Response) /\ responseQ \in Seq(Response)
    BY DEF PushResponse, TypeInv, TypeOK, logVars
  <1>2. Ended(cur)
    <2>1. Len(finished) > 0 /\ finished[Len(finished)].id = cur
      BY <1>1 DEF OrderInv
    <2>2. Len(finished) \in DOMAIN finished
      BY <1>1, <2>1
    <2> QED BY <2>1, <2>2 DEF Ended
  <1> SUFFICES ASSUME NEW r \in Requests \ SkipQueue
               PROVE  Places(r)' = IF cur' = r \/ Ended(r)' THEN 1 ELSE 0
    BY DEF PlaceInv
  <1>3. cur' # r
    BY <1>1, ConstantsOK
  <1>4. Ended(r)' = Ended(r)
    BY <1>1 DEF Ended
  <1>5. Places(r) = IF cur = r \/ Ended(r) THEN 1 ELSE 0
    BY DEF PlaceInv
  <1>6. Copies(responseQ', r) = Copies(responseQ, r) + (IF cur = r THEN 1 ELSE 0)
    <2>1. CASE cur \in SkipQueue
      <3>1. UNCHANGED responseQ /\ cur # r
        BY <2>1 DEF PushResponse
      <3>2. Copies(responseQ, r) \in Nat
        BY PlaceTypes
      <3> QED BY <3>1, <3>2
    <2>2. CASE cur \notin SkipQueue
      <3>1. PICK resp : resp = [id |-> cur, reply |-> reply]
        OBVIOUS
      <3>2. resp \in Response /\ resp.id = cur
        BY <1>1, <3>1 DEF TypeInv, TypeOK, Response
      <3>3. responseQ' = Append(responseQ, resp)
        BY <2>2, <3>1 DEF PushResponse
      <3> QED BY <1>1, <3>2, <3>3, CopiesAppend
    <2> QED BY <2>1, <2>2
  <1>7. Places(r)' = Places(r)
    BY <1>1, <1>3, <1>6, PlaceTypes DEF Places
  <1> QED BY <1>2, <1>3, <1>4, <1>5, <1>7

\* A response handed over leaves one list and counts as delivered.
LEMMA DeliverCounts ==
    ASSUME TypeInv, NEW c \in Clients, NEW resp \in Response, Deliver(c, resp),
           NEW r \in Requests
    PROVE  delivered'[r] = delivered[r] + (IF resp.id = r THEN 1 ELSE 0)
  <1>1. resp.id \in Requests /\ delivered \in [Requests -> Nat]
    BY DEF Response, TypeInv, TypeOK
  <1>2. delivered' = [delivered EXCEPT ![resp.id] = @ + 1]
    BY DEF Deliver
  <1>3. delivered[r] \in Nat
    BY <1>1
  <1> QED BY <1>1, <1>2, <1>3

LEMMA ReceiveBeginPlace ==
    ASSUME TypeInv, PlaceInv, NEW c \in Clients, NEW want \in Requests \cup {0},
           ReceiveBegin(c, want)
    PROVE  PlaceInv'
  <1>1. UNCHANGED <<cur, responseQ, lost, finished>> /\ pending \in Seq(Response)
    BY DEF ReceiveBegin, coreVars, logVars, TypeInv, TypeOK
  <1>2. CASE UNCHANGED <<pending, delivered>>
    BY <1>1, <1>2, PlaceFrame
  <1>3. ASSUME NEW i \in DOMAIN pending, pending' = Unlink(i), Deliver(c, pending[i])
        PROVE  PlaceInv'
    <2>1. pending[i] \in Response
      BY <1>1
    <2>2. ASSUME NEW r \in Requests
          PROVE  Places(r)' = Places(r) /\ (Ended(r)' = Ended(r))
      <3>1. Copies(pending, r) = Copies(pending', r) + (IF pending[i].id = r THEN 1 ELSE 0)
        BY <1>1, <1>3, CopiesUnlink DEF Unlink
      <3>2. delivered'[r] = delivered[r] + (IF pending[i].id = r THEN 1 ELSE 0)
        BY <1>3, <2>1, DeliverCounts
      <3>3. pending' \in Seq(Response)
        BY <1>1, <1>3, RemoveAtType DEF Unlink
      <3>4. Copies(pending', r) \in Nat
        BY <3>3, CopiesType
      <3>5. Places(r) = (IF cur = r THEN 1 ELSE 0) + Copies(responseQ, r) + Copies(pending, r)
                          + delivered[r] + (IF r \in lost THEN 1 ELSE 0)
        BY DEF Places
      <3>6. Places(r)' = (IF cur = r THEN 1 ELSE 0) + Copies(responseQ, r) + Copies(pending', r)
                           + delivered'[r] + (IF r \in lost THEN 1 ELSE 0)
        BY <1>1 DEF Places
      <3>7. Ended(r)' = Ended(r)
        BY <1>1 DEF Ended
      <3> QED BY <3>1, <3>2, <3>4, <3>5, <3>6, <3>7, PlaceTypes
    <2> QED BY <1>1, <2>2 DEF PlaceInv
  <1> QED BY <1>2, <1>3 DEF ReceiveBegin

LEMMA ReceiveItemPlace ==
    ASSUME TypeInv, PlaceInv, NEW c \in Clients, ReceiveItem(c)
    PROVE  PlaceInv'
  <1>1. PICK resp : resp = Head(responseQ)
    OBVIOUS
  <1>2. /\ UNCHANGED <<cur, finished>> /\ responseQ' = Tail(responseQ) /\ responseQ # <<>>
        /\ responseQ \in Seq(Response) /\ pending \in Seq(Response) /\ lost \subseteq Requests
    BY DEF ReceiveItem, coreVars, logVars, TypeInv, TypeOK
  <1>3. resp \in Response
    BY <1>1, <1>2
  <1>4. responseQ' \in Seq(Response)
    BY <1>2
  <1> SUFFICES ASSUME NEW r \in Requests \ SkipQueue
               PROVE  Places(r)' = IF cur' = r \/ Ended(r)' THEN 1 ELSE 0
    BY DEF PlaceInv
  <1>5. Ended(r)' = Ended(r) /\ cur' = cur
    BY <1>2 DEF Ended
  <1>6. Places(r) = IF cur = r \/ Ended(r) THEN 1 ELSE 0
    BY DEF PlaceInv
  <1>7. Copies(responseQ, r) = Copies(responseQ', r) + (IF resp.id = r THEN 1 ELSE 0)
    BY <1>1, <1>2, CopiesTail
  <1>8. Copies(responseQ', r) \in Nat
    BY <1>4, CopiesType
  <1>9. CASE Deliver(c, resp) /\ UNCHANGED <<pending, lost>>
    <2>1. delivered'[r] = delivered[r] + (IF resp.id = r THEN 1 ELSE 0)
      BY <1>3, <1>9, DeliverCounts
    <2>2. Places(r)' = (IF cur = r THEN 1 ELSE 0) + Copies(responseQ', r) + Copies(pending, r)
                         + delivered'[r] + (IF r \in lost THEN 1 ELSE 0)
      BY <1>5, <1>9 DEF Places
    <2>3. Places(r)' = Places(r)
      BY <1>7, <1>8, <2>1, <2>2, PlaceTypes DEF Places
    <2> QED BY <1>5, <1>6, <2>3
  <1>10. CASE pending' = Append(pending, resp) /\ UNCHANGED <<lost, delivered>>
    <2>1. Copies(pending', r) = Copies(pending, r) + (IF resp.id = r THEN 1 ELSE 0)
      BY <1>2, <1>3, <1>10, CopiesAppend
    <2>2. Places(r)' = Places(r)
      BY <1>2, <1>7, <1>8, <1>10, <2>1, PlaceTypes, SMTT(20) DEF Places
    <2> QED BY <1>5, <1>6, <2>2
  <1>11. CASE lost' = lost \cup {resp.id} /\ UNCHANGED <<pending, delivered>>
    <2>1. resp.id = r => r \notin lost
      BY <1>6, <1>7, <1>8, PlaceTypes DEF Places
    <2>2. (IF r \in lost' THEN 1 ELSE 0)
             = (IF r \in lost THEN 1 ELSE 0) + (IF resp.id = r THEN 1 ELSE 0)
      BY <1>11, <2>1
    <2>3. Places(r)' = (IF cur = r THEN 1 ELSE 0) + Copies(responseQ', r) + Copies(pending, r)
                         + delivered[r] + (IF r \in lost' THEN 1 ELSE 0)
      BY <1>5, <1>11 DEF Places
    <2>4. Places(r)' = Places(r)
      BY <1>7, <1>8, <2>2, <2>3, PlaceTypes DEF Places
    <2> QED BY <1>5, <1>6, <2>4
  <1> QED BY <1>1, <1>9, <1>10, <1>11 DEF ReceiveItem

LEMMA PlaceStep ==
    TypeInv /\ TypeInv' /\ OrderInv /\ PlaceInv /\ [Next]_vars => PlaceInv'
  <1> SUFFICES ASSUME TypeInv, TypeInv', OrderInv, PlaceInv, [Next]_vars
               PROVE  PlaceInv'
    OBVIOUS
  <1>1. ASSUME NEW c \in Clients, ClientStep(c) PROVE PlaceInv'
    <2>1. ASSUME NEW r \in Requests, Submit(c, r) PROVE PlaceInv'
      BY <2>1, PlaceFrame DEF Submit
    <2>2. ASSUME ReceiveTimeout(c) PROVE PlaceInv'
      BY <2>2, PlaceFrame DEF ReceiveTimeout, coreVars, logVars
    <2> QED BY <1>1, <2>1, <2>2, ReceiveBeginPlace, ReceiveItemPlace DEF ClientStep
  <1>2. ASSUME NEW q \in Requests \cup {0}, Cancel(q) PROVE PlaceInv'
    BY <1>2, PlaceFrame DEF Cancel, coreVars, replyVars, logVars
  <1>3. CASE Worker
    <2>1. CASE Dequeue \/ ClearFlight \/ PushResponse
      BY <2>1, DequeuePlace, ClearPlace, PushPlace
    <2>2. CASE ~ (Dequeue \/ ClearFlight \/ PushResponse)
      <3>1. UNCHANGED <<cur, responseQ, pending, delivered, lost, finished>>
        BY <1>3, <2>2 DEF Worker, BeginFlight, StartRequest, BuildContext, LlmReturn, RunTools,
           Complete, Disarm, FailureTrace, PublishReply, replyVars, logVars
      <3> QED BY <3>1, PlaceFrame
    <2> QED BY <2>1, <2>2
  <1>4. CASE UNCHANGED vars
    BY <1>4, PlaceFrame DEF vars, coreVars, replyVars, logVars
  <1> QED BY <1>1, <1>2, <1>3, <1>4 DEF Next

\* No response is lost or handed out twice, however receivers for other ids,
\* timeouts and failing allocations interleave with the worker: it is in one
\* place from the moment the request is taken.
THEOREM NoResponseIsLostOrDoubled == Spec => []ResponseExactlyOnce
  <1>1. PlaceInv => ResponseExactlyOnce
    BY DEF PlaceInv, ResponseExactlyOnce, Places, Ended
  <1> QED BY <1>1, TypeInit, TypeStep, OrderInit, OrderStep, PlaceInit, PlaceStep, PTL
      DEF Spec
-----------------------------------------------------------------------------
(* The session's records: err, which the append of the turn overwrites, is   *)
(* ESP_OK whenever the turn was stored.                                      *)

RecordInv ==
    /\ pc \in {"begin", "start", "context", "llm", "tools", "complete"} =>
          err = "ok" /\ sessionLog[cur] = <<>>
    /\ pc \in {"disarm", "clear", "trace"} => err = "ok" \/ sessionLog[cur] = <<>>
    /\ \A r \in Requests : sessionLog[r] # <<>> => cur = r \/ Ended(r)
    /\ OneRecordPerRequest

LEMMA RecordInit == Init => RecordInv
  BY DEF Init, RecordInv, OneRecordPerRequest

LEMMA RecordFrame ==
    ASSUME RecordInv, UNCHANGED <<pc, err, cur, sessionLog, finished>>
    PROVE  RecordInv'
  BY DEF RecordInv, OneRecordPerRequest, Ended

\* A first record, while the request is still the worker's.
LEMMA FirstRecord ==
    ASSUME TypeInv, RecordInv, NEW what \in {"turn", "failure"}, Remember(what),
           sessionLog[cur] = <<>>, pc # "idle", UNCHANGED <<cur, finished>>
    PROVE  /\ \A r \in Requests : sessionLog'[r] # <<>> => cur' = r \/ Ended(r)'
           /\ OneRecordPerRequest'
  <1>1. sessionLog \in [Requests -> Seq({"turn", "failure"})] /\ cur \in Requests
    BY DEF TypeInv, TypeOK
  <1>2. sessionLog'[cur] = Append(<<>>, what) /\ Len(Append(<<>>, what)) = 1
    BY <1>1 DEF Remember
  <1>3. \A r \in Requests : r # cur => sessionLog'[r] = sessionLog[r]
    BY <1>1 DEF Remember
  <1>4. \A r : Ended(r)' = Ended(r)
    BY DEF Ended
  <1>5. \A r \in Requests : sessionLog'[r] # <<>> => cur' = r \/ Ended(r)'
    BY <1>3, <1>4 DEF RecordInv
  <1>6. \A r \in Requests : Len(sessionLog'[r]) <= 1
    <2>1. Len(sessionLog'[cur]) <= 1
      BY <1>2
    <2> QED BY <1>3, <2>1 DEF RecordInv, OneRecordPerRequest
  <1> QED BY <1>5, <1>6 DEF OneRecordPerRequest

LEMMA CompleteRecord == ASSUME TypeInv, RecordInv, Complete PROVE RecordInv'
  <1>1. /\ pc = "complete" /\ pc' = "disarm" /\ UNCHANGED <<cur, finished>>
        /\ err = "ok" /\ sessionLog[cur] = <<>>
    BY DEF Complete, Goto, RecordInv
  <1>2. CASE Remember("turn") /\ UNCHANGED err
    BY <1>1, <1>2, FirstRecord DEF RecordInv
  <1>3. CASE UNCHANGED sessionLog
    BY <1>1, <1>3 DEF RecordInv, OneRecordPerRequest, Ended
  <1> QED BY <1>2, <1>3 DEF Complete

LEMMA TraceRecord == ASSUME TypeInv, RecordInv, FailureTrace PROVE RecordInv'
  <1>1. pc = "trace" /\ pc' = "publish" /\ UNCHANGED <<cur, err, finished>>
    BY DEF FailureTrace, Goto
  <1>2. CASE NeedsFailureNote /\ Remember("failure")
    <2>1. sessionLog[cur] = <<>>
      BY <1>1, <1>2 DEF RecordInv, NeedsFailureNote
    <2> QED BY <1>1, <1>2, <2>1, FirstRecord DEF RecordInv
  <1>3. CASE UNCHANGED sessionLog
    BY <1>1, <1>3 DEF RecordInv, OneRecordPerRequest, Ended
  <1> QED BY <1>2, <1>3 DEF FailureTrace

LEMMA RecordStep == TypeInv /\ OrderInv /\ RecordInv /\ [Next]_vars => RecordInv'
  <1> SUFFICES ASSUME TypeInv, OrderInv, RecordInv, [Next]_vars PROVE RecordInv'
    OBVIOUS
  <1>1. CASE UNCHANGED <<pc, err, cur, sessionLog, finished>>
    BY <1>1, RecordFrame
  <1>2. ASSUME NEW c \in Clients, ClientStep(c) PROVE RecordInv'
    BY <1>1, <1>2 DEF ClientStep, Submit, ReceiveBegin, ReceiveItem, ReceiveTimeout, coreVars,
       logVars
  <1>3. ASSUME NEW q \in Requests \cup {0}, Cancel(q) PROVE RecordInv'
    BY <1>1, <1>3 DEF Cancel, coreVars, logVars
  <1>4. CASE Dequeue
    <2>1. /\ cur = 0 /\ UNCHANGED <<finished, sessionLog>> /\ ~ Ended(cur')
          /\ pc' = "begin" /\ err' = "ok"
      BY <1>4, DequeuedIsNew DEF Dequeue, Goto, logVars
    <2>2. cur' \in Requests
      BY <1>4 DEF Dequeue, TypeInv, TypeOK
    <2>3. sessionLog[cur'] = <<>>
      BY <2>1, <2>2, ConstantsOK DEF RecordInv
    <2> QED BY <2>1, <2>3, ConstantsOK DEF RecordInv, OneRecordPerRequest, Ended
  <1>5. CASE BeginFlight \/ StartRequest \/ BuildContext \/ LlmReturn \/ RunTools \/ Disarm
    <2>1. UNCHANGED <<cur, sessionLog, finished>>
      BY <1>5 DEF BeginFlight, StartRequest, BuildContext, LlmReturn, RunTools, Disarm, logVars
    <2>2. CASE Disarm
      BY <2>1, <2>2 DEF Disarm, Goto, RecordInv, OneRecordPerRequest, Ended
    <2>3. CASE ~ Disarm
      <3>1. /\ pc \in {"begin", "start", "context", "llm", "tools"}
            /\ \/ pc' \in {"start", "context", "llm", "tools", "complete"} /\ err' = "ok"
               \/ pc' = "disarm"
        BY <1>5, <2>3 DEF BeginFlight, StartRequest, BuildContext, LlmReturn, RunTools, Fail,
           Goto, RecordInv
      <3> QED BY <2>1, <3>1 DEF RecordInv, OneRecordPerRequest, Ended
    <2> QED BY <2>2, <2>3
  <1>6. CASE ClearFlight
    <2>1. pc = "clear" /\ pc' = "trace" /\ UNCHANGED <<cur, err, sessionLog>>
      BY <1>6 DEF ClearFlight, Goto
    <2>2. \A r : Ended(r) => Ended(r)'
      <3>1. finished \in Seq(Response)
        BY DEF TypeInv, TypeOK
      <3>2. /\ Len(finished) \in Nat /\ DOMAIN finished' = 1 .. Len(finished')
            /\ Len(finished') = Len(finished) + 1
            /\ \A i \in 1 .. Len(finished) : finished'[i] = finished[i]
        <4>1. PICK resp : resp = [id |-> cur, reply |-> reply']
          OBVIOUS
        <4>2. finished \in Seq(Response \cup {resp}) /\ finished' = Append(finished, resp)
          BY <1>6, <3>1, <4>1 DEF ClearFlight
        <4> QED BY <4>2
      <3>3. \A i \in DOMAIN finished : i \in DOMAIN finished' /\ finished'[i] = finished[i]
        BY <3>1, <3>2
      <3> QED BY <3>3 DEF Ended
    <2> QED BY <2>1, <2>2 DEF RecordInv, OneRecordPerRequest
  <1>7. CASE PublishReply
    BY <1>7 DEF PublishReply, Goto, RecordInv, OneRecordPerRequest, Ended
  <1>8. CASE PushResponse
    <2>1. pc = "push" /\ pc' = "idle" /\ UNCHANGED <<sessionLog, finished>>
      BY <1>8 DEF PushResponse, Goto, logVars
    <2>2. Ended(cur)
      <3>1. Len(finished) > 0 /\ finished[Len(finished)].id = cur /\ finished \in Seq(Response)
        BY <2>1 DEF OrderInv, TypeInv, TypeOK
      <3>2. Len(finished) \in DOMAIN finished
        BY <3>1
      <3> QED BY <3>1, <3>2 DEF Ended
    <2> QED BY <2>1, <2>2 DEF RecordInv, OneRecordPerRequest, Ended
  <1>9. CASE UNCHANGED vars
    BY <1>1, <1>9 DEF vars, coreVars, logVars
  <1> QED BY <1>2, <1>3, <1>4, <1>5, <1>6, <1>7, <1>8, <1>9, CompleteRecord, TraceRecord
      DEF Next, Worker

\* A session holds the turn of a request or its failure note, never both.
THEOREM NeverTurnAndNote == Spec => []OneRecordPerRequest
  <1>1. RecordInv => OneRecordPerRequest
    BY DEF RecordInv
  <1> QED BY <1>1, TypeInit, TypeStep, OrderInit, OrderStep, RecordInit, RecordStep, PTL
      DEF Spec
=============================================================================
