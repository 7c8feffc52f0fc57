----------------------------- MODULE RobotOrders ----------------------------
(***************************************************************************)
(* The whole way of an order from a caller to a robot: the tunnel, the     *)
(* router and the bridge, composed of what the first two promise.          *)
(* RequestRelay and PaidMotion share the process and the handler of each   *)
(* request: serving an order is a step of both.  TunnelClient implements   *)
(* the one and PaidAction the other.                                       *)
(*                                                                         *)
(* External: callers, which may wait for an answer before they send the    *)
(* next order or not, and Zenoh, which keeps the order of what one session *)
(* puts on the topic and of nothing else.                                  *)
(***************************************************************************)
EXTENDS Integers, Sequences

CONSTANTS
    Requests, Payments,
    MaxFaults   \* BOUND: exits of the tunnel and restarts of the bridge

ASSUME OrdersAssumption == MaxFaults \in Nat

VARIABLES
    up, call, acts, outcome, answer,            \* of RequestRelay
    order, proof, moved, taken, taker, end,     \* of PaidMotion
    asked,      \* orders sent
    after,      \* after[r]: the orders whose answer its caller had when it sent r
    session,    \* number of the tunnel's Zenoh session, one per process
    topic,      \* topic[s]: orders of session s that are still to be delivered
    listening,  \* the bridge subscribes to the topic
    obeyed,     \* the orders that the bridge has turned into a velocity, as they came
    faults      \* faults left of MaxFaults

relay == <<up, call, acts, outcome, answer>>
motion == <<order, proof, moved, taken, taker, end>>
bridge == <<topic, listening, obeyed>>
vars == <<relay, motion, asked, after, session, bridge, faults>>

Relay == INSTANCE RequestRelay
Motion == INSTANCE PaidMotion

Sessions == 0..MaxFaults
Puts == [req : Requests, session : Sessions]

TypeOK ==
    /\ up \in BOOLEAN /\ acts \in [Requests -> {0, 1}]
    /\ asked \subseteq Requests /\ after \in [Requests -> SUBSET Requests]
    /\ session \in Sessions /\ faults \in 0..MaxFaults
    /\ topic \in [Sessions -> Seq(Puts)] /\ listening \in BOOLEAN
    /\ obeyed \in Seq(Puts)
    /\ moved = {r \in Requests : acts[r] = 1}
    /\ \A r \in Requests : call[r] = "handled" => end[r] # "pending"

Init ==
    /\ Relay!Init
    /\ Motion!Init /\ \A r \in Requests : ~order[r].job
    /\ asked = {} /\ after = [r \in Requests |-> {}] /\ session = 0
    /\ topic = [s \in Sessions |-> <<>>] /\ listening = TRUE /\ obeyed = <<>>
    /\ faults = MaxFaults

Fault == faults > 0 /\ faults' = faults - 1

-----------------------------------------------------------------------------
(* Tunnel and router *)

Ask(r) ==
    /\ r \notin asked /\ asked' = asked \cup {r}
    /\ after' = [after EXCEPT ![r] = {s \in Requests : call[s] = "answered"}]
    /\ UNCHANGED <<relay, motion, session, bridge, faults>>

\* A goroutine of its own for each request, in the order the messages are read.
Dispatch(r) ==
    /\ r \in asked /\ Relay!Accept(r)
    /\ UNCHANGED <<motion, asked, after, session, bridge, faults>>

\* The steps of gate, middlewares and handler but the publication.
Serve(r) ==
    /\ up /\ call[r] = "handling"
    /\ \/ Motion!Prove(r) \/ Motion!TakeFirst(r) \/ Motion!TakeLast(r)
       \/ Motion!Refuse(r) \/ Motion!Receipt(r)
    /\ UNCHANGED <<relay, asked, after, session, bridge, faults>>

Put(r) ==
    topic' = IF listening THEN [topic EXCEPT ![session] = Append(@, [req |-> r, session |-> session])]
             ELSE topic

\* MUTANT: the handler publishes in the background and answers meanwhile.
PublishInBackground(r) ==
    /\ up /\ call[r] \in {"handling", "handled", "answered"}
    /\ acts[r] = 0 /\ acts' = [acts EXCEPT ![r] = 1] /\ proof[r] # "none" /\ moved' = moved \cup {r}
    /\ Put(r)
    /\ UNCHANGED <<up, call, outcome, answer, order, proof, taken, taker, end, asked, after,
                   session, listening, obeyed, faults>>

\* PublishRobotAction returns before PostAction answers.
Publish(r) ==
    /\ Relay!Act(r) /\ Motion!Move(r) /\ Put(r)
    /\ UNCHANGED <<asked, after, session, listening, obeyed, faults>>

\* MUTANT: the answer is not held back until the payment is settled.
ReturnEarly(r) ==
    /\ Relay!Handle(r, "returned")
    /\ UNCHANGED <<motion, asked, after, session, bridge, faults>>

Return(r) ==
    /\ end[r] # "pending" /\ Relay!Handle(r, "returned")
    /\ UNCHANGED <<motion, asked, after, session, bridge, faults>>

\* MUTANT: the recovered panic is not answered for.
PanicUnanswered(r) ==
    /\ Relay!Handle(r, "panicked") /\ UNCHANGED motion
    /\ UNCHANGED <<asked, after, session, bridge, faults>>

\* A panic anywhere in the handler: what it had still to do is not done.
Panic(r) ==
    /\ Relay!Handle(r, "panicked")
    /\ end' = [end EXCEPT ![r] = IF @ = "pending" THEN "lost" ELSE @]
    /\ UNCHANGED <<order, proof, moved, taken, taker, asked, after, session, bridge, faults>>

BadPath(r) ==
    /\ proof[r] = "none" /\ taker[r] = {} /\ Motion!Refuse(r) /\ Relay!Handle(r, "badPath")
    /\ UNCHANGED <<asked, after, session, bridge, faults>>

Respond(r) ==
    /\ Relay!Deliver(r) \/ Relay!Drop(r)
    /\ UNCHANGED <<motion, asked, after, session, bridge, faults>>

\* The process ends; what its session has not sent yet may be lost with it.
Exit ==
    /\ Relay!Exit /\ Fault
    /\ end' = [r \in Requests |->
                 IF call[r] = "handling" /\ end[r] = "pending" THEN "lost" ELSE end[r]]
    /\ \E n \in 0..Len(topic[session]) : topic' = [topic EXCEPT ![session] = SubSeq(@, 1, n)]
    /\ UNCHANGED <<order, proof, moved, taken, taker, asked, after, session, listening, obeyed>>

Restart ==
    /\ Relay!Restart /\ session' = session + 1
    /\ UNCHANGED <<motion, asked, after, bridge, faults>>

-----------------------------------------------------------------------------
(* Bridge *)

Obey(s) ==
    /\ listening /\ topic[s] # <<>>
    /\ obeyed' = Append(obeyed, Head(topic[s])) /\ topic' = [topic EXCEPT ![s] = Tail(@)]
    /\ UNCHANGED <<relay, motion, asked, after, session, listening, faults>>

\* Events that find no subscriber are lost.
BridgeStops ==
    /\ listening /\ listening' = FALSE /\ topic' = [s \in Sessions |-> <<>>] /\ Fault
    /\ UNCHANGED <<relay, motion, asked, after, session, obeyed>>

BridgeStarts ==
    /\ ~listening /\ listening' = TRUE
    /\ UNCHANGED <<relay, motion, asked, after, session, topic, obeyed, faults>>

Next ==
    \/ \E r \in Requests :
          \/ Ask(r) \/ Dispatch(r) \/ Serve(r) \/ Publish(r) \/ Return(r) \/ Panic(r)
          \/ BadPath(r) \/ Respond(r)
    \/ Exit \/ Restart \/ BridgeStops \/ BridgeStarts
    \/ \E s \in Sessions : Obey(s)

Spec == Init /\ [][Next]_vars

-----------------------------------------------------------------------------
(* Properties *)

\* client.go:289, handlers.go:127-144, node.py:40-48.  Every request has a goroutine of its
\* own, so a stop may overtake the order it was to end.  But not if its caller had the
\* answer to that order before it sent the stop, whatever else was on the way: the robot
\* obeys the two in this order, unless the tunnel was restarted between them.
OrderKept ==
    \A i, j \in DOMAIN obeyed :
        i < j /\ obeyed[j].req \in after[obeyed[i].req]
            => obeyed[i].session # obeyed[j].session

\* main.go:201-250, client.go:293-357.  What a caller is told of its order, over exits of the
\* process and lost answers of others.  A path that was rejected cost nothing and moved
\* nothing; an answer that returned is that of an order that ended; a motion never paid for
\* was answered as refused, or by a panic; and a receipt stands for a payment of its own:
\* no two callers get one for the same payment.
AnswerExplained ==
    /\ \A r \in Requests : call[r] = "answered" =>
          /\ answer[r] = "badPath" => r \notin moved /\ taker[r] = {}
          /\ answer[r] = "returned" => end[r] \in {"receipt", "refused"}
          /\ r \in moved /\ taker[r] = {} => answer[r] = "panicked" \/ end[r] = "refused"
    /\ \A r, s \in Requests :
          /\ call[r] = "answered" /\ answer[r] = "returned" /\ end[r] = "receipt"
          /\ call[s] = "answered" /\ answer[s] = "returned" /\ end[s] = "receipt"
          /\ order[r].pay = order[s].pay
          => r = s
=============================================================================
