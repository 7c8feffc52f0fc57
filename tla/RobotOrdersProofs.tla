-------------------------- MODULE RobotOrdersProofs -------------------------
(* Theorems about RobotOrders, for every set of requests and payments and     *)
(* every number of faults: on the way from a caller to a robot no order that  *)
(* answers for another overtakes it, and the composition keeps the promises   *)
(* of both its parts.                                                         *)
EXTENDS RobotOrders, SequenceTheorems, TLAPS

\* The types that TypeOK leaves to the two promises.
RelayTypes ==
    /\ call \in [Requests -> {"new", "handling", "handled", "answered", "dropped"}]
    /\ outcome \in [Requests -> {"none", "returned", "badPath", "panicked"}]
    /\ answer \in [Requests -> {"none", "returned", "badPath", "panicked"}]

MotionTypes ==
    /\ order \in [Requests -> [pay : Payments, job : BOOLEAN]]
    /\ \A r \in Requests : ~order[r].job
    /\ proof \in [Requests -> {"none", "x402", "mpp"}]
    /\ taken \subseteq Payments /\ taker \in [Requests -> SUBSET {"x402", "mpp"}]
    /\ end \in [Requests -> {"pending", "receipt", "refused", "lost"}]

\* Each process but the first was preceded by an exit, which is a fault.
Budget == IF up THEN faults + session <= MaxFaults ELSE faults + session < MaxFaults

Types == TypeOK /\ RelayTypes /\ MotionTypes /\ Budget

\* What the handler of an order has done to its payment, by where the order is.
Handler(r) ==
    /\ call[r] \in {"new", "handling"} => end[r] # "lost" /\ outcome[r] = "none"
    /\ call[r] = "handled" => end[r] # "pending"
    /\ end[r] = "receipt" => taker[r] # {}
    /\ call[r] \in {"handled", "answered"} =>
          /\ outcome[r] # "none"
          /\ outcome[r] = "returned" => end[r] \in {"receipt", "refused"}
          /\ outcome[r] = "badPath" => acts[r] = 0 /\ taker[r] = {}
    /\ call[r] = "answered" => answer[r] = outcome[r]

HandlerInv == \A r \in Requests : Handler(r)

\* A payment is taken by one order.
LedgerInv ==
    /\ \A r \in Requests : taker[r] # {} => order[r].pay \in taken
    /\ \A r, s \in Requests :
          taker[r] # {} /\ taker[s] # {} /\ order[r].pay = order[s].pay => r = s

\* f was answered before e was sent, and the session had the means to keep them in order.
Late(e, f) == f.req \in after[e.req] /\ e.session = f.session

InOrder(seq) == \A i, j \in DOMAIN seq : i < j => ~Late(seq[i], seq[j])

\* Who has an answer has acted, if ever, and whoever is on the topic or was obeyed has acted:
\* what will yet be put on the topic is not answered.
AskedInv ==
    /\ \A r \in Requests : call[r] # "new" => r \in asked
    /\ \A r \in Requests : acts[r] = 1 => call[r] # "new"
    /\ \A r, s \in Requests : s \in after[r] => call[s] = "answered"
    /\ \A i \in DOMAIN obeyed : acts[obeyed[i].req] = 1
    /\ \A s \in Sessions : \A k \in DOMAIN topic[s] :
           acts[topic[s][k].req] = 1 /\ topic[s][k].session = s

\* In each session's stream, among the obeyed, and from the obeyed to the streams.
OrderInv ==
    /\ InOrder(obeyed)
    /\ \A s \in Sessions : InOrder(topic[s])
    /\ \A s \in Sessions : \A i \in DOMAIN obeyed, k \in DOMAIN topic[s] :
           ~Late(obeyed[i], topic[s][k])

OrdersInv == Types /\ HandlerInv /\ LedgerInv /\ AskedInv /\ OrderInv
-----------------------------------------------------------------------------
(* Types and handlers *)

LEMMA OrdersTypeInit == Init => Types
<1> SUFFICES ASSUME Init PROVE Types
  OBVIOUS
<1> USE DEF Init, Relay!Init, Motion!Init
<1>1. /\ up \in BOOLEAN /\ acts \in [Requests -> {0, 1}]
      /\ asked \subseteq Requests /\ after \in [Requests -> SUBSET Requests]
      /\ listening \in BOOLEAN
  BY Zenon
<1>2. session \in Sessions /\ faults \in 0..MaxFaults /\ Budget
  BY OrdersAssumption DEF Sessions, Budget
<1>3. topic \in [Sessions -> Seq(Puts)] /\ obeyed \in Seq(Puts)
  BY EmptySeq
<1>4. /\ moved = {r \in Requests : acts[r] = 1}
      /\ \A r \in Requests : call[r] = "handled" => end[r] # "pending"
  OBVIOUS
<1>5. TypeOK
  BY <1>1, <1>2, <1>3, <1>4, Zenon DEF TypeOK
<1>6. RelayTypes /\ MotionTypes
  BY DEF RelayTypes, MotionTypes
<1> QED BY <1>2, <1>5, <1>6 DEF Types

LEMMA OrdersHandlerInit == Init => HandlerInv
  BY DEF Init, Relay!Init, Motion!Init, HandlerInv, Handler

\* A step that puts nothing on the topic and takes nothing from it.
LEMMA QuietTypes == ASSUME Types, topic' = topic, obeyed' = obeyed
                    PROVE  topic' \in [Sessions -> Seq(Puts)] /\ obeyed' \in Seq(Puts)
  BY Zenon DEF Types, TypeOK

\* The steps of tunnel and router that put nothing on the topic.
Quiet(r) ==
    Ask(r) \/ Dispatch(r) \/ Serve(r) \/ Return(r) \/ Panic(r) \/ BadPath(r) \/ Respond(r)

LEMMA QuietFrame == ASSUME NEW r \in Requests, Quiet(r)
                    PROVE  /\ UNCHANGED <<topic, obeyed, session, listening, faults, acts, moved, up>>
                           /\ Ask(r) \/ UNCHANGED <<asked, after>>
<1> USE DEF bridge, relay, motion
<1>1. CASE Ask(r)
  BY <1>1 DEF Ask
<1>2. CASE Dispatch(r) \/ Respond(r)
  BY <1>2 DEF Dispatch, Respond, Relay!Accept, Relay!Deliver, Relay!Drop
<1>3. CASE Serve(r)
  BY <1>3 DEF Serve, Motion!Prove, Motion!TakeFirst, Motion!TakeLast, Motion!Refuse, Motion!Receipt
<1>4. CASE Return(r) \/ Panic(r)
  BY <1>4 DEF Return, Panic, Relay!Handle
<1>5. CASE BadPath(r)
  BY <1>5 DEF BadPath, Relay!Handle, Motion!Refuse
<1> QED BY <1>1, <1>2, <1>3, <1>4, <1>5 DEF Quiet


\* The steps of the handler: only its own order notices them.
LEMMA ServeStep == ASSUME Types, HandlerInv, NEW r \in Requests, Serve(r)
                   PROVE  MotionTypes' /\ HandlerInv'
<1>1. call[r] = "handling" /\ UNCHANGED <<up, call, acts, outcome, answer>> /\ ~order[r].job
  BY DEF Serve, relay, Types, MotionTypes
<1>2. /\ \/ proof' = proof
         \/ \E protocol \in {"x402", "mpp"} : proof' = [proof EXCEPT ![r] = protocol]
      /\ \/ taker' = taker /\ taken' = taken
         \/ /\ \E protocol \in {"x402", "mpp"} : taker' = [taker EXCEPT ![r] = {protocol}]
            /\ taken' = taken \cup {order[r].pay}
      /\ \/ end' = end
         \/ end' = [end EXCEPT ![r] = "refused"]
         \/ end' = [end EXCEPT ![r] = "receipt"] /\ taker'[r] # {}
      /\ order' = order
  <2> USE DEF Types, MotionTypes
  <2>1. CASE Motion!Prove(r)
    BY <2>1 DEF Motion!Prove
  <2>2. CASE Motion!TakeFirst(r)
    BY <2>2 DEF Motion!TakeFirst, Motion!Take, Motion!End
  <2>3. CASE Motion!TakeLast(r)
    BY <2>3 DEF Motion!TakeLast, Motion!Take, Motion!End
  <2>4. CASE Motion!Refuse(r) \/ Motion!Receipt(r)
    BY <1>1, <2>4 DEF Motion!Refuse, Motion!Receipt, Motion!End
  <2> QED BY <2>1, <2>2, <2>3, <2>4 DEF Serve
<1>3. proof' \in [Requests -> {"none", "x402", "mpp"}]
  BY <1>2 DEF Types, MotionTypes
<1>4. taken' \subseteq Payments /\ taker' \in [Requests -> SUBSET {"x402", "mpp"}]
  BY <1>2 DEF Types, MotionTypes
<1>5. end' \in [Requests -> {"pending", "receipt", "refused", "lost"}]
  BY <1>2 DEF Types, MotionTypes
<1>6. MotionTypes'
  BY <1>2, <1>3, <1>4, <1>5 DEF Types, MotionTypes
<1>7. ASSUME NEW s \in Requests PROVE Handler(s)'
  <2>1. CASE s # r
    <3>1. end'[s] = end[s] /\ taker'[s] = taker[s]
      BY <1>2, <2>1 DEF Types, MotionTypes
    <3> QED BY <1>1, <3>1 DEF HandlerInv, Handler
  <2>2. CASE s = r
    <3>1. end'[r] # "lost"
      BY <1>1, <1>2 DEF Types, MotionTypes, HandlerInv, Handler
    <3>2. end'[r] = "receipt" => taker'[r] # {}
      <4>1. end[r] = "receipt" => taker[r] # {}
        BY DEF HandlerInv, Handler
      <4>2. taker[r] # {} => taker'[r] # {}
        <5>1. ASSUME NEW protocol, taker' = [taker EXCEPT ![r] = {protocol}]
              PROVE  protocol \in taker'[r]
          BY <5>1 DEF Types, MotionTypes
        <5> QED BY <1>2, <5>1
      <4> QED BY <1>2, <4>1, <4>2 DEF Types, MotionTypes
    <3> QED BY <1>1, <2>2, <3>1, <3>2 DEF HandlerInv, Handler
  <2> QED BY <2>1, <2>2
<1> QED BY <1>6, <1>7 DEF HandlerInv

\* A step of one order that nothing else notices.
LEMMA QuietStep == ASSUME Types, HandlerInv, NEW r \in Requests, Quiet(r)
                   PROVE  Types' /\ HandlerInv'
<1>1. /\ UNCHANGED <<topic, obeyed, session, listening, faults, acts, moved, up>>
      /\ Ask(r) \/ UNCHANGED <<asked, after>>
  BY QuietFrame
<1>2. topic' \in [Sessions -> Seq(Puts)] /\ obeyed' \in Seq(Puts)
  BY <1>1, QuietTypes
<1>3. asked' \subseteq Requests /\ after' \in [Requests -> SUBSET Requests]
  BY <1>1 DEF Ask, Types, TypeOK
<1>4. /\ session' \in Sessions /\ faults' \in 0..MaxFaults /\ up' \in BOOLEAN /\ listening' \in BOOLEAN
      /\ acts' \in [Requests -> {0, 1}] /\ moved' = {s \in Requests : acts'[s] = 1}
  BY <1>1, Zenon DEF Types, TypeOK
<1>5. Budget'
  BY <1>1 DEF Types, Budget
<1>6. RelayTypes' /\ MotionTypes' /\ HandlerInv'
  <2> USE DEF Types, RelayTypes, MotionTypes, HandlerInv, Handler, relay, motion
  <2>1. CASE Ask(r)
    BY <2>1 DEF Ask
  <2>2. CASE Dispatch(r)
    BY <2>2 DEF Dispatch, Relay!Accept, Relay!Move
  <2>3. CASE Serve(r)
    BY <2>3, ServeStep DEF Serve
  <2>4. CASE Return(r)
    BY <2>4 DEF Return, Relay!Handle, Relay!Move
  <2>5. CASE Panic(r)
    BY <2>5 DEF Panic, Relay!Handle, Relay!Move
  <2>6. CASE BadPath(r)
    BY <2>6 DEF BadPath, Relay!Handle, Relay!Move, Motion!Refuse, Motion!End
  <2>7. CASE Respond(r)
    <3>1. CASE Relay!Deliver(r)
      BY <2>7, <3>1 DEF Respond, Relay!Deliver, Relay!Move
    <3>2. CASE Relay!Drop(r)
      BY <2>7, <3>2 DEF Respond, Relay!Drop, Relay!Move
    <3> QED BY <2>7, <3>1, <3>2 DEF Respond
  <2> QED BY <2>1, <2>2, <2>3, <2>4, <2>5, <2>6, <2>7 DEF Quiet
<1>7. TypeOK'
  BY <1>2, <1>3, <1>4, <1>6, Zenon DEF TypeOK, HandlerInv, Handler
<1> QED BY <1>5, <1>6, <1>7 DEF Types

\* Only the handler that takes a payment touches the ledger, and it takes a new one.
LEMMA LedgerStep == ASSUME Types, LedgerInv, [Next]_vars PROVE LedgerInv'
<1> USE DEF relay, motion, bridge
<1>1. ASSUME NEW r \in Requests, Serve(r), order' = order, taker' # taker
      PROVE  LedgerInv'
  <2>1. PICK protocol \in {"x402", "mpp"} : Motion!Take(r, protocol)
    BY <1>1 DEF Serve, Motion!Prove, Motion!TakeFirst, Motion!TakeLast, Motion!Refuse,
       Motion!Receipt
  <2>2. /\ order[r].pay \notin taken /\ taken' = taken \cup {order[r].pay}
        /\ taker' = [taker EXCEPT ![r] = {protocol}]
    BY <2>1 DEF Motion!Take
  <2>3. \A s \in Requests : s # r => taker'[s] = taker[s]
    BY <2>2 DEF Types, MotionTypes
  <2> QED BY <1>1, <2>2, <2>3 DEF LedgerInv
<1>2. CASE UNCHANGED <<order, taken, taker>>
  BY <1>2 DEF LedgerInv
<1>3. ASSUME NEW r \in Requests, Serve(r)
      PROVE  order' = order /\ (taker' = taker => taken' = taken)
  <2>1. CASE Motion!Prove(r) \/ Motion!Refuse(r) \/ Motion!Receipt(r)
    BY <2>1 DEF Motion!Prove, Motion!Refuse, Motion!Receipt
  <2>2. ASSUME NEW protocol \in {"x402", "mpp"}, Motion!Take(r, protocol) PROVE taker' # taker
    BY <2>2 DEF Motion!Take, Types, MotionTypes
  <2>3. CASE Motion!TakeFirst(r) \/ Motion!TakeLast(r)
    BY <2>2, <2>3 DEF Motion!TakeFirst, Motion!TakeLast
  <2> QED BY <1>3, <2>1, <2>3 DEF Serve
<1>4. ASSUME NEW r \in Requests, Serve(r) PROVE LedgerInv'
  BY <1>1, <1>2, <1>3, <1>4
<1>5. ASSUME NEW r \in Requests,
             Ask(r) \/ Dispatch(r) \/ Publish(r) \/ Return(r) \/ Panic(r) \/ BadPath(r) \/ Respond(r)
      PROVE  UNCHANGED <<order, taken, taker>>
  BY <1>5 DEF Ask, Dispatch, Publish, Return, Panic, BadPath, Respond, Motion!Move, Motion!Refuse
<1>6. ASSUME Exit \/ Restart \/ BridgeStops \/ BridgeStarts \/ \E s \in Sessions : Obey(s)
      PROVE  UNCHANGED <<order, taken, taker>>
  BY <1>6 DEF Exit, Restart, BridgeStops, BridgeStarts, Obey
<1>7. CASE UNCHANGED vars
  BY <1>2, <1>7 DEF vars
<1> QED BY <1>2, <1>4, <1>5, <1>6, <1>7 DEF Next

-----------------------------------------------------------------------------
(* The order of the stream *)

\* One order of the action to publish, appended to the stream of the session if anybody listens.
LEMMA PublishStep == ASSUME Types, HandlerInv, NEW r \in Requests, Publish(r)
                     PROVE  Types' /\ HandlerInv'
<1> USE DEF relay, motion
<1>1. /\ call[r] = "handling" /\ acts[r] = 0 /\ acts' = [acts EXCEPT ![r] = 1]
      /\ moved' = moved \cup {r} /\ Put(r)
      /\ UNCHANGED <<up, call, outcome, answer, order, proof, taken, taker, end, asked, after,
                     session, listening, obeyed, faults>>
  BY DEF Publish, Relay!Act, Motion!Move
<1>2. topic' \in [Sessions -> Seq(Puts)]
  <2>1. session \in Sessions /\ topic \in [Sessions -> Seq(Puts)]
    BY DEF Types, TypeOK
  <2>2. [req |-> r, session |-> session] \in Puts
    BY <2>1 DEF Puts
  <2>3. Append(topic[session], [req |-> r, session |-> session]) \in Seq(Puts)
    BY <2>1, <2>2, AppendProperties
  <2> QED BY <1>1, <2>1, <2>3 DEF Put
<1>3. acts' \in [Requests -> {0, 1}] /\ moved' = {s \in Requests : acts'[s] = 1}
  BY <1>1 DEF Types, TypeOK
<1>4. HandlerInv'
  BY <1>1 DEF HandlerInv, Handler, Types, TypeOK
<1>5. RelayTypes' /\ MotionTypes' /\ Budget'
  BY <1>1 DEF Types, RelayTypes, MotionTypes, Budget
<1>6. TypeOK'
  BY <1>1, <1>2, <1>3 DEF Types, TypeOK
<1> QED BY <1>4, <1>5, <1>6 DEF Types

\* What is left of a stream when the process ends.
LEMMA Prefix == ASSUME NEW S, NEW seq \in Seq(S), NEW n \in 0..Len(seq)
                PROVE  /\ SubSeq(seq, 1, n) \in Seq(S) /\ Len(SubSeq(seq, 1, n)) = n
                       /\ \A i \in 1..n : i \in DOMAIN seq /\ SubSeq(seq, 1, n)[i] = seq[i]
<1>1. Len(seq) \in Nat /\ DOMAIN seq = 1..Len(seq) /\ \A i \in 1..n : seq[i] \in S
  BY LenProperties, ElementOfSeq
<1> QED BY <1>1, SubSeqProperties

LEMMA ExitTypes == ASSUME Types, HandlerInv, Exit
                   PROVE  Types' /\ HandlerInv'
<1>1. /\ up /\ up' = FALSE /\ faults > 0 /\ faults' = faults - 1
      /\ call' = [r \in Requests |->
                    IF call[r] \in {"handling", "handled"} THEN "dropped" ELSE call[r]]
      /\ end' = [r \in Requests |->
                   IF call[r] = "handling" /\ end[r] = "pending" THEN "lost" ELSE end[r]]
      /\ UNCHANGED <<acts, outcome, answer, order, proof, moved, taken, taker, asked, after,
                     session, listening, obeyed>>
  BY DEF Exit, Fault, Relay!Exit
<1>2. topic' \in [Sessions -> Seq(Puts)]
  <2>1. PICK n \in 0..Len(topic[session]) : topic' = [topic EXCEPT ![session] = SubSeq(@, 1, n)]
    BY DEF Exit
  <2>2. session \in Sessions /\ topic \in [Sessions -> Seq(Puts)]
    BY DEF Types, TypeOK
  <2>3. SubSeq(topic[session], 1, n) \in Seq(Puts)
    BY <2>2, Prefix
  <2> QED BY <2>1, <2>2, <2>3
<1>3. HandlerInv'
  BY <1>1 DEF HandlerInv, Handler
<1>4. RelayTypes'
  BY <1>1 DEF Types, RelayTypes
<1>5. MotionTypes'
  BY <1>1 DEF Types, MotionTypes
<1>6. faults' \in 0..MaxFaults /\ Budget'
  BY <1>1, OrdersAssumption DEF Types, TypeOK, Budget, Sessions
<1>7. TypeOK'
  BY <1>1, <1>2, <1>3, <1>6 DEF Types, TypeOK, HandlerInv, Handler
<1> QED BY <1>3, <1>4, <1>5, <1>6, <1>7 DEF Types

\* The restart of the tunnel, and the bridge.
LEMMA OtherTypes ==
    ASSUME Types, HandlerInv,
           Restart \/ BridgeStops \/ BridgeStarts \/ \E s \in Sessions : Obey(s)
    PROVE  Types' /\ HandlerInv'
<1> USE DEF relay, motion, bridge
<1>1. UNCHANGED <<call, acts, outcome, answer, order, proof, moved, taken, taker, end, asked, after>>
  BY DEF Restart, BridgeStops, BridgeStarts, Obey, Relay!Restart
<1>2. RelayTypes' /\ MotionTypes' /\ HandlerInv'
  BY <1>1 DEF Types, RelayTypes, MotionTypes, HandlerInv, Handler
<1>3. up' \in BOOLEAN /\ listening' \in BOOLEAN
  BY Zenon DEF Restart, Relay!Restart, BridgeStops, BridgeStarts, Obey, Types, TypeOK
<1>4. session' \in Sessions /\ faults' \in 0..MaxFaults /\ Budget'
  <2>1. faults \in 0..MaxFaults /\ session \in 0..MaxFaults /\ MaxFaults \in Nat
    BY OrdersAssumption DEF Types, TypeOK, Sessions
  <2>2. CASE Restart
    <3>1. ~up /\ up' /\ session' = session + 1 /\ faults' = faults
      BY <2>2 DEF Restart, Relay!Restart
    <3>2. faults + session < MaxFaults
      BY <3>1 DEF Types, Budget
    <3> QED BY <2>1, <3>1, <3>2 DEF Budget, Sessions
  <2>3. CASE BridgeStops
    <3>1. up' = up /\ session' = session /\ faults > 0 /\ faults' = faults - 1
      BY <2>3 DEF BridgeStops, Fault
    <3> QED BY <2>1, <3>1 DEF Types, Budget, Sessions
  <2>4. CASE BridgeStarts \/ \E s \in Sessions : Obey(s)
    BY <2>4 DEF BridgeStarts, Obey, Types, TypeOK, Budget
  <2> QED BY <2>2, <2>3, <2>4
<1>5. topic' \in [Sessions -> Seq(Puts)] /\ obeyed' \in Seq(Puts)
  <2>1. CASE Restart \/ BridgeStarts
    BY <2>1, QuietTypes DEF Restart, BridgeStarts
  <2>2. CASE BridgeStops
    BY <2>2, EmptySeq DEF BridgeStops, Types, TypeOK
  <2>3. ASSUME NEW s \in Sessions, Obey(s)
        PROVE  topic' \in [Sessions -> Seq(Puts)] /\ obeyed' \in Seq(Puts)
    <3>1. topic \in [Sessions -> Seq(Puts)] /\ obeyed \in Seq(Puts) /\ topic[s] # <<>>
      BY <2>3 DEF Obey, Types, TypeOK
    <3>2. Head(topic[s]) \in Puts /\ Tail(topic[s]) \in Seq(Puts)
      BY <3>1, HeadTailProperties
    <3> QED BY <2>3, <3>1, <3>2, AppendProperties DEF Obey
  <2> QED BY <2>1, <2>2, <2>3
<1>6. TypeOK'
  BY <1>1, <1>2, <1>3, <1>4, <1>5 DEF HandlerInv, Handler, Types, TypeOK
<1> QED BY <1>2, <1>4, <1>6 DEF Types

LEMMA PutOf == ASSUME NEW seq \in Seq(Puts), NEW k \in DOMAIN seq
               PROVE  seq[k] \in Puts /\ seq[k].req \in Requests
<1>1. seq[k] \in Puts
  BY LenProperties, ElementOfSeq
<1> QED BY <1>1 DEF Puts

\* Nothing is late in a stream because of what does not change: who is on the topic and who was
\* obeyed stay where they are, no answer is taken back and no order is unsent.
LEMMA StreamFrame ==
    ASSUME AskedInv, OrderInv, UNCHANGED <<topic, obeyed>>,
           \A i \in DOMAIN obeyed : after'[obeyed[i].req] = after[obeyed[i].req],
           \A s \in Sessions : \A k \in DOMAIN topic[s] :
               after'[topic[s][k].req] = after[topic[s][k].req]
    PROVE  OrderInv'
<1>1. InOrder(obeyed)'
  BY DEF OrderInv, InOrder, Late
<1>2. ASSUME NEW s \in Sessions PROVE InOrder(topic[s])'
  BY DEF OrderInv, InOrder, Late
<1>3. ASSUME NEW s \in Sessions, NEW i \in DOMAIN obeyed, NEW k \in DOMAIN topic[s]
      PROVE  ~Late(obeyed[i], topic[s][k])'
  BY DEF OrderInv, Late
<1> QED BY <1>1, <1>2, <1>3 DEF OrderInv

\* What an order knows of others is fixed when it is asked, before it can be on the topic.
LEMMA QuietOrder == ASSUME Types, HandlerInv, AskedInv, OrderInv, NEW r \in Requests, Quiet(r)
                    PROVE  AskedInv' /\ OrderInv'
<1>1. /\ UNCHANGED <<topic, obeyed, session, acts>>
      /\ Ask(r) \/ UNCHANGED <<asked, after>>
  BY QuietFrame
<1>2. CASE Ask(r)
  <2>1. /\ UNCHANGED call /\ r \notin asked /\ asked' = asked \cup {r}
        /\ after' = [after EXCEPT ![r] = {s \in Requests : call[s] = "answered"}]
    BY <1>2 DEF Ask, relay
  <2>2. acts[r] = 0 /\ after \in [Requests -> SUBSET Requests]
    BY <2>1 DEF AskedInv, Types, TypeOK
  <2>3. \A i \in DOMAIN obeyed : obeyed[i].req # r
    BY <2>2 DEF AskedInv
  <2>4. \A s \in Sessions : \A k \in DOMAIN topic[s] : topic[s][k].req # r
    BY <2>2 DEF AskedInv
  <2>5. OrderInv'
    BY <1>1, <2>1, <2>2, <2>3, <2>4, StreamFrame
  <2> QED BY <1>1, <2>1, <2>2, <2>5 DEF AskedInv
<1>3. CASE UNCHANGED <<asked, after>>
  <2>1. /\ \A s \in Requests : call'[s] # "new" => s \in asked
        /\ \A s \in Requests : call[s] # "new" => call'[s] # "new"
        /\ \A s \in Requests : call[s] = "answered" => call'[s] = "answered"
    <3> USE DEF relay, motion, Types, RelayTypes, AskedInv
    <3>1. CASE Ask(r)
      BY <3>1 DEF Ask
    <3>2. CASE Dispatch(r)
      BY <3>2 DEF Dispatch, Relay!Accept, Relay!Move
    <3>3. CASE Serve(r)
      BY <3>3 DEF Serve
    <3>4. CASE Return(r) \/ Panic(r) \/ BadPath(r)
      BY <3>4 DEF Return, Panic, BadPath, Relay!Handle, Relay!Move
    <3>5. CASE Respond(r)
      BY <3>5 DEF Respond, Relay!Deliver, Relay!Drop, Relay!Move
    <3> QED BY <3>1, <3>2, <3>3, <3>4, <3>5 DEF Quiet
  <2>2. OrderInv'
    BY <1>1, <1>3, StreamFrame
  <2> QED BY <1>1, <1>3, <2>1, <2>2 DEF AskedInv
<1> QED BY <1>1, <1>2, <1>3

\* What is put on the topic is not answered, and so late to nothing.
LEMMA PublishOrder == ASSUME Types, AskedInv, OrderInv, NEW r \in Requests, Publish(r)
                      PROVE  AskedInv' /\ OrderInv'
<1> DEFINE put == [req |-> r, session |-> session]
<1>1. /\ call[r] = "handling" /\ acts' = [acts EXCEPT ![r] = 1] /\ Put(r)
      /\ UNCHANGED <<call, asked, after, obeyed>>
  BY DEF Publish, Relay!Act
<1>2. /\ session \in Sessions /\ topic \in [Sessions -> Seq(Puts)] /\ put \in Puts
      /\ acts \in [Requests -> {0, 1}] /\ \A s \in Sessions : topic[s] \in Seq(Puts)
  BY DEF Types, TypeOK, Puts
<1>3. \A i \in DOMAIN obeyed : obeyed[i].req \in Requests
  <2>1. obeyed \in Seq(Puts)
    BY DEF Types, TypeOK
  <2> QED BY <2>1, PutOf
<1>4. \A s \in Sessions : Append(topic[s], put) \in Seq(Puts)
  BY <1>2, AppendProperties
<1>5. \A e \in Puts : ~Late(e, put)
  BY <1>1 DEF Late, AskedInv, Puts
<1>6. ASSUME NEW s \in Sessions
      PROVE  /\ InOrder(topic'[s])
             /\ \A i \in DOMAIN obeyed, k \in DOMAIN topic'[s] : ~Late(obeyed[i], topic'[s][k])
             /\ \A k \in DOMAIN topic'[s] : /\ topic'[s][k].session = s
                                            /\ topic'[s][k].req = r \/ acts[topic'[s][k].req] = 1
  <2>1. CASE topic'[s] = topic[s]
    BY <2>1 DEF OrderInv, AskedInv
  <2>2. CASE s = session /\ topic'[s] = Append(topic[s], put)
    <3>1. /\ Len(topic[s]) \in Nat /\ DOMAIN topic[s] = 1..Len(topic[s])
          /\ DOMAIN topic'[s] = 1..(Len(topic[s]) + 1)
          /\ \A k \in 1..Len(topic[s]) : topic'[s][k] = topic[s][k] /\ topic[s][k] \in Puts
          /\ topic'[s][Len(topic[s]) + 1] = put
      BY <1>2, <2>2, AppendProperties, LenProperties, ElementOfSeq
    <3>2. InOrder(topic[s])
      BY DEF OrderInv
    <3>3. InOrder(topic'[s])
      <4> SUFFICES ASSUME NEW i \in DOMAIN topic'[s], NEW j \in DOMAIN topic'[s], i < j
                   PROVE  ~Late(topic'[s][i], topic'[s][j])
        BY DEF InOrder
      <4>1. i \in 1..Len(topic[s]) /\ (j \in 1..Len(topic[s]) \/ j = Len(topic[s]) + 1)
        BY <3>1
      <4> QED BY <1>5, <3>1, <3>2, <4>1 DEF InOrder
    <3>4. ASSUME NEW i \in DOMAIN obeyed, NEW k \in DOMAIN topic'[s]
          PROVE  ~Late(obeyed[i], topic'[s][k])
      <4>1. obeyed[i] \in Puts
        BY LenProperties, ElementOfSeq DEF Types, TypeOK
      <4>2. k \in 1..Len(topic[s]) \/ k = Len(topic[s]) + 1
        BY <3>1
      <4> QED BY <1>5, <3>1, <4>1, <4>2 DEF OrderInv
    <3>5. ASSUME NEW k \in DOMAIN topic'[s]
          PROVE  topic'[s][k].session = s /\ (topic'[s][k].req = r \/ acts[topic'[s][k].req] = 1)
      <4>1. k \in 1..Len(topic[s]) \/ k = Len(topic[s]) + 1
        BY <3>1
      <4> QED BY <2>2, <3>1, <4>1 DEF AskedInv
    <3> QED BY <3>3, <3>4, <3>5
  <2> QED BY <1>1, <1>2, <2>1, <2>2 DEF Put
<1>7. ASSUME NEW s \in Sessions, NEW k \in DOMAIN topic'[s]
      PROVE  topic'[s][k].req \in Requests
  <2>1. topic'[s] = topic[s] \/ topic'[s] = Append(topic[s], put)
    BY <1>1, <1>2 DEF Put
  <2>2. topic'[s] \in Seq(Puts)
    BY <1>2, <1>4, <2>1
  <2> QED BY <2>2, PutOf
<1>8. AskedInv'
  <2>1. \A s \in Sessions : \A k \in DOMAIN topic'[s] :
            acts'[topic'[s][k].req] = 1 /\ topic'[s][k].session = s
    BY <1>1, <1>2, <1>6, <1>7
  <2>2. \A i \in DOMAIN obeyed : acts'[obeyed[i].req] = 1
    BY <1>1, <1>2, <1>3 DEF AskedInv
  <2>3. \A s \in Requests : acts'[s] = 1 => call[s] # "new"
    BY <1>1, <1>2 DEF AskedInv
  <2> QED BY <1>1, <2>1, <2>2, <2>3 DEF AskedInv
<1>9. OrderInv'
  BY <1>1, <1>6 DEF OrderInv, InOrder, Late
<1> QED BY <1>8, <1>9

\* The process ends: a stream loses its end, and no answer is taken back.
LEMMA ExitOrder == ASSUME Types, AskedInv, OrderInv, Exit
                   PROVE  AskedInv' /\ OrderInv'
<1>1. /\ call' = [r \in Requests |->
                    IF call[r] \in {"handling", "handled"} THEN "dropped" ELSE call[r]]
      /\ UNCHANGED <<acts, asked, after, obeyed>>
  BY DEF Exit, Relay!Exit
<1>2. PICK n \in 0..Len(topic[session]) : topic' = [topic EXCEPT ![session] = SubSeq(@, 1, n)]
  BY DEF Exit
<1>3. session \in Sessions /\ topic \in [Sessions -> Seq(Puts)]
  BY DEF Types, TypeOK
<1>4. ASSUME NEW s \in Sessions
      PROVE  \A k \in DOMAIN topic'[s] : k \in DOMAIN topic[s] /\ topic'[s][k] = topic[s][k]
  <2>1. CASE s # session
    BY <1>2, <1>3, <2>1
  <2>2. CASE s = session
    <3>1. topic'[s] = SubSeq(topic[s], 1, n) /\ topic[s] \in Seq(Puts)
      BY <1>2, <1>3, <2>2
    <3>2. /\ SubSeq(topic[s], 1, n) \in Seq(Puts) /\ Len(SubSeq(topic[s], 1, n)) = n
          /\ \A i \in 1..n : i \in DOMAIN topic[s] /\ SubSeq(topic[s], 1, n)[i] = topic[s][i]
      BY <1>2, <2>2, <3>1, Prefix
    <3>3. DOMAIN topic'[s] = 1..n
      BY <3>1, <3>2, LenProperties
    <3> QED BY <3>1, <3>2, <3>3
  <2> QED BY <2>1, <2>2
<1>5. AskedInv'
  <2>1. /\ \A r \in Requests : call'[r] # "new" => r \in asked
        /\ \A r \in Requests : acts[r] = 1 => call'[r] # "new"
        /\ \A r, s \in Requests : s \in after[r] => call'[s] = "answered"
    BY <1>1 DEF AskedInv
  <2>2. \A s \in Sessions : \A k \in DOMAIN topic'[s] :
            acts[topic'[s][k].req] = 1 /\ topic'[s][k].session = s
    BY <1>4 DEF AskedInv
  <2> QED BY <1>1, <2>1, <2>2 DEF AskedInv
<1>6. OrderInv'
  <2>1. InOrder(obeyed)'
    BY <1>1 DEF OrderInv, InOrder, Late
  <2>2. ASSUME NEW s \in Sessions PROVE InOrder(topic[s])'
    <3>1. InOrder(topic[s])
      BY DEF OrderInv
    <3> QED BY <1>1, <1>4, <3>1 DEF InOrder, Late
  <2>3. ASSUME NEW s \in Sessions
        PROVE  \A i \in DOMAIN obeyed, k \in DOMAIN topic'[s] : ~Late(obeyed[i], topic'[s][k])
    BY <1>4 DEF OrderInv
  <2> QED BY <1>1, <2>1, <2>2, <2>3 DEF OrderInv, Late
<1> QED BY <1>5, <1>6

\* The bridge obeys the first of a stream, to which none of the rest is late.
LEMMA ObeyOrder == ASSUME Types, AskedInv, OrderInv, NEW s \in Sessions, Obey(s)
                   PROVE  AskedInv' /\ OrderInv'
<1>1. /\ topic[s] # <<>> /\ obeyed' = Append(obeyed, Head(topic[s]))
      /\ topic' = [topic EXCEPT ![s] = Tail(@)] /\ UNCHANGED <<call, acts, asked, after>>
  BY DEF Obey, relay
<1>2. /\ topic \in [Sessions -> Seq(Puts)] /\ obeyed \in Seq(Puts) /\ topic[s] \in Seq(Puts)
  BY DEF Types, TypeOK
<1>3. Len(topic[s]) \in Nat /\ Len(topic[s]) # 0 /\ DOMAIN topic[s] = 1..Len(topic[s])
  BY <1>1, <1>2, EmptySeq, LenProperties
<1>4. /\ Head(topic[s]) = topic[s][1] /\ topic[s][1] \in Puts /\ 1 \in DOMAIN topic[s]
      /\ topic[s][1].session = s /\ acts[topic[s][1].req] = 1
  BY <1>1, <1>2, <1>3, ElementOfSeq DEF AskedInv
<1>5. /\ Len(obeyed) \in Nat /\ DOMAIN obeyed = 1..Len(obeyed)
      /\ DOMAIN obeyed' = 1..(Len(obeyed) + 1)
      /\ \A i \in 1..Len(obeyed) : obeyed'[i] = obeyed[i]
      /\ obeyed'[Len(obeyed) + 1] = topic[s][1]
  BY <1>1, <1>2, <1>4, AppendProperties, LenProperties
<1>6. \A k \in DOMAIN topic'[s] : /\ k + 1 \in DOMAIN topic[s] /\ k \in Nat \ {0}
                                   /\ topic'[s][k] = topic[s][k + 1]
  <2>1. topic'[s] = Tail(topic[s])
    BY <1>1, <1>2
  <2>2. /\ Tail(topic[s]) \in Seq(Puts) /\ Len(Tail(topic[s])) = Len(topic[s]) - 1
        /\ \A i \in 1..Len(Tail(topic[s])) : Tail(topic[s])[i] = topic[s][i + 1]
    BY <1>1, <1>2, HeadTailProperties
  <2>3. DOMAIN topic'[s] = 1..(Len(topic[s]) - 1)
    BY <2>1, <2>2, LenProperties
  <2> QED BY <1>3, <2>1, <2>2, <2>3
<1>7. \A t \in Sessions : t # s => topic'[t] = topic[t]
  BY <1>1, <1>2
<1>8. AskedInv'
  <2>1. ASSUME NEW t \in Sessions, NEW k \in DOMAIN topic'[t]
        PROVE  acts[topic'[t][k].req] = 1 /\ topic'[t][k].session = t
    BY <1>6, <1>7 DEF AskedInv
  <2>2. ASSUME NEW i \in DOMAIN obeyed' PROVE acts[obeyed'[i].req] = 1
    <3>1. i \in 1..Len(obeyed) \/ i = Len(obeyed) + 1
      BY <1>5
    <3> QED BY <1>4, <1>5, <3>1 DEF AskedInv
  <2> QED BY <1>1, <2>1, <2>2 DEF AskedInv
<1>9. InOrder(obeyed')
  <2> SUFFICES ASSUME NEW i \in DOMAIN obeyed', NEW j \in DOMAIN obeyed', i < j
               PROVE  ~Late(obeyed'[i], obeyed'[j])
    BY DEF InOrder
  <2>1. i \in 1..Len(obeyed) /\ (j \in 1..Len(obeyed) \/ j = Len(obeyed) + 1)
    BY <1>5
  <2>2. CASE j \in 1..Len(obeyed)
    BY <1>5, <2>1, <2>2 DEF OrderInv, InOrder
  <2>3. CASE j = Len(obeyed) + 1
    BY <1>4, <1>5, <2>1, <2>3 DEF OrderInv
  <2> QED BY <2>1, <2>2, <2>3
<1>10. ASSUME NEW t \in Sessions PROVE InOrder(topic'[t])
  <2>1. InOrder(topic[t])
    BY DEF OrderInv
  <2>2. CASE t # s
    BY <1>7, <2>1, <2>2
  <2>3. CASE t = s
    <3> SUFFICES ASSUME NEW i \in DOMAIN topic'[s], NEW j \in DOMAIN topic'[s], i < j
                 PROVE  ~Late(topic'[s][i], topic'[s][j])
      BY <2>3 DEF InOrder
    <3>1. i + 1 < j + 1
      BY <1>6
    <3> QED BY <1>6, <2>1, <2>3, <3>1 DEF InOrder
  <2> QED BY <2>2, <2>3
<1>11. ASSUME NEW t \in Sessions, NEW i \in DOMAIN obeyed', NEW k \in DOMAIN topic'[t]
       PROVE  ~Late(obeyed'[i], topic'[t][k])
  <2>1. CASE i \in 1..Len(obeyed)
    <3>1. CASE t # s
      BY <1>5, <1>7, <2>1, <3>1 DEF OrderInv
    <3>2. CASE t = s
      BY <1>5, <1>6, <2>1, <3>2 DEF OrderInv
    <3> QED BY <3>1, <3>2
  <2>2. CASE i = Len(obeyed) + 1
    <3>1. CASE t # s
      <4>1. topic'[t][k].session = t
        BY <1>7, <3>1 DEF AskedInv
      <4> QED BY <1>4, <1>5, <2>2, <3>1, <4>1 DEF Late
    <3>2. CASE t = s
      <4>1. 1 < k + 1 /\ InOrder(topic[s])
        BY <1>6, <3>2 DEF OrderInv
      <4> QED BY <1>4, <1>5, <1>6, <2>2, <3>2, <4>1 DEF InOrder
    <3> QED BY <3>1, <3>2
  <2> QED BY <1>5, <2>1, <2>2
<1>12. OrderInv'
  <2>1. InOrder(obeyed)'
    BY <1>1, <1>9 DEF InOrder, Late
  <2>2. \A t \in Sessions : InOrder(topic[t])'
    BY <1>1, <1>10 DEF InOrder, Late
  <2>3. \A t \in Sessions : \A i \in DOMAIN obeyed', k \in DOMAIN topic'[t] :
            ~Late(obeyed[i], topic[t][k])'
    BY <1>1, <1>11 DEF Late
  <2> QED BY <2>1, <2>2, <2>3 DEF OrderInv
<1> QED BY <1>8, <1>12

\* A restart of the tunnel opens a new stream, and a stop of the bridge empties them all.
LEMMA OtherOrder == ASSUME Types, AskedInv, OrderInv, Restart \/ BridgeStops \/ BridgeStarts
                    PROVE  AskedInv' /\ OrderInv'
<1> USE DEF relay, motion, bridge
<1>1. UNCHANGED <<call, acts, asked, after, obeyed>>
  BY DEF Restart, BridgeStops, BridgeStarts, Relay!Restart
<1>2. CASE Restart \/ BridgeStarts
  <2>1. topic' = topic
    BY <1>2 DEF Restart, BridgeStarts
  <2>2. OrderInv'
    BY <1>1, <2>1, StreamFrame
  <2> QED BY <1>1, <2>1, <2>2 DEF AskedInv
<1>3. CASE BridgeStops
  <2>1. \A s \in Sessions : topic'[s] = <<>>
    BY <1>3 DEF BridgeStops
  <2>2. \A s \in Sessions : DOMAIN topic'[s] = {}
    BY <2>1
  <2>3. AskedInv'
    BY <1>1, <2>2 DEF AskedInv
  <2>4. OrderInv'
    BY <1>1, <2>2 DEF OrderInv, InOrder, Late
  <2> QED BY <2>3, <2>4
<1> QED BY <1>2, <1>3

-----------------------------------------------------------------------------
(* Theorems *)

LEMMA OrdersInvInit == Init => OrdersInv
<1> SUFFICES ASSUME Init PROVE OrdersInv
  OBVIOUS
<1>1. Types /\ HandlerInv
  BY OrdersTypeInit, OrdersHandlerInit
<1>2. LedgerInv
  BY DEF Init, Motion!Init, LedgerInv
<1>3. AskedInv
  BY DEF Init, Relay!Init, AskedInv
<1>4. OrderInv
  BY DEF Init, OrderInv, InOrder
<1> QED BY <1>1, <1>2, <1>3, <1>4 DEF OrdersInv

LEMMA OrdersInvStep == OrdersInv /\ [Next]_vars => OrdersInv'
<1> SUFFICES ASSUME OrdersInv, [Next]_vars PROVE OrdersInv'
  OBVIOUS
<1> USE DEF OrdersInv
<1>0. LedgerInv'
  BY LedgerStep
<1>1. ASSUME NEW r \in Requests, Quiet(r) PROVE OrdersInv'
  BY <1>0, <1>1, QuietStep, QuietOrder
<1>2. ASSUME NEW r \in Requests, Publish(r) PROVE OrdersInv'
  BY <1>0, <1>2, PublishStep, PublishOrder
<1>3. CASE Exit
  BY <1>0, <1>3, ExitTypes, ExitOrder
<1>4. CASE Restart \/ BridgeStops \/ BridgeStarts
  BY <1>0, <1>4, OtherTypes, OtherOrder
<1>5. ASSUME NEW s \in Sessions, Obey(s) PROVE OrdersInv'
  BY <1>0, <1>5, OtherTypes, ObeyOrder
<1>6. CASE UNCHANGED vars
  <2>1. /\ UNCHANGED <<up, call, acts, outcome, answer, order, proof, moved, taken, taker, end>>
        /\ UNCHANGED <<asked, after, session, topic, listening, obeyed, faults>>
    BY <1>6 DEF vars, relay, motion, bridge
  <2>2. Types'
    <3>1. TypeOK'
      BY <2>1, Zenon DEF Types, TypeOK
    <3> QED BY <2>1, <3>1 DEF Types, RelayTypes, MotionTypes, Budget
  <2>3. HandlerInv'
    BY <2>1 DEF HandlerInv, Handler
  <2>4. AskedInv'
    BY <2>1 DEF AskedInv
  <2>5. OrderInv'
    BY <2>1, StreamFrame
  <2> QED BY <1>0, <2>2, <2>3, <2>4, <2>5
<1> QED BY <1>1, <1>2, <1>3, <1>4, <1>5, <1>6 DEF Next, Quiet

\* The inductive invariant of the composition: what each order's handler has done, and that
\* nothing on the topic or obeyed is late to what comes after it.
THEOREM OrdersInvCorrect == Spec => []OrdersInv
BY OrdersInvInit, OrdersInvStep, PTL DEF Spec

\* Type correctness; what moved is what the tunnel counts as an action, and a handler that has
\* returned has ended its order.
THEOREM OrdersTypeCorrect == Spec => []TypeOK
<1>1. OrdersInv => TypeOK
  BY DEF OrdersInv, Types
<1> QED BY <1>1, OrdersInvCorrect, PTL

\* The robot obeys an order before the ones its caller sent after its answer, as long as the
\* tunnel lives (client.go:289, handlers.go:127-144, node.py:40-48).
THEOREM AnsweredOrdersKept == Spec => []OrderKept
<1>1. OrdersInv => OrderKept
  BY DEF OrdersInv, OrderInv, InOrder, Late, OrderKept
<1> QED BY <1>1, OrdersInvCorrect, PTL

\* What a caller is told of its order is so: a rejected path cost and moved nothing, an answer
\* that returned is of an order that ended, unpaid motion was refused or panicked, and no
\* payment gets two receipts (main.go:201-250, client.go:293-357).
THEOREM AnswersExplained == Spec => []AnswerExplained
<1>1. ASSUME OrdersInv, NEW r \in Requests, call[r] = "answered"
      PROVE  /\ answer[r] = "badPath" => r \notin moved /\ taker[r] = {}
             /\ answer[r] = "returned" => end[r] \in {"receipt", "refused"}
             /\ r \in moved /\ taker[r] = {} => answer[r] = "panicked" \/ end[r] = "refused"
             /\ end[r] = "receipt" => taker[r] # {}
  <2>1. r \in moved <=> acts[r] = 1
    BY <1>1 DEF OrdersInv, Types, TypeOK
  <2>2. Handler(r)
    BY <1>1 DEF OrdersInv, HandlerInv
  <2>3. outcome[r] \in {"returned", "badPath", "panicked"} /\ answer[r] = outcome[r]
    BY <1>1, <2>2 DEF OrdersInv, Types, RelayTypes, Handler
  <2> QED BY <1>1, <2>1, <2>2, <2>3 DEF Handler
<1>2. OrdersInv => AnswerExplained
  BY <1>1 DEF OrdersInv, LedgerInv, AnswerExplained
<1> QED BY <1>2, OrdersInvCorrect, PTL

\* The composition does to a request what the tunnel promises, and nothing else: bridge, router
\* and faults come in no order that the promise excludes.
THEOREM OrdersKeepRelay == Spec => Relay!RelaySpec
<1> USE DEF relay, bridge, Relay!rvars
<1>1. Init => Relay!Init
  BY DEF Init
<1>2. [Next]_vars => [Relay!Next]_(Relay!rvars)
  <2> SUFFICES ASSUME [Next]_vars PROVE Relay!Next \/ UNCHANGED Relay!rvars
    OBVIOUS
  <2>1. ASSUME NEW r \in Requests, Dispatch(r) \/ Publish(r) \/ Respond(r) PROVE Relay!Next
    BY <2>1 DEF Dispatch, Publish, Respond, Relay!Next
  <2>2. ASSUME NEW r \in Requests, Return(r) \/ Panic(r) \/ BadPath(r) PROVE Relay!Next
    BY <2>2 DEF Return, Panic, BadPath, Relay!Next
  <2>3. ASSUME NEW r \in Requests, Ask(r) \/ Serve(r) PROVE UNCHANGED Relay!rvars
    BY <2>3 DEF Ask, Serve
  <2>4. CASE Exit \/ Restart
    BY <2>4 DEF Exit, Restart, Relay!Next
  <2>5. CASE BridgeStops \/ BridgeStarts \/ \E s \in Sessions : Obey(s)
    BY <2>5 DEF BridgeStops, BridgeStarts, Obey
  <2>6. CASE UNCHANGED vars
    BY <2>6 DEF vars
  <2> QED BY <2>1, <2>2, <2>3, <2>4, <2>5, <2>6 DEF Next
<1> QED BY <1>1, <1>2, PTL DEF Spec, Relay!RelaySpec

\* A process that ends or a handler that panics loses the orders it was serving, and no others.
LEMMA LosesPending == ASSUME MotionTypes, Exit \/ \E r \in Requests : Panic(r)
                      PROVE  Motion!Lose \/ UNCHANGED Motion!vars
<1> USE DEF MotionTypes, Motion!Lose, Motion!vars
<1>1. CASE Exit
  <2> DEFINE R == {r \in Requests : call[r] = "handling" /\ end[r] = "pending"}
  <2>1. /\ end' = [r \in Requests |-> IF r \in R THEN "lost" ELSE end[r]]
        /\ UNCHANGED <<order, proof, moved, taken, taker>>
    BY <1>1 DEF Exit
  <2>2. R \in SUBSET {r \in Requests : end[r] = "pending"}
    OBVIOUS
  <2> HIDE DEF R
  <2> QED BY <2>1, <2>2
<1>2. ASSUME NEW r \in Requests, Panic(r) PROVE Motion!Lose \/ UNCHANGED Motion!vars
  <2>1. UNCHANGED <<order, proof, moved, taken, taker>>
    BY <1>2 DEF Panic
  <2>2. CASE end[r] = "pending"
    <3>1. end' = [s \in Requests |-> IF s \in {r} THEN "lost" ELSE end[s]]
      BY <1>2, <2>2 DEF Panic
    <3>2. {r} \in SUBSET {s \in Requests : end[s] = "pending"}
      BY <2>2
    <3> QED BY <2>1, <3>1, <3>2
  <2>3. CASE end[r] # "pending"
    <3>1. end' = end
      BY <1>2, <2>3 DEF Panic
    <3> QED BY <2>1, <3>1
  <2> QED BY <2>2, <2>3
<1> QED BY <1>1, <1>2

\* And it does to motion and money what the router promises, for orders with a price: an exit of
\* the process and a panic lose orders that are pending.
THEOREM OrdersKeepMotion == Spec => Motion!Spec
<1> USE DEF relay, motion, bridge
<1>1. Init => Motion!Init
  BY DEF Init
<1>2. OrdersInv /\ [Next]_vars => [Motion!Next]_(Motion!vars)
  <2> SUFFICES ASSUME OrdersInv, [Next]_vars PROVE Motion!Next \/ UNCHANGED Motion!vars
    OBVIOUS
  <2>1. ASSUME NEW r \in Requests, Ask(r) \/ Dispatch(r) \/ Return(r) \/ Respond(r)
        PROVE  UNCHANGED Motion!vars
    BY <2>1 DEF Ask, Dispatch, Return, Respond, Motion!vars
  <2>2. ASSUME NEW r \in Requests, Serve(r) PROVE Motion!Next
    BY <2>2 DEF Serve, Motion!Next
  <2>3. ASSUME NEW r \in Requests, Publish(r) \/ BadPath(r) PROVE Motion!Next
    BY <2>3 DEF Publish, BadPath, Motion!Next
  <2>4. CASE Exit \/ \E r \in Requests : Panic(r)
    BY <2>4, LosesPending DEF OrdersInv, Types, Motion!Next
  <2>5. CASE Restart \/ BridgeStops \/ BridgeStarts \/ \E s \in Sessions : Obey(s)
    BY <2>5 DEF Restart, BridgeStops, BridgeStarts, Obey, Motion!vars
  <2>6. CASE UNCHANGED vars
    BY <2>6 DEF vars, Motion!vars
  <2> QED BY <2>1, <2>2, <2>3, <2>4, <2>5, <2>6 DEF Next
<1> QED BY <1>1, <1>2, OrdersInvCorrect, PTL DEF Spec, Motion!Spec
=============================================================================
