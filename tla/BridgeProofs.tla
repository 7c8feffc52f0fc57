---------------------------- MODULE BridgeProofs ----------------------------
(* Theorems about Bridge, for every set of speeds, not a number among them,   *)
(* and every number of events.                                                *)
EXTENDS Bridge, SequenceTheorems, TLAPS

\* What an order comes to.
Velocity(e) == IF e \in Motions THEN Drives[e] ELSE Zero

\* The last velocity is that of the last event that was served.
TwistInv == twist = Velocity(served)

\* There are events only for a node that was built, and one that is still handled may outlive it.
LifeInv ==
    /\ topic # <<>> => life = "subscribed"
    /\ life = "new" => handling = "none" /\ served = "none" /\ last = "none"

\* Where the last order is: the last one on the topic, or else the one that is handled, or
\* else served.
LastInv ==
    life = "subscribed" /\ ok =>
        /\ \A k \in DOMAIN topic :
              /\ Understood(topic[k])
              /\ \A j \in DOMAIN topic : Understood(topic[j]) => j <= k
              => topic[k] = last
        /\ (\A k \in DOMAIN topic : ~Understood(topic[k])) =>
              last = IF handling # "none" /\ Understood(handling) THEN handling ELSE served

BridgeInv == TypeOK /\ TwistInv /\ LifeInv /\ LastInv

-----------------------------------------------------------------------------
(* Velocities *)

LEMMA ClampBounds == ASSUME NEW v \in Int \cup {NaN}, NEW hi \in Nat PROVE Clamp(v, 0, hi) \in 0..hi
<1>1. CASE v = NaN
  BY <1>1 DEF Clamp
<1>2. CASE v # NaN
  BY <1>2 DEF Clamp
<1> QED BY <1>1, <1>2

\* Every speed that is clamped is, whatever the parameters.
LEMMA SpeedBounds ==
    ASSUME TypeOK, NEW hi \in Nat
    PROVE  /\ Clamp(speeds.fwd, 0, hi) \in 0..hi /\ Clamp(speeds.bwd, 0, hi) \in 0..hi
           /\ Clamp(speeds.turnAng, 0, hi) \in 0..hi
<1>1. /\ speeds.fwd \in Int \cup {NaN} /\ speeds.bwd \in Int \cup {NaN}
      /\ speeds.turnAng \in Int \cup {NaN}
  BY BridgeAssumption DEF TypeOK
<1>2. Clamp(speeds.fwd, 0, hi) \in 0..hi
  BY <1>1, ClampBounds, Zenon
<1>3. Clamp(speeds.bwd, 0, hi) \in 0..hi
  BY <1>1, ClampBounds, Zenon
<1>4. Clamp(speeds.turnAng, 0, hi) \in 0..hi
  BY <1>1, ClampBounds, Zenon
<1> QED BY <1>2, <1>3, <1>4

\* The direction and the limits of each motion, of every robot that maps its speeds by Drive.
LEMMA DriveBounds ==
    ASSUME NEW fwd \in Int, NEW bwd \in Int, NEW x, NEW z \in Int,
           NEW forward \in Int, NEW turn \in Int,
           fwd \in 0..forward, bwd \in 0..5, z \in 0..turn, NEW m \in Motions
    PROVE  /\ Drive(fwd, bwd, x, z)[m].z \in Bounds(forward, turn)[m].z
           /\ \/ Drive(fwd, bwd, x, z)[m].x \in Bounds(forward, turn)[m].x
              \/ m \in {"turn_left", "turn_right"} /\ Drive(fwd, bwd, x, z)[m].x = x
           /\ m \in {"turn_left", "turn_right"} => Bounds(forward, turn)[m].x = {0}
           /\ DOMAIN Drive(fwd, bwd, x, z)[m] = {"x", "z"}
<1>1. CASE m = "forward"
  BY <1>1 DEF Drive, Bounds
<1>2. CASE m = "backward"
  BY <1>2 DEF Drive, Bounds
<1>3. CASE m = "turn_left"
  BY <1>3 DEF Drive, Bounds
<1>4. CASE m = "turn_right"
  BY <1>4 DEF Drive, Bounds
<1> QED BY <1>1, <1>2, <1>3, <1>4 DEF Motions

LEMMA RobotDrives ==
    ASSUME robot \in {"g1", "go2", "tron1"}
    PROVE  /\ robot = "g1" => Drives = G1
           /\ robot = "go2" => Drives = Go2
           /\ robot = "tron1" => Drives = Tron1
BY Zenon DEF Drives

\* What each robot may be driven at.
Limits == CASE robot = "g1" -> Bounds(10, 2)
            [] robot = "go2" -> Bounds(15, 10)
            [] robot = "tron1" -> Bounds(10, 5)

LEMMA RobotLimits ==
    ASSUME robot \in {"g1", "go2", "tron1"}
    PROVE  /\ robot = "g1" => Limits = Bounds(10, 2)
           /\ robot = "go2" => Limits = Bounds(15, 10)
           /\ robot = "tron1" => Limits = Bounds(10, 5)
BY Zenon DEF Limits

\* No mapper leaves the limits of its robot, but for the linear speed of a g1's turn.
LEMMA DrivesBounded ==
    ASSUME TypeOK, NEW m \in Motions
    PROVE  /\ Drives[m].z \in Limits[m].z
           /\ \/ Drives[m].x \in Limits[m].x
              \/ robot = "g1" /\ m \in {"turn_left", "turn_right"} /\ Drives[m].x = speeds.turnLin
           /\ DOMAIN Drives[m] = {"x", "z"}
<1>1. robot \in {"g1", "go2", "tron1"}
  BY BridgeAssumption DEF TypeOK
<1>2. CASE robot = "g1"
  <2> DEFINE fwd == Clamp(speeds.fwd, 0, 10)
             bwd == Clamp(speeds.bwd, 0, 5)
             z == Clamp(speeds.turnAng, 0, 2)
  <2>1. fwd \in 0..10 /\ bwd \in 0..5 /\ z \in 0..2
    BY SpeedBounds
  <2>2. Drives = Drive(fwd, bwd, speeds.turnLin, z) /\ Limits = Bounds(10, 2)
    BY <1>1, <1>2, RobotDrives, RobotLimits DEF G1
  <2> HIDE DEF fwd, bwd, z
  <2>3. /\ Drive(fwd, bwd, speeds.turnLin, z)[m].z \in Bounds(10, 2)[m].z
        /\ \/ Drive(fwd, bwd, speeds.turnLin, z)[m].x \in Bounds(10, 2)[m].x
           \/ /\ m \in {"turn_left", "turn_right"}
              /\ Drive(fwd, bwd, speeds.turnLin, z)[m].x = speeds.turnLin
        /\ m \in {"turn_left", "turn_right"} => Bounds(10, 2)[m].x = {0}
        /\ DOMAIN Drive(fwd, bwd, speeds.turnLin, z)[m] = {"x", "z"}
    BY <2>1, DriveBounds
  <2> QED BY <1>2, <2>2, <2>3
<1>3. CASE robot = "go2"
  <2> DEFINE fwd == Clamp(speeds.fwd, 0, 15)
             bwd == Clamp(speeds.bwd, 0, 5)
             z == Clamp(speeds.turnAng, 0, 10)
  <2>1. fwd \in 0..15 /\ bwd \in 0..5 /\ z \in 0..10
    BY SpeedBounds
  <2>2. Drives = Drive(fwd, bwd, 0, z) /\ Limits = Bounds(15, 10)
    BY <1>1, <1>3, RobotDrives, RobotLimits DEF Go2
  <2> HIDE DEF fwd, bwd, z
  <2>3. /\ Drive(fwd, bwd, 0, z)[m].z \in Bounds(15, 10)[m].z
        /\ \/ Drive(fwd, bwd, 0, z)[m].x \in Bounds(15, 10)[m].x
           \/ m \in {"turn_left", "turn_right"} /\ Drive(fwd, bwd, 0, z)[m].x = 0
        /\ m \in {"turn_left", "turn_right"} => Bounds(15, 10)[m].x = {0}
        /\ DOMAIN Drive(fwd, bwd, 0, z)[m] = {"x", "z"}
    BY <2>1, DriveBounds
  <2> QED BY <1>3, <2>2, <2>3
<1>4. CASE robot = "tron1"
  <2> DEFINE fwd == Clamp(speeds.fwd, 0, 10)
             bwd == Clamp(speeds.bwd, 0, 5)
             z == Clamp(speeds.turnAng, 0, 5)
  <2>1. fwd \in 0..10 /\ bwd \in 0..5 /\ z \in 0..5
    BY SpeedBounds
  <2>2. Drives = Drive(fwd, bwd, 0, z) /\ Limits = Bounds(10, 5)
    BY <1>1, <1>4, RobotDrives, RobotLimits DEF Tron1
  <2> HIDE DEF fwd, bwd, z
  <2>3. /\ Drive(fwd, bwd, 0, z)[m].z \in Bounds(10, 5)[m].z
        /\ \/ Drive(fwd, bwd, 0, z)[m].x \in Bounds(10, 5)[m].x
           \/ m \in {"turn_left", "turn_right"} /\ Drive(fwd, bwd, 0, z)[m].x = 0
        /\ m \in {"turn_left", "turn_right"} => Bounds(10, 5)[m].x = {0}
        /\ DOMAIN Drive(fwd, bwd, 0, z)[m] = {"x", "z"}
    BY <2>1, DriveBounds
  <2> QED BY <1>4, <2>2, <2>3
<1> QED BY <1>1, <1>2, <1>3, <1>4

-----------------------------------------------------------------------------
(* The inductive invariant *)

LEMMA BridgeInvInit == Init => BridgeInv
<1> SUFFICES ASSUME Init PROVE BridgeInv
  OBVIOUS
<1>1. topic \in Seq(Events) /\ budget \in 0..MaxEvents
  BY BridgeAssumption, EmptySeq DEF Init
<1>2. TypeOK
  BY <1>1 DEF Init, TypeOK, Zero
<1>3. TwistInv /\ LifeInv /\ LastInv
  BY DEF Init, TwistInv, Velocity, LifeInv, LastInv, Motions
<1> QED BY <1>2, <1>3 DEF BridgeInv

MainStep == CreatePublisher \/ Subscribe \/ Interrupt \/ Abort \/ Close \/ Destroy

LEMMA EmptyTopic == DOMAIN <<>> = {}
OBVIOUS

\* The main thread builds the node or takes it down, a signal shuts the context down, and
\* the callback is left alone.
LEMMA NodeStep == ASSUME BridgeInv, MainStep PROVE BridgeInv'
<1> USE DEF parameters, callback, MainStep
<1>1. /\ UNCHANGED <<robot, speeds, budget, handling, served, raised, twist, last>>
      /\ topic' = topic \/ topic' = <<>>
  BY DEF CreatePublisher, Subscribe, Interrupt, Abort, Close, Destroy
<1>2. /\ life' \in {"new", "subscribed", "undeclared", "destroyed"}
      /\ publisher' \in BOOLEAN /\ ok' \in BOOLEAN
      /\ life' \in {"subscribed", "undeclared"} => publisher'
  BY DEF CreatePublisher, Subscribe, Interrupt, Abort, Close, Destroy, BridgeInv, TypeOK
<1>3. TypeOK'
  <2>1. topic' \in Seq(Events)
    BY <1>1, EmptySeq DEF BridgeInv, TypeOK
  <2> QED BY <1>1, <1>2, <2>1 DEF BridgeInv, TypeOK
<1>4. TwistInv'
  BY <1>1 DEF BridgeInv, TwistInv, Velocity, Drives, G1, Go2, Tron1
<1>5. LifeInv' /\ LastInv'
  <2> USE DEF BridgeInv, LifeInv
  <2>1. CASE CreatePublisher \/ Interrupt \/ Abort \/ Close \/ Destroy
    <3>1. /\ life' = "new" => life = "new"
          /\ life' = "subscribed" => life = "subscribed" /\ topic' = topic
          /\ ok' => ok
          /\ topic' # <<>> => topic' = topic /\ life' = life
      BY <2>1 DEF CreatePublisher, Interrupt, Abort, Close, Destroy
    <3> QED BY <1>1, <3>1 DEF LastInv
  <2>2. CASE Subscribe
    <3>1. life = "new" /\ life' = "subscribed" /\ topic' = topic
      BY <2>2 DEF Subscribe
    <3>2. topic' = <<>> /\ handling' = "none" /\ served' = "none" /\ last' = "none"
      BY <1>1, <3>1
    <3> QED BY <3>1, <3>2, EmptyTopic DEF LastInv
  <2> QED BY <2>1, <2>2
<1> QED BY <1>3, <1>4, <1>5 DEF BridgeInv

\* The first event of the topic goes to the callback: the last order stays where it is, or is
\* the one that is handled.
LEMMA DeliverLast == ASSUME BridgeInv, Deliver PROVE LastInv'
<1> USE DEF parameters, node
<1>1. /\ topic \in Seq(Events) /\ topic # <<>> /\ handling = "none"
      /\ handling' = Head(topic) /\ topic' = Tail(topic)
      /\ UNCHANGED <<life, ok, served, last>>
  BY DEF Deliver, BridgeInv, TypeOK
<1>2. /\ Len(topic) \in Nat \ {0} /\ DOMAIN topic = 1..Len(topic)
      /\ Head(topic) = topic[1]
      /\ DOMAIN topic' = 1..(Len(topic) - 1)
      /\ \A k \in DOMAIN topic' : topic'[k] = topic[k + 1]
  BY <1>1, EmptySeq, LenProperties, HeadTailProperties
<1> SUFFICES ASSUME life = "subscribed", ok
             PROVE  /\ \A k \in DOMAIN topic' :
                          /\ Understood(topic'[k])
                          /\ \A j \in DOMAIN topic' : Understood(topic'[j]) => j <= k
                          => topic'[k] = last
                    /\ (\A k \in DOMAIN topic' : ~Understood(topic'[k])) =>
                          last = IF handling' # "none" /\ Understood(handling') THEN handling'
                                 ELSE served
  BY <1>1, Zenon DEF LastInv, Understood, ParseRaises, Dropped
<1>3. /\ \A k \in DOMAIN topic :
            /\ Understood(topic[k])
            /\ \A j \in DOMAIN topic : Understood(topic[j]) => j <= k
            => topic[k] = last
      /\ (\A k \in DOMAIN topic : ~Understood(topic[k])) => last = served
  BY <1>1 DEF BridgeInv, LastInv
<1>4. \A k \in DOMAIN topic : k = 1 \/ k - 1 \in DOMAIN topic'
  BY <1>2
<1>5. ASSUME NEW k \in DOMAIN topic', Understood(topic'[k]),
             \A j \in DOMAIN topic' : Understood(topic'[j]) => j <= k
      PROVE  topic'[k] = last
  <2>1. k + 1 \in DOMAIN topic /\ topic'[k] = topic[k + 1] /\ k \in Nat
    BY <1>2
  <2>2. ASSUME NEW j \in DOMAIN topic, Understood(topic[j]) PROVE j <= k + 1
    <3>1. CASE j = 1
      BY <2>1, <3>1
    <3>2. CASE j # 1
      <4>1. j - 1 \in DOMAIN topic' /\ topic'[j - 1] = topic[j]
        BY <1>2, <1>4, <3>2
      <4> QED BY <1>2, <1>5, <2>1, <2>2, <4>1
    <3> QED BY <3>1, <3>2
  <2> QED BY <1>3, <1>5, <2>1, <2>2
<1>6. ASSUME \A k \in DOMAIN topic' : ~Understood(topic'[k])
      PROVE  last = IF handling' # "none" /\ Understood(handling') THEN handling' ELSE served
  <2>1. \A k \in DOMAIN topic : k # 1 => ~Understood(topic[k])
    BY <1>2, <1>4, <1>6
  <2>2. 1 \in DOMAIN topic /\ topic[1] \in Events
    BY <1>1, <1>2, ElementOfSeq
  <2>3. topic[1] # "none"
    BY <2>2 DEF Events, Motions
  <2>4. CASE Understood(topic[1])
    BY <1>1, <1>2, <1>3, <2>1, <2>2, <2>3, <2>4
  <2>5. CASE ~Understood(topic[1])
    BY <1>1, <1>2, <1>3, <2>1, <2>5
  <2> QED BY <2>4, <2>5
<1> QED BY <1>5, <1>6

\* An order that reaches the subscriber is the last one on the topic.
LEMMA PublishLast == ASSUME BridgeInv, NEW e \in Events, Publish(e) PROVE LastInv'
<1> USE DEF parameters, node, callback
<1>1. /\ topic \in Seq(Events) /\ UNCHANGED <<life, ok, handling, served>>
      /\ topic' = IF life = "subscribed" THEN Append(topic, e) ELSE topic
      /\ last' = IF life = "subscribed" /\ Understood(e) THEN e ELSE last
  BY DEF Publish, BridgeInv, TypeOK
<1>2. SUFFICES ASSUME life = "subscribed", ok
               PROVE  /\ \A k \in DOMAIN topic' :
                            /\ Understood(topic'[k])
                            /\ \A j \in DOMAIN topic' : Understood(topic'[j]) => j <= k
                            => topic'[k] = last'
                      /\ (\A k \in DOMAIN topic' : ~Understood(topic'[k])) =>
                            last' = IF handling # "none" /\ Understood(handling) THEN handling
                                    ELSE served
  BY <1>1, Zenon DEF LastInv, Understood, ParseRaises, Dropped
<1>3. /\ Len(topic) \in Nat /\ DOMAIN topic = 1..Len(topic)
      /\ DOMAIN topic' = 1..(Len(topic) + 1) /\ topic'[Len(topic) + 1] = e
      /\ \A k \in 1..Len(topic) : topic'[k] = topic[k]
  BY <1>1, <1>2, AppendProperties, LenProperties
<1>4. /\ \A k \in DOMAIN topic :
            /\ Understood(topic[k])
            /\ \A j \in DOMAIN topic : Understood(topic[j]) => j <= k
            => topic[k] = last
      /\ (\A k \in DOMAIN topic : ~Understood(topic[k])) =>
            last = IF handling # "none" /\ Understood(handling) THEN handling ELSE served
  BY <1>2 DEF BridgeInv, LastInv
<1>5. CASE Understood(e)
  <2>1. last' = e /\ Len(topic) + 1 \in DOMAIN topic'
    BY <1>1, <1>2, <1>3, <1>5
  <2>2. ASSUME NEW k \in DOMAIN topic',
               \A j \in DOMAIN topic' : Understood(topic'[j]) => j <= k
        PROVE  topic'[k] = e
    BY <1>3, <1>5, <2>1, <2>2
  <2> QED BY <1>3, <1>5, <2>1, <2>2
<1>6. CASE ~Understood(e)
  <2>1. last' = last
    BY <1>1, <1>6
  <2>2. ASSUME NEW k \in DOMAIN topic', Understood(topic'[k]),
               \A j \in DOMAIN topic' : Understood(topic'[j]) => j <= k
        PROVE  topic'[k] = last
    <3>1. k \in DOMAIN topic /\ topic'[k] = topic[k]
      BY <1>3, <1>6, <2>2
    <3> QED BY <1>3, <1>4, <2>2, <3>1
  <2>3. (\A k \in DOMAIN topic' : ~Understood(topic'[k])) =>
            \A k \in DOMAIN topic : ~Understood(topic[k])
    BY <1>3
  <2> QED BY <1>4, <2>1, <2>2, <2>3
<1> QED BY <1>5, <1>6

\* An event is put on the topic, or taken from it.
LEMMA TopicStep == ASSUME BridgeInv, Deliver \/ \E e \in Events : Publish(e)
                   PROVE  BridgeInv'
<1> USE DEF parameters, node, callback
<1>1. UNCHANGED <<robot, speeds, life, publisher, ok, served, raised, twist>>
  BY DEF Deliver, Publish
<1>2. TwistInv'
  BY <1>1 DEF BridgeInv, TwistInv, Velocity, Drives, G1, Go2, Tron1
<1>3. /\ topic' \in Seq(Events) /\ budget' \in 0..MaxEvents /\ handling' \in Events \cup {"none"}
      /\ last' \in Events \cup {"none"} /\ LifeInv' /\ LastInv'
  <2>1. topic \in Seq(Events) /\ budget \in 0..MaxEvents /\ MaxEvents \in Nat
    BY BridgeAssumption DEF BridgeInv, TypeOK
  <2>2. CASE Deliver
    <3>1. Head(topic) \in Events /\ Tail(topic) \in Seq(Events)
      BY <2>1, <2>2, HeadTailProperties DEF Deliver
    <3> QED BY <1>1, <2>1, <2>2, <3>1, DeliverLast DEF Deliver, BridgeInv, LifeInv, TypeOK
  <2>3. ASSUME NEW e \in Events, Publish(e)
        PROVE  /\ topic' \in Seq(Events) /\ budget' \in 0..MaxEvents
               /\ handling' \in Events \cup {"none"} /\ last' \in Events \cup {"none"}
               /\ LifeInv' /\ LastInv'
    <3>1. topic' \in Seq(Events) /\ (topic' # <<>> => life = "subscribed")
      BY <2>1, <2>3, AppendProperties DEF Publish, BridgeInv, LifeInv
    <3>2. budget' \in 0..MaxEvents
      BY <2>1, <2>3 DEF Publish
    <3> QED BY <1>1, <2>3, <3>1, <3>2, PublishLast DEF Publish, BridgeInv, LifeInv, TypeOK
  <2> QED BY <2>2, <2>3
<1>4. TypeOK'
  BY <1>1, <1>3, Zenon DEF BridgeInv, TypeOK
<1> QED BY <1>2, <1>3, <1>4 DEF BridgeInv

\* The callback ends one event: it drives the robot as the event says, or leaves it as it is.
LEMMA CallbackStep == ASSUME BridgeInv, NEW e \in Events, Give(e) \/ Act(e)
                      PROVE  BridgeInv'
<1> USE DEF parameters, node
<1>1. /\ UNCHANGED <<robot, speeds, life, publisher, ok, topic, budget, last>>
      /\ handling = e /\ handling' = "none" /\ e # "none"
  BY DEF Give, Act, Events, Motions
<1>2. Drives' = Drives
  BY <1>1 DEF Drives, G1, Go2, Tron1
<1>3. life # "new"
  BY <1>1 DEF BridgeInv, LifeInv
<1>4. /\ served' \in Events \cup {"none"} /\ raised' \in {"no", "parse", "publish"}
      /\ DOMAIN twist' = {"x", "z"} /\ TwistInv'
      /\ served' = IF Understood(e) /\ publisher /\ ok THEN e ELSE served
  <2>1. CASE Give(e)
    BY <1>2, <2>1 DEF Give, BridgeInv, TypeOK, TwistInv, Velocity
  <2>2. CASE Act(e) /\ ~(publisher /\ ok)
    BY <1>2, <2>2 DEF Act, BridgeInv, TypeOK, TwistInv, Velocity
  <2>3. CASE Act(e) /\ publisher /\ ok
    <3>1. twist' = Map(Action(e)) /\ served' = e /\ raised' = "no" /\ Understood(e)
      BY <2>3 DEF Act
    <3>2. CASE e \in Motions
      <4>1. Action(e) = e
        BY <3>2 DEF Action, Motions
      <4>2. twist' = Drives[e]
        BY <3>1, <3>2, <4>1 DEF Map
      <4>3. DOMAIN Drives[e] = {"x", "z"}
        BY <3>2, DrivesBounded DEF BridgeInv
      <4> QED BY <1>2, <2>3, <3>1, <3>2, <4>2, <4>3 DEF TwistInv, Velocity
    <3>3. CASE e \notin Motions
      <4>1. Action(e) \notin Motions
        BY <3>3 DEF Action, Motions
      <4>2. twist' = Zero
        BY <3>1, <4>1 DEF Map
      <4> QED BY <2>3, <3>1, <3>3, <4>2 DEF TwistInv, Velocity, Zero
    <3> QED BY <3>2, <3>3
  <2> QED BY <2>1, <2>2, <2>3
<1>5. TypeOK'
  BY <1>1, <1>4, Zenon DEF BridgeInv, TypeOK
<1>6. LifeInv'
  BY <1>1, <1>3 DEF BridgeInv, LifeInv
<1>7. LastInv'
  <2>1. life = "subscribed" => publisher
    BY DEF BridgeInv, TypeOK
  <2> QED BY <1>1, <1>4, <2>1 DEF BridgeInv, LastInv, Understood, ParseRaises, Dropped
<1> QED BY <1>4, <1>5, <1>6, <1>7 DEF BridgeInv

LEMMA BridgeInvStep == BridgeInv /\ [Next]_vars => BridgeInv'
<1> SUFFICES ASSUME BridgeInv, [Next]_vars PROVE BridgeInv'
  OBVIOUS
<1>1. CASE MainStep
  BY <1>1, NodeStep
<1>2. CASE Deliver \/ \E e \in Events : Publish(e)
  BY <1>2, TopicStep
<1>3. ASSUME NEW e \in Events, Give(e) \/ Act(e) PROVE BridgeInv'
  BY <1>3, CallbackStep
<1>4. CASE UNCHANGED vars
  <2>1. UNCHANGED <<robot, speeds, life, publisher, ok, topic, budget, handling, served, raised,
                    twist, last>>
    BY <1>4 DEF vars, parameters, node, callback
  <2>2. TypeOK'
    BY <2>1, Zenon DEF BridgeInv, TypeOK
  <2>3. TwistInv'
    BY <2>1 DEF BridgeInv, TwistInv, Velocity, Drives, G1, Go2, Tron1
  <2>4. LifeInv' /\ LastInv'
    BY <2>1 DEF BridgeInv, LifeInv, LastInv, Understood, ParseRaises, Dropped
  <2> QED BY <2>2, <2>3, <2>4 DEF BridgeInv
<1> QED BY <1>1, <1>2, <1>3, <1>4 DEF Next, MainStep

-----------------------------------------------------------------------------
(* Theorems *)

\* The inductive invariant of the bridge: the life of the node, that the last velocity is the
\* one of the last event that was served, and where the last order is on its way to that.
THEOREM BridgeInvCorrect == Spec => []BridgeInv
BY BridgeInvInit, BridgeInvStep, PTL DEF Spec

\* Type correctness; a node that is subscribed, or was, has its publisher (node.py).
THEOREM BridgeTypeCorrect == Spec => []TypeOK
<1>1. BridgeInv => TypeOK
  BY DEF BridgeInv
<1> QED BY <1>1, BridgeInvCorrect, PTL

\* The robot moves only as the last order says and within its limits, whatever the parameters
\* (the mappers of the three adapters).
THEOREM RobotMovesAsOrdered == Spec => []MovesAsOrdered
<1>1. BridgeInv => MovesAsOrdered
  <2> SUFFICES ASSUME BridgeInv, twist # Zero
               PROVE  /\ served \in Motions
                      /\ twist.z \in Limits[served].z
                      /\ \/ twist.x \in Limits[served].x
                         \/ /\ robot = "g1" /\ served \in {"turn_left", "turn_right"}
                            /\ twist.x = speeds.turnLin
    BY Zenon DEF MovesAsOrdered, Limits
  <2>1. served \in Motions /\ twist = Drives[served]
    BY DEF BridgeInv, TwistInv, Velocity
  <2> QED BY <2>1, DrivesBounded DEF BridgeInv
<1> QED BY <1>1, BridgeInvCorrect, PTL

\* A robot whose callback has nothing left to do does what the last order said that reached the
\* subscriber, as long as no signal has come (node.py:29, 37-48).
THEOREM LastOrdersObeyed == Spec => []LastOrderObeyed
<1>1. BridgeInv => LastOrderObeyed
  <2> SUFFICES ASSUME BridgeInv, life = "subscribed", ok, topic = <<>>, handling = "none"
               PROVE  twist = IF last \in Motions THEN Drives[last] ELSE Zero
    BY DEF LastOrderObeyed
  <2>1. DOMAIN topic = {}
    BY EmptyTopic
  <2>2. last = served
    BY <2>1 DEF BridgeInv, LastInv
  <2> QED BY <2>2 DEF BridgeInv, TwistInv, Velocity
<1> QED BY <1>1, BridgeInvCorrect, PTL
=============================================================================
