------------------------------- MODULE Bridge -------------------------------
(***************************************************************************)
(* The ROS 2 node that drives a robot from the Zenoh topic: its life       *)
(* (node.py), the subscriber callback that parses an event                 *)
(* (action_event.py) and maps it to a velocity (mapper.py of each robot).  *)
(* Zenoh runs the callback on a thread of its own, for one event after the *)
(* other, while the main thread builds, spins and destroys the node, and a *)
(* signal shuts the context down at any moment of that.                    *)
(*                                                                         *)
(* External: who publishes on the topic, the tunnel or anybody; when Zenoh *)
(* delivers; that undeclaring a subscriber does not wait for a callback    *)
(* that is running; rclpy.  Speeds are in tenths.                          *)
(***************************************************************************)
EXTENDS Integers, Sequences

CONSTANTS
    Robots,      \* which of "g1", "go2" and "tron1"
    Speeds,      \* values of the node's speed parameters
    NaN,         \* the one that is not a number
    MaxEvents    \* BOUND: events on the topic

ASSUME BridgeAssumption ==
    Robots \subseteq {"g1", "go2", "tron1"} /\ MaxEvents \in Nat
    /\ Speeds \subseteq Int \cup {NaN} /\ NaN \notin Int

\* What can be on the topic: an event with an action, the robot's, the one that the AIP
\* job offers as its example ("move", aipagent/agent.go:63), or another; one whose
\* payload is empty (as Python sees it), or text; JSON that is no object; no JSON.
Motions == {"forward", "backward", "turn_left", "turn_right"}
Events == Motions \cup {"stop", "move", "dance", "empty", "text", "array", "garbage"}

VARIABLES
    robot, speeds,  \* fixed: the adapter and its parameters
    life,           \* how far the main thread has built the node, or taken it down
    publisher,      \* the node has its cmd_vel publisher
    ok,             \* rclpy.ok(): no signal has shut the context down
    topic, budget,  \* events Zenoh has still to deliver; events left of MaxEvents
    handling,       \* the event the callback works on, or "none"
    served,         \* the last event whose velocity was published, or "none"
    raised,         \* why the last event ended in an exception, or "no"
    twist,          \* the last velocity on cmd_vel
    last            \* history: the last order that reached the subscriber, or "none"

parameters == <<robot, speeds>>
node == <<life, publisher, ok>>
callback == <<handling, served, raised, twist>>
vars == <<parameters, node, topic, budget, callback, last>>

Zero == [x |-> 0, z |-> 0]

TypeOK ==
    /\ robot \in Robots /\ speeds \in [{"fwd", "bwd", "turnLin", "turnAng"} -> Speeds]
    /\ life \in {"new", "subscribed", "undeclared", "destroyed"} /\ publisher \in BOOLEAN /\ ok \in BOOLEAN
    /\ life \in {"subscribed", "undeclared"} => publisher
    /\ topic \in Seq(Events) /\ budget \in 0..MaxEvents
    /\ handling \in Events \cup {"none"} /\ served \in Events \cup {"none"}
    /\ raised \in {"no", "parse", "publish"} /\ last \in Events \cup {"none"}
    /\ DOMAIN twist = {"x", "z"}

Init ==
    /\ robot \in Robots /\ speeds \in [{"fwd", "bwd", "turnLin", "turnAng"} -> Speeds]
    /\ life = "new" /\ publisher = FALSE /\ ok = TRUE /\ topic = <<>> /\ budget = MaxEvents
    /\ handling = "none" /\ served = "none" /\ raised = "no" /\ twist = Zero
    /\ last = "none"

-----------------------------------------------------------------------------
(* Parsing and mapping *)

\* event.get on what is no object.
ParseRaises(e) == e = "array"

\* parse_action_event returns None.
Dropped(e) == e \in {"garbage", "text"}

\* An order, known or not, for which a velocity is published.
Understood(e) == ~ParseRaises(e) /\ ~Dropped(e)

\* An empty payload has no action, and "stop" is the default.
Action(e) == IF e = "empty" THEN "stop" ELSE e

\* max(lo, min(hi, value)): Python's min keeps hi when value is not a number.
Clamp(v, lo, hi) == IF v = NaN THEN hi ELSE IF v > hi THEN hi ELSE IF v < lo THEN lo ELSE v

Drive(fwd, bwd, x, z) ==
    [forward |-> [x |-> fwd, z |-> 0], backward |-> [x |-> -bwd, z |-> 0],
     turn_left |-> [x |-> x, z |-> z], turn_right |-> [x |-> x, z |-> -z]]

\* The linear speed of a turn is not clamped.
G1 == Drive(Clamp(speeds.fwd, 0, 10), Clamp(speeds.bwd, 0, 5),
            speeds.turnLin, Clamp(speeds.turnAng, 0, 2))
Go2 == Drive(Clamp(speeds.fwd, 0, 15), Clamp(speeds.bwd, 0, 5), 0, Clamp(speeds.turnAng, 0, 10))
Tron1 == Drive(Clamp(speeds.fwd, 0, 10), Clamp(speeds.bwd, 0, 5), 0, Clamp(speeds.turnAng, 0, 5))

Drives == CASE robot = "g1" -> G1 [] robot = "go2" -> Go2 [] robot = "tron1" -> Tron1

\* MUTANT: an unknown action leaves the last command in force.
MapOrKeep(a) == IF a \in Motions THEN Drives[a] ELSE IF a = "stop" THEN Zero ELSE twist

\* "unknown action -> zero Twist (safe default)"
Map(a) == IF a \in Motions THEN Drives[a] ELSE Zero

-----------------------------------------------------------------------------
(* The main thread *)

\* create_publisher raises once the context is down.
CreatePublisher ==
    /\ life = "new" /\ ~publisher /\ ok /\ publisher' = TRUE
    /\ UNCHANGED <<parameters, life, ok, topic, budget, callback, last>>

\* MUTANT: the subscription is declared before the publisher is created.
SubscribeFirst ==
    /\ life = "new" /\ life' = "subscribed"
    /\ UNCHANGED <<parameters, publisher, ok, topic, budget, callback, last>>

Subscribe ==
    /\ life = "new" /\ publisher /\ life' = "subscribed"
    /\ UNCHANGED <<parameters, publisher, ok, topic, budget, callback, last>>

\* SIGINT or SIGTERM: rclpy shuts the context down, whatever the main thread is at.
Interrupt ==
    /\ ok /\ ok' = FALSE
    /\ UNCHANGED <<parameters, life, publisher, topic, budget, callback, last>>

\* The constructor raises, interrupted or without its publisher: main ends, and destroys
\* nothing.
Abort ==
    /\ life \in {"new", "subscribed"} /\ life' = "destroyed" /\ topic' = <<>>
    /\ UNCHANGED <<parameters, publisher, ok, budget, callback, last>>

\* The spin was interrupted, with the context down or still to be shut down by main:
\* ZenohSubscriberHelper.close, what is not delivered is lost.
Close ==
    /\ life = "subscribed" /\ life' = "undeclared" /\ topic' = <<>>
    /\ UNCHANGED <<parameters, publisher, ok, budget, callback, last>>

Destroy ==
    /\ life = "undeclared" /\ life' = "destroyed" /\ publisher' = FALSE /\ ok' = FALSE
    /\ UNCHANGED <<parameters, topic, budget, callback, last>>

-----------------------------------------------------------------------------
(* The topic and the callback thread *)

\* An event that finds no subscriber is lost.
Publish(e) ==
    /\ budget > 0 /\ budget' = budget - 1
    /\ topic' = IF life = "subscribed" THEN Append(topic, e) ELSE topic
    /\ last' = IF life = "subscribed" /\ Understood(e) THEN e ELSE last
    /\ UNCHANGED <<parameters, node, callback>>

Deliver ==
    /\ topic # <<>> /\ handling = "none"
    /\ handling' = Head(topic) /\ topic' = Tail(topic)
    /\ UNCHANGED <<parameters, node, budget, served, raised, twist, last>>

\* _on_action up to its early returns: an exception, or an event that is none.
Give(e) ==
    /\ handling = e /\ handling' = "none" /\ ~Understood(e)
    /\ raised' = IF ParseRaises(e) THEN "parse" ELSE "no"
    /\ UNCHANGED <<parameters, node, topic, budget, served, twist, last>>

\* MUTANT: an action that the mapper does not know is dropped.
ActKnown(e) ==
    /\ handling = e /\ handling' = "none" /\ Understood(e)
    /\ IF publisher /\ ok /\ Action(e) \in Motions \cup {"stop"}
         THEN twist' = Map(Action(e)) /\ served' = e /\ raised' = "no"
         ELSE raised' = "no" /\ UNCHANGED <<served, twist>>
    /\ UNCHANGED <<parameters, node, topic, budget, last>>

\* _on_action, publishing the velocity if the node still can: the publisher raises when
\* it was destroyed or its context shut down.
Act(e) ==
    /\ handling = e /\ handling' = "none" /\ Understood(e)
    /\ IF publisher /\ ok
         THEN twist' = Map(Action(e)) /\ served' = e /\ raised' = "no"
         ELSE raised' = "publish" /\ UNCHANGED <<served, twist>>
    /\ UNCHANGED <<parameters, node, topic, budget, last>>

Next ==
    \/ CreatePublisher \/ Subscribe \/ Interrupt \/ Abort \/ Close \/ Destroy
    \/ Deliver \/ \E e \in Events : Publish(e) \/ Give(e) \/ Act(e)

Spec == Init /\ [][Next]_vars

-----------------------------------------------------------------------------
(* Properties *)

\* What the robot may be driven at, by the mapper's limits and the direction it is told.
Bounds(forward, turn) ==
    [forward |-> [x |-> 0..forward, z |-> {0}], backward |-> [x |-> -5..0, z |-> {0}],
     turn_left |-> [x |-> {0}, z |-> 0..turn], turn_right |-> [x |-> {0}, z |-> -turn..0]]

\* g1/mapper.py:9-10, 40 and the clamps of the three mappers.  The robot moves only on
\* the order of the last event that was one, in the direction of that order and within
\* its limits, whatever the parameters are, negative or no number among them: an action
\* it does not know, or an event without one, stops it, and an event that is dropped or
\* raises changes nothing.  The only speed without a limit is the linear one of a g1's turn.
MovesAsOrdered ==
    twist # Zero =>
        /\ served \in Motions
        /\ LET b == CASE robot = "g1" -> Bounds(10, 2)
                      [] robot = "go2" -> Bounds(15, 10)
                      [] robot = "tron1" -> Bounds(10, 5)
           IN  /\ twist.z \in b[served].z
               /\ \/ twist.x \in b[served].x
                  \/ robot = "g1" /\ served \in {"turn_left", "turn_right"} /\ twist.x = speeds.turnLin

\* node.py:29, 37-48.  While the node is up, a robot whose callback has nothing left to do
\* does what the last order said that reached the subscriber, unknown orders stopping it:
\* no order is lost, overtaken, or undone by an event after it that was none, from the
\* moment the node subscribes until a signal comes.
LastOrderObeyed ==
    life = "subscribed" /\ ok /\ topic = <<>> /\ handling = "none"
        => twist = IF last \in Motions THEN Drives[last] ELSE Zero
=============================================================================
