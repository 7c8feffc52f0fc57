----------------------------- MODULE PaidMotion -----------------------------
(***************************************************************************)
(* What the router promises of motion and money, without gate, middleware, *)
(* session or process: an order moves the robot at most once, only while   *)
(* it is pending and, if it is priced, only on a proof of payment; a       *)
(* payment is taken once, by an order that has proved it, and never after  *)
(* its answer; a receipt is the answer to a payment taken or a job done.   *)
(* PaidAction implements it.                                               *)
(***************************************************************************)
CONSTANTS Requests, Payments

VARIABLES
    order,  \* order[r]: its payment, and whether it is a job, which has no price
    proof,  \* proof[r]: the protocol over which its payment was verified, or "none"
    moved,  \* orders the robot was told of
    taken,  \* payments taken
    taker,  \* taker[r]: the protocols over which r took one
    end     \* end[r]: "pending", or how it ended

vars == <<order, proof, moved, taken, taker, end>>

Init ==
    /\ order \in [Requests -> [pay : Payments, job : BOOLEAN]]
    /\ proof = [r \in Requests |-> "none"] /\ end = [r \in Requests |-> "pending"]
    /\ moved = {} /\ taken = {} /\ taker = [r \in Requests |-> {}]

End(r, how) == end[r] = "pending" /\ end' = [end EXCEPT ![r] = how]

Prove(r) ==
    /\ end[r] = "pending" /\ proof[r] = "none" /\ ~order[r].job /\ order[r].pay \notin taken
    /\ proof' = [proof EXCEPT ![r] = "x402"]
    /\ UNCHANGED <<order, moved, taken, taker, end>>

Take(r, protocol) ==
    /\ order[r].pay \notin taken /\ taken' = taken \cup {order[r].pay}
    /\ taker[r] = {} /\ taker' = [taker EXCEPT ![r] = {protocol}]

\* MPP takes the payment first: then the order is proved, or it ends without a receipt.
TakeFirst(r) ==
    /\ end[r] = "pending" /\ proof[r] = "none" /\ ~order[r].job /\ r \notin moved
    /\ Take(r, "mpp")
    /\ \/ proof' = [proof EXCEPT ![r] = "mpp"] /\ UNCHANGED end
       \/ End(r, "refused") /\ UNCHANGED proof
    /\ UNCHANGED <<order, moved>>

Move(r) ==
    /\ end[r] = "pending" /\ r \notin moved
    /\ order[r].job \/ proof[r] # "none"
    /\ moved' = moved \cup {r}
    /\ UNCHANGED <<order, proof, taken, taker, end>>

\* x402 takes it last: the order ends with it, whether or not the receipt is sent.
TakeLast(r) ==
    /\ proof[r] = "x402" /\ Take(r, "x402")
    /\ End(r, "receipt") \/ End(r, "refused")
    /\ UNCHANGED <<order, proof, moved>>

Refuse(r) == End(r, "refused") /\ UNCHANGED <<order, proof, moved, taken, taker>>

Receipt(r) ==
    /\ IF order[r].job THEN r \in moved ELSE taker[r] # {}
    /\ End(r, "receipt") /\ UNCHANGED <<order, proof, moved, taken, taker>>

\* A crash or a panic: some orders are never answered, or with an error that says nothing.
Lose ==
    /\ \E R \in SUBSET {r \in Requests : end[r] = "pending"} :
          end' = [r \in Requests |-> IF r \in R THEN "lost" ELSE end[r]]
    /\ UNCHANGED <<order, proof, moved, taken, taker>>

Next ==
    \/ Lose
    \/ \E r \in Requests :
          Prove(r) \/ TakeFirst(r) \/ Move(r) \/ TakeLast(r) \/ Refuse(r) \/ Receipt(r)

Spec == Init /\ [][Next]_vars
=============================================================================
