----------------------------- MODULE PaidAction -----------------------------
(***************************************************************************)
(* One POST /action, or one AIP job, from the router to the robot's bus:   *)
(* the MPP gate (mppay.go), the x402 middleware, PostAction and the shared *)
(* Zenoh session (handlers.go), the AIP handler (agent.go), in the order   *)
(* setupRouter stacks them (main.go).  Requests run concurrently; they     *)
(* share the session, the bus and, when a payer retries, a payment.        *)
(*                                                                         *)
(* External, and modelled from how the code uses it: the x402 middleware   *)
(* verifies before the handler and settles after it, only if the handler   *)
(* answered below 400; the MPP middleware settles before the handler.      *)
(* A payment authorization can be settled once.                            *)
(***************************************************************************)
EXTENDS Integers

CONSTANTS
    Requests,     \* requests that reach the router
    Payments,     \* payment authorizations of the payers
    MaxFaults     \* BOUND: how many times zenoh, a settlement or the process may fail

ASSUME PaidAssumption == MaxFaults \in Nat

\* What the code looks at in a request.  "invoke" stands for the routes that only
\* the AIP handler serves; an empty body is as good as a JSON one.
Inputs ==
    {i \in [route : {"action", "invoke"}, authorization : {"none", "payment", "malformed"},
            x402 : BOOLEAN, body : {"valid", "invalid"}, pay : Payments] :
        i.route = "invoke" => i.authorization = "none" /\ ~i.x402 /\ i.body = "valid"}

VARIABLES
    gate,        \* setupRouter installed the MPP gate: cfg.MPPEnabled and mppay.New succeeded
    input,       \* input[r]: the request, fixed
    pc,          \* pc[r]: where the goroutine serving r is
    verified,    \* verified[r]: the protocol that verified r, or "none"
    challenges,  \* challenges[r]: the protocols whose challenge r's response carries
    status,      \* status[r]: HTTP status of the response so far, 0 before any
    unpublished, \* requests whose publish failed or found no session
    zenoh,       \* the sync.Once session: "unopened", "opening", "open", "failed", or
                 \* "missing": the Once is done, with neither a session nor an error
    bus,         \* events on robot/tunnel/action: [req, tag]
    charged,     \* charged[r]: the protocols over which r was settled
    spent,       \* payments that were settled
    faults       \* faults left of MaxFaults

local == <<pc, verified, challenges, status, unpublished>>
money == <<charged, spent>>
vars == <<gate, input, local, zenoh, bus, money, faults>>

Protocols == {"x402", "mpp"}
Active == {"handler", "verify", "charge", "opening", "publish", "accept", "settle"}
Ended == {"done", "dead", "panicked"}
Tags == Protocols \cup {"aip"}
Events == [req : Requests, tag : Tags]

TypeOK ==
    /\ gate \in BOOLEAN
    /\ input \in [Requests -> Inputs]
    /\ pc \in [Requests -> {"arrived"} \cup Active \cup Ended]
    /\ verified \in [Requests -> Protocols \cup {"none"}]
    /\ challenges \in [Requests -> SUBSET Protocols]
    /\ status \in [Requests -> {0, 200, 400, 402, 500}]
    /\ unpublished \subseteq Requests
    /\ zenoh \in {"unopened", "opening", "open", "failed", "missing"}
    /\ bus \subseteq Events
    /\ charged \in [Requests -> SUBSET Protocols]
    /\ spent \subseteq Payments
    /\ faults \in 0..MaxFaults

Init ==
    /\ gate \in BOOLEAN
    /\ input \in [Requests -> Inputs]
    /\ pc = [r \in Requests |-> "arrived"]
    /\ verified = [r \in Requests |-> "none"]
    /\ challenges = [r \in Requests |-> {}]
    /\ status = [r \in Requests |-> 0]
    /\ unpublished = {} /\ zenoh = "unopened" /\ bus = {}
    /\ charged = [r \in Requests |-> {}] /\ spent = {}
    /\ faults = MaxFaults

Goto(r, from, to) == pc[r] = from /\ pc' = [pc EXCEPT ![r] = to]
Answer(r, code) == status' = [status EXCEPT ![r] = code]
Challenge(r, cs) == challenges' = [challenges EXCEPT ![r] = @ \cup cs]
Fault == faults > 0 /\ faults' = faults - 1

\* The deferred function of dispatchRequest answers for a handler that panicked: 500,
\* and none of the headers it had set.
Recover(r) ==
    /\ pc' = [pc EXCEPT ![r] = "panicked"] /\ Answer(r, 500)
    /\ challenges' = [challenges EXCEPT ![r] = {}]

Priced(r) == input[r].route = "action"
Published(r) == \E e \in bus : e.req = r

-----------------------------------------------------------------------------
(* Gate.Middleware; without a gate the x402 middleware alone is installed *)

unhandled == <<gate, input, unpublished, zenoh, bus>>

\* Not the priced route: x402 lets it through to the AIP handler.
GateUnpriced(r) ==
    /\ ~Priced(r) /\ Goto(r, "arrived", "handler")
    /\ UNCHANGED <<unhandled, verified, challenges, status, money, faults>>

\* FindPaymentAuthorizationStrict failed: 400 and Abort.
GateMalformed(r) ==
    /\ gate /\ Priced(r) /\ input[r].authorization = "malformed"
    /\ Goto(r, "arrived", "done") /\ Answer(r, 400)
    /\ UNCHANGED <<unhandled, verified, challenges, money, faults>>

\* A credential: the charge middleware, whatever x402 headers came with it.
GateCharge(r) ==
    /\ gate /\ Priced(r) /\ input[r].authorization = "payment"
    /\ Goto(r, "arrived", "charge")
    /\ UNCHANGED <<unhandled, verified, challenges, status, money, faults>>

\* advertise adds the MPP challenge to a coming 402, or gives up with a warning.
Advertise(r) ==
    IF gate /\ ~input[r].x402
      THEN Challenge(r, {"mpp"}) \/ UNCHANGED challenges
      ELSE UNCHANGED challenges

\* MUTANT: a request that carries a payment of both kinds goes to x402.
GateX402First(r) ==
    /\ Priced(r) /\ (gate /\ ~input[r].x402 => input[r].authorization = "none")
    /\ Goto(r, "arrived", "verify") /\ Advertise(r)
    /\ UNCHANGED <<unhandled, verified, status, money, faults>>

GateX402(r) ==
    /\ Priced(r) /\ (gate => input[r].authorization = "none")
    /\ Goto(r, "arrived", "verify") /\ Advertise(r)
    /\ UNCHANGED <<unhandled, verified, status, money, faults>>

-----------------------------------------------------------------------------
(* The payment middlewares before the handler (external) *)

\* No payment, or one that does not verify: 402 with the x402 challenge.
VerifyRejects(r) ==
    /\ Goto(r, "verify", "done")
    /\ Answer(r, 402) /\ Challenge(r, {"x402"})
    /\ UNCHANGED <<unhandled, verified, money, faults>>

\* The facilitator finds the authorization valid and not settled yet.
VerifyAccepts(r) ==
    /\ input[r].x402 /\ input[r].pay \notin spent
    /\ Goto(r, "verify", "handler")
    /\ verified' = [verified EXCEPT ![r] = "x402"]
    /\ UNCHANGED <<unhandled, challenges, status, money, faults>>

Settle(r, protocol) ==
    /\ input[r].pay \notin spent
    /\ spent' = spent \cup {input[r].pay}
    /\ charged' = [charged EXCEPT ![r] = @ \cup {protocol}]

ChargeRejects(r) ==
    /\ Goto(r, "charge", "done")
    /\ Answer(r, 402) /\ Challenge(r, {"mpp"})
    /\ UNCHANGED <<unhandled, verified, money, faults>>

ChargeAccepts(r) ==
    /\ Goto(r, "charge", "handler") /\ Settle(r, "mpp")
    /\ verified' = [verified EXCEPT ![r] = "mpp"]
    /\ UNCHANGED <<unhandled, challenges, status, faults>>

\* The charge went through, its confirmation did not arrive.
ChargeLost(r) ==
    /\ Goto(r, "charge", "done") /\ Settle(r, "mpp") /\ Fault
    /\ Answer(r, 402) /\ Challenge(r, {"mpp"})
    /\ UNCHANGED <<unhandled, verified>>

-----------------------------------------------------------------------------
(* PostAction and the AIP handler *)

\* MUTANT: a bad body is reported in a 200.
BadBodyAccepted(r) ==
    /\ input[r].body = "invalid" /\ Answer(r, 200)
    /\ Goto(r, "handler", IF verified[r] = "x402" THEN "settle" ELSE "done")
    /\ UNCHANGED <<unhandled, verified, challenges, money, faults>>

\* The body is no JSON: 400.  x402 does not settle a response of 400 or more.
BadBody(r) ==
    /\ input[r].body = "invalid"
    /\ Goto(r, "handler", "done") /\ Answer(r, 400)
    /\ UNCHANGED <<unhandled, verified, challenges, money, faults>>

\* getZenohPublisher: sync.Once runs Open for the first caller, blocks the others
\* while it runs, and hands its result, also a failure, to everybody after that.
handling == <<gate, input, verified, challenges, money, bus>>

FirstPublisher(r) ==
    /\ input[r].body = "valid" /\ zenoh = "unopened"
    /\ Goto(r, "handler", "opening") /\ zenoh' = "opening"
    /\ UNCHANGED <<handling, status, unpublished, faults>>

OpenSucceeds(r) ==
    /\ Goto(r, "opening", "publish") /\ zenoh' = "open"
    /\ UNCHANGED <<handling, status, unpublished, faults>>

\* MUTANT: a failed open never completes the Once.
OpenHangsOthers(r) ==
    /\ Goto(r, "opening", "accept") /\ Fault
    /\ unpublished' = unpublished \cup {r}
    /\ UNCHANGED <<handling, status, zenoh>>

OpenFails(r) ==
    /\ Goto(r, "opening", "accept") /\ Fault
    /\ zenoh' = "failed" /\ unpublished' = unpublished \cup {r}
    /\ UNCHANGED <<handling, status>>

LaterPublisher(r) ==
    /\ input[r].body = "valid" /\ zenoh = "open"
    /\ Goto(r, "handler", "publish")
    /\ UNCHANGED <<handling, status, unpublished, zenoh, faults>>

NoPublisher(r) ==
    /\ input[r].body = "valid" /\ zenoh = "failed"
    /\ Goto(r, "handler", "accept") /\ unpublished' = unpublished \cup {r}
    /\ UNCHANGED <<handling, status, zenoh, faults>>

\* A panic of the Once's function completed it without an error: the nil publisher
\* that every later caller gets panics when it is used.
MissingPublisherPanics(r) ==
    /\ pc[r] = "handler" /\ input[r].body = "valid" /\ zenoh = "missing"
    /\ Recover(r)
    /\ UNCHANGED <<unhandled, verified, money, faults>>

\* MUTANT: the tag is taken from the headers, not from the verified credential.
TagFromHeaders(r) == IF ~Priced(r) THEN "aip" ELSE IF input[r].x402 THEN "x402" ELSE "mpp"

\* MUTANT: AIP events are tagged like paid ones.
TagAlways(r) == verified[r]

\* transaction_details.protocol, or source for an AIP event.
Tag(r) == IF ~Priced(r) THEN "aip" ELSE IF verified[r] = "mpp" THEN "mpp" ELSE "x402"

\* MUTANT: a failed publish is retried once the request has been answered.
PublishRetried(r) ==
    /\ pc[r] = "publish" \/ (pc[r] = "done" /\ r \in unpublished)
    /\ pc' = [pc EXCEPT ![r] = IF @ = "done" THEN @ ELSE "accept"]
    /\ bus' = bus \cup {[req |-> r, tag |-> Tag(r)]}
    /\ UNCHANGED <<gate, input, verified, challenges, money, status, unpublished, zenoh, faults>>

PublishSucceeds(r) ==
    /\ Goto(r, "publish", "accept")
    /\ bus' = bus \cup {[req |-> r, tag |-> Tag(r)]}
    /\ UNCHANGED <<gate, input, verified, challenges, money, status, unpublished, zenoh, faults>>

PublishFails(r) ==
    /\ Goto(r, "publish", "accept") /\ Fault
    /\ unpublished' = unpublished \cup {r}
    /\ UNCHANGED <<handling, status, zenoh>>

\* MUTANT: an AIP job is accepted like a paid action.
AcceptAlways(r) ==
    /\ Goto(r, "accept", IF verified[r] = "x402" THEN "settle" ELSE "done")
    /\ Answer(r, 200)
    /\ UNCHANGED <<handling, unpublished, zenoh, faults>>

\* MUTANT: an accepted x402 action is not settled.
AcceptUnsettled(r) ==
    /\ Goto(r, "accept", "done")
    /\ Answer(r, IF ~Priced(r) /\ r \in unpublished THEN 500 ELSE 200)
    /\ UNCHANGED <<handling, unpublished, zenoh, faults>>

\* PostAction answers 200 whatever became of the publish; the AIP handler does not.
Accept(r) ==
    /\ Goto(r, "accept", IF verified[r] = "x402" THEN "settle" ELSE "done")
    /\ Answer(r, IF ~Priced(r) /\ r \in unpublished THEN 500 ELSE 200)
    /\ UNCHANGED <<handling, unpublished, zenoh, faults>>

-----------------------------------------------------------------------------
(* The x402 middleware after the handler (external), and the process *)

SettleSucceeds(r) ==
    /\ Goto(r, "settle", "done") /\ Settle(r, "x402")
    /\ UNCHANGED <<unhandled, verified, challenges, status, faults>>

\* The facilitator refuses: the payment was settled meanwhile, or it fails.
SettleRefused(r) ==
    /\ Goto(r, "settle", "done") /\ Answer(r, 402)
    /\ IF input[r].pay \in spent THEN UNCHANGED faults ELSE Fault
    /\ UNCHANGED <<unhandled, verified, challenges, money>>

\* The settlement happens, but after the middleware's 30 s or unseen, or the middleware
\* panics after it.
SettleLost(r) ==
    /\ Goto(r, "settle", "done") /\ Settle(r, "x402") /\ Fault
    /\ Answer(r, 402) \/ Answer(r, 500)
    /\ UNCHANGED <<unhandled, verified, challenges>>

\* A middleware or the handler panics: gin.New() recovers nothing, dispatchRequest does,
\* and the process goes on.  What was done before the panic stays done.
Panic(r) ==
    /\ pc[r] \in Active /\ Fault
    /\ Recover(r)
    /\ zenoh' = IF pc[r] = "opening" THEN "missing" ELSE zenoh
    /\ UNCHANGED <<gate, input, verified, money, bus, unpublished>>

\* The process dies (crash, logger.Fatal of the tunnel client, or main returning)
\* and is restarted: what it was serving is gone, and so is the Zenoh session.
Restart ==
    /\ \E r \in Requests : pc[r] \in Active
    /\ Fault
    /\ pc' = [r \in Requests |-> IF pc[r] \in Active THEN "dead" ELSE pc[r]]
    /\ zenoh' = "unopened"
    /\ UNCHANGED <<gate, input, verified, challenges, status, unpublished, bus, money>>

-----------------------------------------------------------------------------
Gate(r) == GateUnpriced(r) \/ GateMalformed(r) \/ GateCharge(r) \/ GateX402(r)

Pay(r) ==
    \/ VerifyRejects(r) \/ VerifyAccepts(r)
    \/ ChargeRejects(r) \/ ChargeAccepts(r) \/ ChargeLost(r)

Handle(r) ==
    \/ BadBody(r)
    \/ FirstPublisher(r) \/ OpenSucceeds(r) \/ OpenFails(r)
    \/ LaterPublisher(r) \/ NoPublisher(r) \/ MissingPublisherPanics(r)
    \/ PublishSucceeds(r) \/ PublishFails(r) \/ Accept(r)

Collect(r) == SettleSucceeds(r) \/ SettleRefused(r) \/ SettleLost(r)

Serve(r) == Gate(r) \/ Pay(r) \/ Handle(r) \/ Collect(r) \/ Panic(r)

Next == (\E r \in Requests : Serve(r)) \/ Restart

Spec == Init /\ [][Next]_vars

\* Every middleware and handler ends: the facilitator calls within 30 seconds.
FairSpec == Spec /\ \A r \in Requests : WF_vars(Serve(r))

-----------------------------------------------------------------------------
(* Properties *)

\* README.md:11,209-211.  An action on the bus was paid for on its own route: its tag
\* names the protocol that verified that very request, and an MPP action has been
\* settled already, also when the request carried the headers of both protocols.
VerifiedBeforePublished ==
    \A e \in bus : Priced(e.req) =>
        /\ e.tag = verified[e.req]
        /\ e.tag = "mpp" => "mpp" \in charged[e.req]
        /\ e.tag = "x402" => input[e.req].x402

\* README.md:208.  A request with an MPP credential never touches x402, and no
\* request is settled over both protocols, whatever fails or is retried.
OneProtocolPerRequest ==
    \A r \in Requests :
        /\ charged[r] # Protocols
        /\ gate /\ input[r].authorization # "none"
             => "x402" \notin charged[r] /\ verified[r] # "x402"

\* A payer who was charged and whose action never reached the bus is the victim of
\* a failed publish, of a crash or a recovered panic, or of MPP settling before PostAction
\* has rejected the body or before the charge's confirmation was lost.
ChargedForNothing ==
    \A r \in Requests : pc[r] \in Ended /\ charged[r] # {} /\ ~Published(r) =>
        \/ r \in unpublished
        \/ pc[r] \in {"dead", "panicked"}
        \/ charged[r] = {"mpp"} /\ (input[r].body = "invalid" \/ status[r] = 402)

\* An action that reached the robot and was never settled is an x402 action whose
\* settlement was refused, answered 402, or whose process died or handler panicked
\* before it, or an AIP job.
PublishedForNothing ==
    \A r \in Requests : pc[r] \in Ended /\ charged[r] = {} /\ Published(r) =>
        \/ ~Priced(r)
        \/ verified[r] = "x402" /\ (status[r] = 402 \/ pc[r] \in {"dead", "panicked"})

\* Two requests carrying one payment, concurrently or as a retry, never both get
\* their 200, although x402 verifies both and the robot may act on both.
OneReceiptPerPayment ==
    \A r, s \in Requests :
        /\ pc[r] = "done" /\ pc[s] = "done" /\ status[r] = 200 /\ status[s] = 200
        /\ Priced(r) /\ Priced(s) /\ input[r].pay = input[s].pay
        => r = s

\* sync.Once: one goroutine at a time opens the session, and none once its outcome
\* is known (handlers.go:46-61).
OneSession ==
    /\ \A r, s \in Requests : pc[r] = "opening" /\ pc[s] = "opening" => r = s
    /\ zenoh \in {"open", "failed", "missing"} => \A r \in Requests : pc[r] # "opening"

\* agent.go:64: an AIP job is only reported accepted once its action is on the bus.
JobAcceptedMeansPublished ==
    \A r \in Requests : ~Priced(r) /\ pc[r] = "done" /\ status[r] = 200 => Published(r)

\* No request waits for ever: not for the Zenoh session another one is opening, and
\* not for a middleware.
EveryRequestEnds == \A r \in Requests : <>(pc[r] \in Ended)

\* README.md:209: "Either way the accepted action lands on the same Zenoh topic".
AcceptedMeansPublished ==
    \A r \in Requests : Priced(r) /\ pc[r] = "done" /\ status[r] = 200 => Published(r)

\* How r ended for its payer.
Outcome(r) ==
    CASE pc[r] \in {"dead", "panicked"} -> "lost"
      [] pc[r] = "done" -> IF status[r] = 200 THEN "receipt" ELSE "refused"
      [] OTHER -> "pending"

Motion == INSTANCE PaidMotion WITH
    order <- [r \in Requests |-> [pay |-> input[r].pay, job |-> ~Priced(r)]],
    proof <- verified, moved <- {e.req : e \in bus}, taken <- spent, taker <- charged,
    end <- [r \in Requests |-> Outcome(r)]

\* main.go:201-250.  PaidAction implements what PaidMotion promises of one order: it
\* moves the robot at most once, while it is pending and on a proof of payment; its
\* payment is taken once, before it moves over MPP, as it ends over x402; and nothing
\* happens after its end.
MotionSpec == Motion!Spec

-----------------------------------------------------------------------------
(* What makes the safety properties inductive, one part per concern *)

Handling == {"handler", "opening", "publish", "accept", "settle"}

\* The route a request took fits its headers.
RouteInv == \A r \in Requests :
    LET x402Route == Priced(r) /\ (gate => input[r].authorization = "none")
        mppRoute == Priced(r) /\ gate /\ input[r].authorization = "payment"
    IN  /\ pc[r] = "verify" => x402Route
        /\ pc[r] = "charge" => mppRoute
        /\ verified[r] = "x402" => x402Route /\ input[r].x402
        /\ verified[r] = "mpp" => mppRoute /\ "mpp" \in charged[r]
        /\ "x402" \in charged[r] => verified[r] = "x402"
        /\ "mpp" \in charged[r] => mppRoute

\* A payment is taken once, before MPP's handler and after x402's.
LedgerInv ==
    /\ \A r \in Requests :
          /\ pc[r] \in {"arrived", "verify", "charge"} => charged[r] = {} /\ verified[r] = "none"
          /\ pc[r] \in Handling /\ verified[r] # "mpp" => charged[r] = {}
          /\ pc[r] \in Handling /\ Priced(r) => verified[r] # "none"
          /\ charged[r] # {} => input[r].pay \in spent
          /\ "x402" \in charged[r] => input[r].body = "valid"
    /\ \A r, s \in Requests :
          charged[r] # {} /\ charged[s] # {} /\ input[r].pay = input[s].pay => r = s

\* What reached the bus, and what a finished request says of it.
BusInv ==
    /\ \A e \in bus : /\ pc[e.req] \in {"accept", "settle"} \cup Ended
                      /\ e.tag = Tag(e.req)
                      /\ input[e.req].body = "valid"
                      /\ Priced(e.req) => verified[e.req] # "none"
    /\ \A r \in Requests :
          /\ pc[r] \in {"accept", "settle"} => Published(r) \/ r \in unpublished
          /\ pc[r] = "settle" => Priced(r) /\ verified[r] = "x402"
          /\ pc[r] = "done" /\ verified[r] # "none" =>
                \/ Published(r) \/ r \in unpublished
                \/ input[r].body = "invalid"
          /\ pc[r] = "done" /\ input[r].body = "invalid" /\ Priced(r) => status[r] # 200
          /\ input[r].body = "invalid" => pc[r] \notin Handling \ {"handler"}

\* A 200 is only sent for a payment that was taken, or to an AIP job that was published.
ReceiptInv == \A r \in Requests :
    /\ pc[r] = "done" /\ status[r] = 200 /\ Priced(r) => charged[r] # {}
    /\ pc[r] = "done" /\ status[r] = 200 /\ ~Priced(r) => Published(r)
    /\ pc[r] = "done" /\ verified[r] = "x402" /\ charged[r] = {} =>
          status[r] = 402 \/ input[r].body = "invalid"
    /\ pc[r] = "done" /\ charged[r] # {} /\ verified[r] = "none" => status[r] = 402

\* The session is being opened exactly while one goroutine runs the Once.
OpeningInv ==
    /\ OneSession
    /\ zenoh # "opening" => \A r \in Requests : pc[r] # "opening"

PaidInv ==
    /\ TypeOK /\ RouteInv /\ LedgerInv /\ BusInv /\ ReceiptInv /\ OpeningInv
=============================================================================
