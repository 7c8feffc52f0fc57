-------------------------- MODULE PaidActionProofs --------------------------
(* Theorems about PaidAction, for every set of requests and payments and      *)
(* every number of faults, with and without the MPP gate; and that it         *)
(* implements PaidMotion.                                                     *)
EXTENDS PaidAction, TLAPS

LEMMA PaidTypeInit == Init => TypeOK
<1> SUFFICES ASSUME Init PROVE TypeOK
  OBVIOUS
<1>1. gate \in BOOLEAN
  BY Zenon DEF Init
<1>2. faults \in 0..MaxFaults
  BY PaidAssumption DEF Init
<1>3. /\ pc \in [Requests -> {"arrived"} \cup Active \cup Ended]
      /\ verified \in [Requests -> Protocols \cup {"none"}]
      /\ challenges \in [Requests -> SUBSET Protocols]
      /\ status \in [Requests -> {0, 200, 400, 402, 500}]
      /\ charged \in [Requests -> SUBSET Protocols]
  BY DEF Init
<1>4. /\ input \in [Requests -> Inputs]
      /\ unpublished \subseteq Requests /\ bus \subseteq Events /\ spent \subseteq Payments
      /\ zenoh \in {"unopened", "opening", "open", "failed", "missing"}
  BY DEF Init
<1> QED BY <1>1, <1>2, <1>3, <1>4 DEF TypeOK

LEMMA TagType == ASSUME TypeOK, NEW r \in Requests PROVE Tag(r) \in Tags
BY DEF Tag, Tags, Protocols

LEMMA PayType == ASSUME TypeOK, NEW r \in Requests PROVE input[r].pay \in Payments
BY DEF TypeOK, Inputs

LEMMA PaidTypeStep == TypeOK /\ [Next]_vars => TypeOK'
<1> SUFFICES ASSUME TypeOK, [Next]_vars PROVE TypeOK'
  OBVIOUS
<1> USE PaidAssumption DEF TypeOK, local, money, unhandled, handling, Goto, Answer, Challenge,
        Fault, Active, Ended
<1>1. ASSUME NEW r \in Requests, Gate(r) PROVE TypeOK'
  BY <1>1 DEF Gate, GateUnpriced, GateMalformed, GateCharge, GateX402, Advertise, Protocols
<1>2. ASSUME NEW r \in Requests, Pay(r) PROVE TypeOK'
  BY <1>2, PayType DEF Pay, VerifyRejects, VerifyAccepts, ChargeRejects, ChargeAccepts,
     ChargeLost, Settle, Protocols
<1>3. ASSUME NEW r \in Requests, Handle(r) PROVE TypeOK'
  <2>1. CASE PublishSucceeds(r)
    BY <2>1, TagType DEF PublishSucceeds, Events
  <2>2. CASE BadBody(r) \/ Accept(r)
    BY <2>2 DEF BadBody, Accept
  <2>3. CASE FirstPublisher(r) \/ OpenSucceeds(r) \/ OpenFails(r)
    BY <2>3 DEF FirstPublisher, OpenSucceeds, OpenFails
  <2>4. CASE LaterPublisher(r) \/ NoPublisher(r) \/ MissingPublisherPanics(r) \/ PublishFails(r)
    BY <2>4 DEF LaterPublisher, NoPublisher, MissingPublisherPanics, Recover, PublishFails
  <2> QED BY <1>3, <2>1, <2>2, <2>3, <2>4 DEF Handle
<1>4. ASSUME NEW r \in Requests, Collect(r) PROVE TypeOK'
  BY <1>4, PayType DEF Collect, SettleSucceeds, SettleRefused, SettleLost, Settle, Protocols
<1>5. ASSUME NEW r \in Requests, Panic(r) PROVE TypeOK'
  BY <1>5 DEF Panic, Recover
<1>6. CASE Restart
  BY <1>6 DEF Restart
<1>7. CASE UNCHANGED vars
  BY <1>7 DEF vars
<1> QED BY <1>1, <1>2, <1>3, <1>4, <1>5, <1>6, <1>7 DEF Next, Serve

\* A step of one request leaves the others alone.
LEMMA Frame == ASSUME TypeOK, NEW r \in Requests, Serve(r), NEW s \in Requests, s # r
               PROVE  /\ gate' = gate /\ input' = input
                      /\ pc'[s] = pc[s] /\ verified'[s] = verified[s]
                      /\ status'[s] = status[s] /\ charged'[s] = charged[s]
                      /\ s \in unpublished' <=> s \in unpublished
<1> USE DEF TypeOK, local, money, unhandled, handling, Goto, Answer
<1>1. CASE Gate(r)
  BY <1>1 DEF Gate, GateUnpriced, GateMalformed, GateCharge, GateX402
<1>2. CASE Pay(r)
  BY <1>2 DEF Pay, VerifyRejects, VerifyAccepts, ChargeRejects, ChargeAccepts, ChargeLost, Settle
<1>3. CASE Handle(r)
  BY <1>3 DEF Handle, BadBody, FirstPublisher, OpenSucceeds, OpenFails, LaterPublisher,
     NoPublisher, MissingPublisherPanics, Recover, PublishSucceeds, PublishFails, Accept
<1>4. CASE Collect(r)
  BY <1>4 DEF Collect, SettleSucceeds, SettleRefused, SettleLost, Settle
<1>5. CASE Panic(r)
  BY <1>5 DEF Panic, Recover
<1> QED BY <1>1, <1>2, <1>3, <1>4, <1>5 DEF Serve

\* The request and the router it meets never change.
LEMMA Unchanged == ASSUME NEW r \in Requests, Serve(r) PROVE input' = input /\ gate' = gate
BY DEF Serve, Gate, Pay, Handle, Collect, GateUnpriced, GateMalformed, GateCharge, GateX402,
   VerifyRejects, VerifyAccepts, ChargeRejects, ChargeAccepts, ChargeLost, BadBody,
   FirstPublisher, OpenSucceeds, OpenFails, LaterPublisher, NoPublisher, PublishSucceeds,
   PublishFails, Accept, SettleSucceeds, SettleRefused, SettleLost, MissingPublisherPanics,
   Panic, unhandled, handling

\* The route a request took keeps fitting its headers.
LEMMA RouteStep == ASSUME PaidInv, NEW r \in Requests, Serve(r) PROVE RouteInv'
<1> USE DEF PaidInv, TypeOK, money, unhandled, handling, Goto, Answer, Priced, RouteInv, LedgerInv, BusInv, Protocols
<1>1. PaidInv /\ TypeOK' /\ input' = input /\ gate' = gate
  BY PaidTypeStep, Unchanged DEF Next, PaidInv
<1>2. CASE GateUnpriced(r)
  BY <1>1, <1>2, Frame DEF GateUnpriced
<1>3. CASE GateMalformed(r)
  BY <1>1, <1>3, Frame DEF GateMalformed
<1>4. CASE GateCharge(r)
  BY <1>1, <1>4, Frame DEF GateCharge
<1>5. CASE GateX402(r)
  BY <1>1, <1>5, Frame DEF GateX402
<1>6. CASE VerifyRejects(r)
  BY <1>1, <1>6, Frame DEF VerifyRejects
<1>7. CASE VerifyAccepts(r)
  BY <1>1, <1>7, Frame DEF VerifyAccepts
<1>8. CASE ChargeRejects(r)
  BY <1>1, <1>8, Frame DEF ChargeRejects
<1>9. CASE ChargeAccepts(r)
  BY <1>1, <1>9, Frame DEF ChargeAccepts, Settle
<1>10. CASE ChargeLost(r)
  BY <1>1, <1>10, Frame DEF ChargeLost, Settle
<1>11. CASE BadBody(r)
  BY <1>1, <1>11, Frame DEF BadBody
<1>12. CASE FirstPublisher(r)
  BY <1>1, <1>12, Frame DEF FirstPublisher
<1>13. CASE OpenSucceeds(r)
  BY <1>1, <1>13, Frame DEF OpenSucceeds
<1>14. CASE OpenFails(r)
  BY <1>1, <1>14, Frame DEF OpenFails
<1>15. CASE LaterPublisher(r)
  BY <1>1, <1>15, Frame DEF LaterPublisher
<1>16. CASE NoPublisher(r)
  BY <1>1, <1>16, Frame DEF NoPublisher
<1>17. CASE PublishSucceeds(r)
  BY <1>1, <1>17, Frame DEF PublishSucceeds
<1>18. CASE PublishFails(r)
  BY <1>1, <1>18, Frame DEF PublishFails
<1>19. CASE Accept(r)
  BY <1>1, <1>19, Frame DEF Accept
<1>20. CASE SettleSucceeds(r)
  BY <1>1, <1>20, Frame DEF SettleSucceeds, Settle
<1>21. CASE SettleRefused(r)
  BY <1>1, <1>21, Frame DEF SettleRefused
<1>22. CASE SettleLost(r)
  BY <1>1, <1>22, Frame DEF SettleLost, Settle
<1>23. CASE MissingPublisherPanics(r)
  BY <1>1, <1>23, Frame DEF MissingPublisherPanics, Recover
<1>24. CASE Panic(r)
  BY <1>1, <1>24, Frame DEF Panic, Recover, Active
<1> QED BY <1>2, <1>3, <1>4, <1>5, <1>6, <1>7, <1>8, <1>9, <1>10, <1>11, <1>12, <1>13, <1>14,
       <1>15, <1>16, <1>17, <1>18, <1>19, <1>20, <1>21, <1>22, <1>23, <1>24
       DEF Serve, Gate, Pay, Handle, Collect

LEMMA SettleLedger == ASSUME PaidInv, NEW r \in Requests, TypeOK', Goto(r, "settle", "done"),
                             Settle(r, "x402"), UNCHANGED <<gate, input, verified>>
                      PROVE  LedgerInv'
<1>1. /\ charged' = [charged EXCEPT ![r] = @ \cup {"x402"}]
      /\ pc' = [pc EXCEPT ![r] = "done"] /\ pc[r] = "settle"
      /\ input[r].pay \notin spent /\ spent' = spent \cup {input[r].pay}
  BY DEF Goto, Settle
<1>2. verified[r] = "x402" /\ input[r].body \in {"valid", "invalid"}
      /\ input[r].body # "invalid"
  BY <1>1 DEF PaidInv, BusInv, TypeOK, Handling, Inputs
<1>3. \A s \in Requests : s # r => charged'[s] = charged[s] /\ pc'[s] = pc[s]
  BY <1>1 DEF PaidInv, TypeOK
<1>4. pc'[r] = "done" /\ input' = input /\ verified' = verified
  BY <1>1 DEF PaidInv, TypeOK
<1>5. \A s \in Requests :
        /\ pc'[s] \in {"arrived", "verify", "charge"} => charged'[s] = {} /\ verified'[s] = "none"
        /\ pc'[s] \in Handling /\ verified'[s] # "mpp" => charged'[s] = {}
        /\ pc'[s] \in Handling /\ Priced(s)' => verified'[s] # "none"
        /\ charged'[s] # {} => input'[s].pay \in spent'
        /\ "x402" \in charged'[s] => input'[s].body = "valid"
  BY <1>1, <1>2, <1>3, <1>4 DEF PaidInv, LedgerInv, Handling, Priced
<1>6. \A s, t \in Requests :
        charged'[s] # {} /\ charged'[t] # {} /\ input'[s].pay = input'[t].pay => s = t
  BY <1>1, <1>3, <1>4 DEF PaidInv, LedgerInv
<1> QED BY <1>5, <1>6 DEF LedgerInv

\* The ledger keeps taking a payment once and at the right moment.
LEMMA LedgerStep == ASSUME PaidInv, NEW r \in Requests, Serve(r) PROVE LedgerInv'
<1> USE DEF PaidInv, TypeOK, money, unhandled, handling, Goto, Answer, Priced, RouteInv, LedgerInv, BusInv, Handling, Protocols
<1>1. PaidInv /\ TypeOK' /\ input' = input /\ gate' = gate
  BY PaidTypeStep, Unchanged DEF Next, PaidInv
<1>2. CASE GateUnpriced(r)
  BY <1>1, <1>2, Frame DEF GateUnpriced
<1>3. CASE GateMalformed(r)
  BY <1>1, <1>3, Frame DEF GateMalformed
<1>4. CASE GateCharge(r)
  BY <1>1, <1>4, Frame DEF GateCharge
<1>5. CASE GateX402(r)
  BY <1>1, <1>5, Frame DEF GateX402
<1>6. CASE VerifyRejects(r)
  BY <1>1, <1>6, Frame DEF VerifyRejects
<1>7. CASE VerifyAccepts(r)
  BY <1>1, <1>7, Frame DEF VerifyAccepts
<1>8. CASE ChargeRejects(r)
  BY <1>1, <1>8, Frame DEF ChargeRejects
<1>9. CASE ChargeAccepts(r)
  BY <1>1, <1>9, Frame DEF ChargeAccepts, Settle
<1>10. CASE ChargeLost(r)
  BY <1>1, <1>10, Frame DEF ChargeLost, Settle
<1>11. CASE BadBody(r)
  BY <1>1, <1>11, Frame DEF BadBody
<1>12. CASE FirstPublisher(r)
  BY <1>1, <1>12, Frame DEF FirstPublisher
<1>13. CASE OpenSucceeds(r)
  BY <1>1, <1>13, Frame DEF OpenSucceeds
<1>14. CASE OpenFails(r)
  BY <1>1, <1>14, Frame DEF OpenFails
<1>15. CASE LaterPublisher(r)
  BY <1>1, <1>15, Frame DEF LaterPublisher
<1>16. CASE NoPublisher(r)
  BY <1>1, <1>16, Frame DEF NoPublisher
<1>17. CASE PublishSucceeds(r)
  BY <1>1, <1>17, Frame DEF PublishSucceeds
<1>18. CASE PublishFails(r)
  BY <1>1, <1>18, Frame DEF PublishFails
<1>19. CASE Accept(r)
  BY <1>1, <1>19, Frame DEF Accept
<1>20. CASE SettleSucceeds(r)
  BY <1>1, <1>20, SettleLedger DEF SettleSucceeds
<1>21. CASE SettleRefused(r)
  BY <1>1, <1>21, Frame DEF SettleRefused
<1>22. CASE SettleLost(r)
  BY <1>1, <1>22, SettleLedger DEF SettleLost
<1>23. CASE MissingPublisherPanics(r)
  BY <1>1, <1>23, Frame DEF MissingPublisherPanics, Recover
<1>24. CASE Panic(r)
  BY <1>1, <1>24, Frame DEF Panic, Recover, Active
<1> QED BY <1>2, <1>3, <1>4, <1>5, <1>6, <1>7, <1>8, <1>9, <1>10, <1>11, <1>12, <1>13, <1>14,
       <1>15, <1>16, <1>17, <1>18, <1>19, <1>20, <1>21, <1>22, <1>23, <1>24
       DEF Serve, Gate, Pay, Handle, Collect

\* The bus keeps agreeing with what became of the requests.
LEMMA BusStep == ASSUME PaidInv, NEW r \in Requests, Serve(r) PROVE BusInv'
<1> USE DEF PaidInv, TypeOK, money, unhandled, handling, Goto, Answer, Priced, LedgerInv, BusInv, Handling, Published, Tag, Protocols, Ended
<1>1. PaidInv /\ TypeOK' /\ input' = input /\ gate' = gate
  BY PaidTypeStep, Unchanged DEF Next, PaidInv
<1>2. CASE GateUnpriced(r)
  BY <1>1, <1>2, Frame DEF GateUnpriced
<1>3. CASE GateMalformed(r)
  BY <1>1, <1>3, Frame DEF GateMalformed
<1>4. CASE GateCharge(r)
  BY <1>1, <1>4, Frame DEF GateCharge
<1>5. CASE GateX402(r)
  BY <1>1, <1>5, Frame DEF GateX402
<1>6. CASE VerifyRejects(r)
  BY <1>1, <1>6, Frame DEF VerifyRejects
<1>7. CASE VerifyAccepts(r)
  BY <1>1, <1>7, Frame DEF VerifyAccepts
<1>8. CASE ChargeRejects(r)
  BY <1>1, <1>8, Frame DEF ChargeRejects
<1>9. CASE ChargeAccepts(r)
  BY <1>1, <1>9, Frame DEF ChargeAccepts, Settle
<1>10. CASE ChargeLost(r)
  BY <1>1, <1>10, Frame DEF ChargeLost, Settle
<1>11. CASE BadBody(r)
  BY <1>1, <1>11, Frame DEF BadBody
<1>12. CASE FirstPublisher(r)
  BY <1>1, <1>12, Frame DEF FirstPublisher
<1>13. CASE OpenSucceeds(r)
  BY <1>1, <1>13, Frame DEF OpenSucceeds
<1>14. CASE OpenFails(r)
  BY <1>1, <1>14, Frame DEF OpenFails
<1>15. CASE LaterPublisher(r)
  BY <1>1, <1>15, Frame DEF LaterPublisher
<1>16. CASE NoPublisher(r)
  BY <1>1, <1>16, Frame DEF NoPublisher
<1>17. CASE PublishSucceeds(r)
  <2>1. /\ bus' = bus \cup {[req |-> r, tag |-> Tag(r)]}
        /\ UNCHANGED <<verified, status, unpublished>> /\ pc[r] = "publish"
        /\ pc' = [pc EXCEPT ![r] = "accept"]
    BY <1>17 DEF PublishSucceeds
  <2>2. /\ pc'[r] = "accept" /\ \A s \in Requests : s # r => pc'[s] = pc[s]
        /\ input[r].body = "valid"
        /\ Priced(r) => verified[r] # "none"
    BY <2>1 DEF LedgerInv, Inputs
  <2>3. \A e \in bus' : e = [req |-> r, tag |-> Tag(r)] \/ (e \in bus /\ e.req \in Requests)
    BY <2>1 DEF Events
  <2>4. \A s \in Requests : Tag(s)' = Tag(s)
    BY <1>1, <2>1 DEF Tag
  <2>5. \A e \in bus' : /\ pc'[e.req] \in {"accept", "settle"} \cup Ended
                        /\ e.tag = Tag(e.req)'
                        /\ input'[e.req].body = "valid"
                        /\ Priced(e.req)' => verified'[e.req] # "none"
    BY <1>1, <2>1, <2>2, <2>3, <2>4
  <2>6. [req |-> r, tag |-> Tag(r)] \in bus' /\ bus \subseteq bus'
    BY <2>1
  <2>7. Published(r)' /\ \A s \in Requests : Published(s) => Published(s)'
    BY <2>6
  <2> QED BY <1>1, <2>1, <2>2, <2>5, <2>7
<1>18. CASE PublishFails(r)
  BY <1>1, <1>18, Frame DEF PublishFails
<1>19. CASE Accept(r)
  <2>1. /\ UNCHANGED <<verified, unpublished, bus>> /\ pc[r] = "accept"
        /\ pc' = [pc EXCEPT ![r] = IF verified[r] = "x402" THEN "settle" ELSE "done"]
    BY <1>19 DEF Accept
  <2>2. /\ verified[r] = "x402" => Priced(r)
        /\ input[r].body # "invalid"
        /\ Published(r) \/ r \in unpublished
    BY <2>1 DEF RouteInv
  <2>3. /\ pc'[r] = IF verified[r] = "x402" THEN "settle" ELSE "done"
        /\ \A s \in Requests : s # r => pc'[s] = pc[s] /\ status'[s] = status[s]
    BY <2>1, Frame
  <2> QED BY <1>1, <2>1, <2>2, <2>3 DEF Events
<1>20. CASE SettleSucceeds(r)
  BY <1>1, <1>20, Frame DEF SettleSucceeds, Settle
<1>21. CASE SettleRefused(r)
  BY <1>1, <1>21, Frame DEF SettleRefused
<1>22. CASE SettleLost(r)
  BY <1>1, <1>22, Frame DEF SettleLost, Settle
<1>23. CASE MissingPublisherPanics(r)
  BY <1>1, <1>23, Frame DEF MissingPublisherPanics, Recover
<1>24. CASE Panic(r)
  BY <1>1, <1>24, Frame DEF Panic, Recover, Active
<1> QED BY <1>2, <1>3, <1>4, <1>5, <1>6, <1>7, <1>8, <1>9, <1>10, <1>11, <1>12, <1>13, <1>14,
       <1>15, <1>16, <1>17, <1>18, <1>19, <1>20, <1>21, <1>22, <1>23, <1>24
       DEF Serve, Gate, Pay, Handle, Collect

\* A receipt keeps standing for a payment or a published job.
LEMMA ReceiptStep == ASSUME PaidInv, NEW r \in Requests, Serve(r) PROVE ReceiptInv'
<1> USE DEF PaidInv, TypeOK, money, unhandled, handling, Goto, Answer, Priced, RouteInv, LedgerInv, BusInv, ReceiptInv, Handling, Published, Protocols
<1>1. PaidInv /\ TypeOK' /\ input' = input /\ gate' = gate
  BY PaidTypeStep, Unchanged DEF Next, PaidInv
<1>2. CASE GateUnpriced(r)
  BY <1>1, <1>2, Frame DEF GateUnpriced
<1>3. CASE GateMalformed(r)
  BY <1>1, <1>3, Frame DEF GateMalformed
<1>4. CASE GateCharge(r)
  BY <1>1, <1>4, Frame DEF GateCharge
<1>5. CASE GateX402(r)
  BY <1>1, <1>5, Frame DEF GateX402
<1>6. CASE VerifyRejects(r)
  BY <1>1, <1>6, Frame DEF VerifyRejects
<1>7. CASE VerifyAccepts(r)
  BY <1>1, <1>7, Frame DEF VerifyAccepts
<1>8. CASE ChargeRejects(r)
  BY <1>1, <1>8, Frame DEF ChargeRejects
<1>9. CASE ChargeAccepts(r)
  BY <1>1, <1>9, Frame DEF ChargeAccepts, Settle
<1>10. CASE ChargeLost(r)
  BY <1>1, <1>10, Frame DEF ChargeLost, Settle
<1>11. CASE BadBody(r)
  BY <1>1, <1>11, Frame DEF BadBody
<1>12. CASE FirstPublisher(r)
  BY <1>1, <1>12, Frame DEF FirstPublisher
<1>13. CASE OpenSucceeds(r)
  BY <1>1, <1>13, Frame DEF OpenSucceeds
<1>14. CASE OpenFails(r)
  BY <1>1, <1>14, Frame DEF OpenFails
<1>15. CASE LaterPublisher(r)
  BY <1>1, <1>15, Frame DEF LaterPublisher
<1>16. CASE NoPublisher(r)
  BY <1>1, <1>16, Frame DEF NoPublisher
<1>17. CASE PublishSucceeds(r)
  BY <1>1, <1>17, Frame DEF PublishSucceeds
<1>18. CASE PublishFails(r)
  BY <1>1, <1>18, Frame DEF PublishFails
<1>19. CASE Accept(r)
  BY <1>1, <1>19, Frame DEF Accept
<1>20. CASE SettleSucceeds(r)
  BY <1>1, <1>20, Frame DEF SettleSucceeds, Settle
<1>21. CASE SettleRefused(r)
  BY <1>1, <1>21, Frame DEF SettleRefused
<1>22. CASE SettleLost(r)
  BY <1>1, <1>22, Frame DEF SettleLost, Settle
<1>23. CASE MissingPublisherPanics(r)
  BY <1>1, <1>23, Frame DEF MissingPublisherPanics, Recover
<1>24. CASE Panic(r)
  BY <1>1, <1>24, Frame DEF Panic, Recover, Active
<1> QED BY <1>2, <1>3, <1>4, <1>5, <1>6, <1>7, <1>8, <1>9, <1>10, <1>11, <1>12, <1>13, <1>14,
       <1>15, <1>16, <1>17, <1>18, <1>19, <1>20, <1>21, <1>22, <1>23, <1>24
       DEF Serve, Gate, Pay, Handle, Collect

\* The Once keeps having one runner.
LEMMA OpeningStep == ASSUME PaidInv, NEW r \in Requests, Serve(r) PROVE OpeningInv'
<1> USE DEF PaidInv, TypeOK, money, unhandled, handling, Goto, Answer, Priced, OpeningInv, OneSession
<1>1. PaidInv /\ TypeOK' /\ input' = input /\ gate' = gate
  BY PaidTypeStep, Unchanged DEF Next, PaidInv
<1>2. CASE GateUnpriced(r)
  BY <1>1, <1>2, Frame DEF GateUnpriced
<1>3. CASE GateMalformed(r)
  BY <1>1, <1>3, Frame DEF GateMalformed
<1>4. CASE GateCharge(r)
  BY <1>1, <1>4, Frame DEF GateCharge
<1>5. CASE GateX402(r)
  BY <1>1, <1>5, Frame DEF GateX402
<1>6. CASE VerifyRejects(r)
  BY <1>1, <1>6, Frame DEF VerifyRejects
<1>7. CASE VerifyAccepts(r)
  BY <1>1, <1>7, Frame DEF VerifyAccepts
<1>8. CASE ChargeRejects(r)
  BY <1>1, <1>8, Frame DEF ChargeRejects
<1>9. CASE ChargeAccepts(r)
  BY <1>1, <1>9, Frame DEF ChargeAccepts, Settle
<1>10. CASE ChargeLost(r)
  BY <1>1, <1>10, Frame DEF ChargeLost, Settle
<1>11. CASE BadBody(r)
  BY <1>1, <1>11, Frame DEF BadBody
<1>12. CASE FirstPublisher(r)
  BY <1>1, <1>12, Frame DEF FirstPublisher
<1>13. CASE OpenSucceeds(r)
  BY <1>1, <1>13, Frame DEF OpenSucceeds
<1>14. CASE OpenFails(r)
  BY <1>1, <1>14, Frame DEF OpenFails
<1>15. CASE LaterPublisher(r)
  BY <1>1, <1>15, Frame DEF LaterPublisher
<1>16. CASE NoPublisher(r)
  BY <1>1, <1>16, Frame DEF NoPublisher
<1>17. CASE PublishSucceeds(r)
  BY <1>1, <1>17, Frame DEF PublishSucceeds
<1>18. CASE PublishFails(r)
  BY <1>1, <1>18, Frame DEF PublishFails
<1>19. CASE Accept(r)
  BY <1>1, <1>19, Frame DEF Accept
<1>20. CASE SettleSucceeds(r)
  BY <1>1, <1>20, Frame DEF SettleSucceeds, Settle
<1>21. CASE SettleRefused(r)
  BY <1>1, <1>21, Frame DEF SettleRefused
<1>22. CASE SettleLost(r)
  BY <1>1, <1>22, Frame DEF SettleLost, Settle
<1>23. CASE MissingPublisherPanics(r)
  BY <1>1, <1>23, Frame DEF MissingPublisherPanics, Recover
<1>24. CASE Panic(r)
  BY <1>1, <1>24, Frame DEF Panic, Recover, Active
<1> QED BY <1>2, <1>3, <1>4, <1>5, <1>6, <1>7, <1>8, <1>9, <1>10, <1>11, <1>12, <1>13, <1>14,
       <1>15, <1>16, <1>17, <1>18, <1>19, <1>20, <1>21, <1>22, <1>23, <1>24
       DEF Serve, Gate, Pay, Handle, Collect

LEMMA PaidInit == Init => PaidInv
<1> SUFFICES ASSUME Init PROVE PaidInv
  OBVIOUS
<1>1. TypeOK
  BY PaidTypeInit
<1>2. /\ \A r \in Requests : pc[r] = "arrived" /\ verified[r] = "none" /\ charged[r] = {}
      /\ bus = {} /\ zenoh = "unopened"
  BY DEF Init
<1>3. RouteInv
  BY <1>2 DEF RouteInv
<1>4. LedgerInv /\ BusInv
  BY <1>2 DEF LedgerInv, BusInv, Handling
<1>5. ReceiptInv /\ OpeningInv
  BY <1>2 DEF ReceiptInv, OpeningInv, OneSession
<1> QED BY <1>1, <1>3, <1>4, <1>5 DEF PaidInv

\* A restart ends what was being served and forgets the session; the rest stays.
LEMMA RestartStep == PaidInv /\ Restart => PaidInv'
<1> SUFFICES ASSUME PaidInv, Restart PROVE PaidInv'
  OBVIOUS
<1>1. TypeOK'
  BY PaidTypeStep DEF PaidInv, Next
<1>2. /\ gate' = gate /\ input' = input /\ verified' = verified /\ status' = status
      /\ unpublished' = unpublished /\ bus' = bus /\ charged' = charged /\ spent' = spent
      /\ zenoh' = "unopened"
  BY DEF Restart, money
<1>3. \A r \in Requests : pc'[r] = IF pc[r] \in Active THEN "dead" ELSE pc[r]
  BY DEF Restart
<1>4. \A r \in Requests :
        /\ pc'[r] \in {"arrived"} \cup Ended
        /\ pc'[r] \in {"arrived", "done"} => pc'[r] = pc[r]
  BY <1>3 DEF PaidInv, TypeOK, Active, Ended
<1>5. RouteInv'
  BY <1>1, <1>2, <1>4 DEF PaidInv, TypeOK, RouteInv, Priced, Protocols, Ended
<1>6. LedgerInv'
  BY <1>1, <1>2, <1>4 DEF PaidInv, TypeOK, LedgerInv, Handling, Priced, Ended
<1>7. BusInv'
  <2>1. \A e \in bus : e.req \in Requests
    BY DEF PaidInv, TypeOK, Events
  <2>2. \A e \in bus' : pc'[e.req] \in {"accept", "settle"} \cup Ended
    BY <1>2, <1>3, <2>1 DEF PaidInv, BusInv, Ended
  <2>3. \A e \in bus' :
          /\ e.tag = Tag(e.req)'
          /\ input'[e.req].body = "valid"
          /\ Priced(e.req)' => verified'[e.req] # "none"
    BY <1>2 DEF PaidInv, BusInv, Tag, Priced
  <2> QED BY <1>1, <1>2, <1>4, <2>2, <2>3
     DEF PaidInv, TypeOK, BusInv, Handling, Published, Priced, Ended
<1>8. ReceiptInv'
  BY <1>2, <1>4 DEF PaidInv, ReceiptInv, Published, Priced, Ended
<1>9. OpeningInv'
  BY <1>2, <1>4 DEF OpeningInv, OneSession, Ended
<1> QED BY <1>1, <1>5, <1>6, <1>7, <1>8, <1>9 DEF PaidInv

LEMMA PaidStep == PaidInv /\ [Next]_vars => PaidInv'
<1> SUFFICES ASSUME PaidInv, [Next]_vars PROVE PaidInv'
  OBVIOUS
<1>1. ASSUME NEW r \in Requests, Serve(r) PROVE PaidInv'
  <2>1. TypeOK'
    BY <1>1, PaidTypeStep DEF PaidInv, Next
  <2> QED BY <1>1, <2>1, RouteStep, LedgerStep, BusStep, ReceiptStep, OpeningStep DEF PaidInv
<1>2. CASE Restart
  BY <1>2, RestartStep
<1>3. CASE UNCHANGED vars
  BY <1>3 DEF vars, local, money, PaidInv, TypeOK, RouteInv, LedgerInv, BusInv, ReceiptInv,
     OpeningInv, OneSession, Published, Priced, Tag
<1> QED BY <1>1, <1>2, <1>3 DEF Next

-----------------------------------------------------------------------------
\* Every variable keeps its type, for any requests, payments and faults.
THEOREM PaidTypeCorrect == Spec => []TypeOK
BY PaidTypeInit, PaidTypeStep, PTL DEF Spec

\* The inductive invariant: routes, ledger, bus, receipts and the Once at once.
THEOREM PaidInvCorrect == Spec => []PaidInv
BY PaidInit, PaidStep, PTL DEF Spec

\* An action on the bus carries the protocol that verified its request, and an MPP
\* one has been settled (mppay.go:83-107, handlers.go:110-119).
THEOREM PublishedIsVerified == Spec => []VerifiedBeforePublished
<1>1. PaidInv => VerifiedBeforePublished
  <2> SUFFICES ASSUME PaidInv, NEW e \in bus, Priced(e.req)
               PROVE  /\ e.tag = verified[e.req]
                      /\ e.tag = "mpp" => "mpp" \in charged[e.req]
                      /\ e.tag = "x402" => input[e.req].x402
    BY DEF VerifiedBeforePublished
  <2>1. e.req \in Requests
    BY DEF PaidInv, TypeOK, Events
  <2>2. verified[e.req] \in {"x402", "mpp"} /\ e.tag = Tag(e.req)
    BY <2>1 DEF PaidInv, TypeOK, BusInv, Protocols
  <2>3. e.tag = verified[e.req]
    BY <2>2 DEF Tag
  <2> QED BY <2>1, <2>3 DEF PaidInv, RouteInv
<1> QED BY <1>1, PaidInvCorrect, PTL

\* A request with an MPP credential never touches x402, and no request is settled
\* over both protocols (mppay.go:89-105).
THEOREM ProtocolsExclude == Spec => []OneProtocolPerRequest
<1>1. PaidInv => OneProtocolPerRequest
  <2> SUFFICES ASSUME PaidInv, NEW r \in Requests
               PROVE  /\ charged[r] # Protocols
                      /\ gate /\ input[r].authorization # "none"
                           => "x402" \notin charged[r] /\ verified[r] # "x402"
    BY DEF OneProtocolPerRequest
  <2>1. gate /\ input[r].authorization # "none" => verified[r] # "x402"
    BY DEF PaidInv, RouteInv
  <2>2. "x402" \in charged[r] => verified[r] = "x402"
    BY DEF PaidInv, RouteInv
  <2>3. ~("x402" \in charged[r] /\ "mpp" \in charged[r])
    BY <2>2 DEF PaidInv, RouteInv
  <2> QED BY <2>1, <2>2, <2>3 DEF Protocols
<1> QED BY <1>1, PaidInvCorrect, PTL

\* A payer charged for nothing is the victim of a failed publish, of a crash or a panic,
\* or of MPP's settling before the handler (main.go:201-250, client.go:299-305).
THEOREM ChargesExplained == Spec => []ChargedForNothing
<1>1. PaidInv => ChargedForNothing
  BY DEF PaidInv, ChargedForNothing, TypeOK, RouteInv, LedgerInv, BusInv, ReceiptInv, Ended,
     Protocols, Inputs
<1> QED BY <1>1, PaidInvCorrect, PTL

\* An action the robot got for nothing is an x402 one whose settlement was refused, or
\* whose process died or handler panicked before it, or an AIP job (main.go:220-227,
\* client.go:299-305).
THEOREM GiftsExplained == Spec => []PublishedForNothing
<1>1. PaidInv => PublishedForNothing
  <2> SUFFICES ASSUME PaidInv, NEW r \in Requests, pc[r] \in Ended, charged[r] = {},
                      Published(r), Priced(r)
               PROVE  verified[r] = "x402" /\ (status[r] = 402 \/ pc[r] \in {"dead", "panicked"})
    BY DEF PublishedForNothing
  <2>1. PICK e \in bus : e.req = r
    BY DEF Published
  <2>2. verified[r] # "none" /\ input[r].body = "valid"
    BY <2>1 DEF PaidInv, BusInv
  <2>3. verified[r] = "x402"
    BY <2>2 DEF PaidInv, TypeOK, RouteInv, Protocols
  <2> QED BY <2>2, <2>3 DEF PaidInv, ReceiptInv, Ended
<1> QED BY <1>1, PaidInvCorrect, PTL

\* Two priced requests carrying one payment never both end with a 200, although x402
\* verifies both before it settles either.
THEOREM ReceiptsUnique == Spec => []OneReceiptPerPayment
<1>1. PaidInv => OneReceiptPerPayment
  BY DEF PaidInv, OneReceiptPerPayment, ReceiptInv, LedgerInv
<1> QED BY <1>1, PaidInvCorrect, PTL

\* One goroutine at a time opens the Zenoh session, none once its outcome is known
\* (handlers.go:46-61).
THEOREM SessionOpenedOnce == Spec => []OneSession
<1>1. PaidInv => OneSession
  BY DEF PaidInv, OpeningInv
<1> QED BY <1>1, PaidInvCorrect, PTL

\* An AIP job reported accepted is on the bus (agent.go:23-64).
THEOREM JobsHonest == Spec => []JobAcceptedMeansPublished
<1>1. PaidInv => JobAcceptedMeansPublished
  BY DEF PaidInv, ReceiptInv, JobAcceptedMeansPublished
<1> QED BY <1>1, PaidInvCorrect, PTL

-----------------------------------------------------------------------------
(* PaidAction implements PaidMotion *)

\* The abstract state.
Ends == [r \in Requests |-> Outcome(r)]
Orders == [r \in Requests |-> [pay |-> input[r].pay, job |-> ~Priced(r)]]
Moved == {e.req : e \in bus}

LEMMA MotionInit == Init => Motion!Init
<1> SUFFICES ASSUME Init PROVE Motion!Init
  OBVIOUS
<1>1. Orders \in [Requests -> [pay : Payments, job : BOOLEAN]]
  <2>1. ASSUME NEW r \in Requests PROVE [pay |-> input[r].pay, job |-> ~Priced(r)]
                                         \in [pay : Payments, job : BOOLEAN]
    <3>1. input[r].pay \in Payments
      BY PaidTypeInit, PayType
    <3>2. (~Priced(r)) \in BOOLEAN
      BY Zenon DEF Priced
    <3> QED BY <3>1, <3>2
  <2> QED BY <2>1 DEF Orders
<1>2. Ends = [r \in Requests |-> "pending"]
  BY DEF Init, Ends, Outcome
<1>3. /\ verified = [r \in Requests |-> "none"] /\ charged = [r \in Requests |-> {}]
      /\ spent = {} /\ Moved = {}
  BY DEF Init, Moved
<1> QED BY <1>1, <1>2, <1>3 DEF Motion!Init, Orders, Ends, Outcome, Moved

\* A step of r that leaves proof, motion and money alone, and what it makes of r's end.
LEMMA Quiet == ASSUME PaidInv, NEW r \in Requests, Serve(r),
                      verified' = verified, bus' = bus, charged' = charged, spent' = spent,
                      Outcome(r) = "pending",
                      \/ Outcome(r)' \in {"pending", "refused"}
                      \/ Outcome(r)' = "receipt" /\ IF Priced(r) THEN charged[r] # {} ELSE Published(r)
               PROVE  Motion!Next \/ UNCHANGED Motion!vars
<1>1. input' = input /\ TypeOK
  BY Unchanged DEF PaidInv
<1>2. Orders' = Orders /\ Moved' = Moved
  BY <1>1 DEF Orders, Priced, Moved
<1>3. \A s \in Requests : s # r => Outcome(s)' = Outcome(s)
  BY <1>1, Frame DEF Outcome
<1>4. Ends' = [Ends EXCEPT ![r] = Outcome(r)']
  BY <1>3 DEF Ends
<1>5. CASE Outcome(r)' = "pending"
  <2>1. Ends' = Ends
    BY <1>3, <1>5 DEF Ends
  <2> QED BY <1>2, <2>1 DEF Motion!vars, Orders, Ends, Moved
<1>6. CASE Outcome(r)' = "refused"
  <2>1. Motion!Refuse(r)
    BY <1>2, <1>4, <1>6 DEF Motion!Refuse, Motion!End, Orders, Ends, Outcome, Moved
  <2> QED BY <2>1 DEF Motion!Next
<1>7. CASE Outcome(r)' = "receipt"
  <2>1. Motion!End(r, "receipt")
    BY <1>4, <1>7 DEF Motion!End, Ends
  <2>2. IF Orders[r].job THEN r \in Moved ELSE charged[r] # {}
    BY <1>7 DEF Orders, Moved, Published
  <2>3. Motion!Receipt(r)
    BY <1>2, <2>1, <2>2 DEF Motion!Receipt, Orders, Moved
  <2> QED BY <2>3 DEF Motion!Next
<1> QED BY <1>5, <1>6, <1>7

\* What every step of r leaves alone.
LEMMA Others == ASSUME PaidInv, NEW r \in Requests, Serve(r)
                PROVE  /\ Orders' = Orders
                       /\ \A s \in Requests : s # r => Outcome(s)' = Outcome(s)
                       /\ Ends' = [Ends EXCEPT ![r] = Outcome(r)']
                       /\ TypeOK
<1>1. input' = input /\ TypeOK
  BY Unchanged DEF PaidInv
<1>2. \A s \in Requests : s # r => Outcome(s)' = Outcome(s)
  BY <1>1, Frame DEF Outcome
<1> QED BY <1>1, <1>2 DEF Orders, Priced, Ends

\* A payment that verifies proves the order.
LEMMA VerifyProves == ASSUME PaidInv, NEW r \in Requests, VerifyAccepts(r) PROVE Motion!Next
<1>1. Orders' = Orders /\ Ends' = [Ends EXCEPT ![r] = Outcome(r)'] /\ TypeOK
  BY Others DEF Serve, Pay
<1>2. /\ pc[r] = "verify" /\ pc'[r] = "handler" /\ input[r].pay \notin spent
      /\ verified' = [verified EXCEPT ![r] = "x402"]
      /\ bus' = bus /\ charged' = charged /\ spent' = spent
  BY <1>1 DEF VerifyAccepts, Goto, TypeOK, unhandled, money
<1>3. Outcome(r) = "pending" /\ Outcome(r)' = "pending"
  BY <1>2 DEF Outcome
<1>4. Ends' = Ends
  BY <1>1, <1>3 DEF Ends
<1>5. verified[r] = "none" /\ Priced(r)
  BY <1>2 DEF PaidInv, LedgerInv, RouteInv
<1>6. Motion!Prove(r)
  <2>1. /\ Ends[r] = "pending" /\ ~Orders[r].job /\ Orders[r].pay \notin spent
        /\ Moved' = Moved
    BY <1>2, <1>3, <1>5 DEF Ends, Orders, Moved
  <2> QED BY <1>1, <1>2, <1>4, <1>5, <2>1 DEF Motion!Prove, Orders, Ends, Moved
<1> QED BY <1>6 DEF Motion!Next

\* The charge takes the payment before the robot is told of the order.
LEMMA ChargeTakes == ASSUME PaidInv, NEW r \in Requests, ChargeAccepts(r) \/ ChargeLost(r)
                     PROVE  Motion!Next
<1>1. Orders' = Orders /\ Ends' = [Ends EXCEPT ![r] = Outcome(r)'] /\ TypeOK
  BY Others DEF Serve, Pay
<1>2. /\ pc[r] = "charge" /\ input[r].pay \notin spent
      /\ spent' = spent \cup {input[r].pay} /\ charged' = [charged EXCEPT ![r] = @ \cup {"mpp"}]
      /\ bus' = bus
  BY DEF ChargeAccepts, ChargeLost, Goto, Settle, unhandled
<1>3. Outcome(r) = "pending" /\ verified[r] = "none" /\ charged[r] = {} /\ Priced(r)
  BY <1>2 DEF Outcome, PaidInv, LedgerInv, RouteInv
<1>4. ~Published(r)
  BY <1>2 DEF Published, PaidInv, BusInv, Ended
<1>5. /\ Ends[r] = "pending" /\ ~Orders[r].job /\ Orders[r].pay \notin spent
      /\ r \notin Moved /\ Moved' = Moved
  BY <1>2, <1>3, <1>4 DEF Ends, Orders, Moved, Published
<1>6. Motion!Take(r, "mpp")
  BY <1>2, <1>3 DEF Motion!Take
<1>7. CASE ChargeAccepts(r)
  <2>1. pc'[r] = "handler" /\ verified' = [verified EXCEPT ![r] = "mpp"]
    BY <1>1, <1>7 DEF ChargeAccepts, Goto, TypeOK
  <2>2. Ends' = Ends
    BY <1>1, <1>3, <2>1 DEF Ends, Outcome
  <2>3. Motion!TakeFirst(r)
    BY <1>1, <1>3, <1>5, <1>6, <2>1, <2>2 DEF Motion!TakeFirst, Orders, Ends, Moved
  <2> QED BY <2>3 DEF Motion!Next
<1>8. CASE ChargeLost(r)
  <2>1. pc'[r] = "done" /\ status'[r] = 402 /\ verified' = verified
    BY <1>1, <1>8 DEF ChargeLost, Goto, Answer, TypeOK
  <2>2. Motion!End(r, "refused")
    BY <1>1, <1>5, <2>1 DEF Motion!End, Ends, Outcome
  <2>3. Motion!TakeFirst(r)
    BY <1>1, <1>3, <1>5, <1>6, <2>1, <2>2 DEF Motion!TakeFirst, Orders, Ends, Moved
  <2> QED BY <2>3 DEF Motion!Next
<1> QED BY <1>7, <1>8

\* The robot is told of a pending order, once, and only if it was proved or has no price.
LEMMA PublishMoves == ASSUME PaidInv, NEW r \in Requests, PublishSucceeds(r) PROVE Motion!Next
<1>1. Orders' = Orders /\ Ends' = [Ends EXCEPT ![r] = Outcome(r)'] /\ TypeOK
  BY Others DEF Serve, Handle
<1>2. /\ pc[r] = "publish" /\ pc'[r] = "accept"
      /\ bus' = bus \cup {[req |-> r, tag |-> Tag(r)]}
      /\ verified' = verified /\ charged' = charged /\ spent' = spent
  BY <1>1 DEF PublishSucceeds, Goto, TypeOK, money
<1>3. Outcome(r) = "pending" /\ Outcome(r)' = "pending"
  BY <1>2 DEF Outcome
<1>4. Ends' = Ends /\ Ends[r] = "pending"
  BY <1>1, <1>3 DEF Ends
<1>5. ~Published(r) /\ (Priced(r) => verified[r] # "none")
  BY <1>2 DEF Published, PaidInv, BusInv, LedgerInv, Handling, Ended
<1>6. r \notin Moved /\ Moved' = Moved \cup {r} /\ (Orders[r].job \/ verified[r] # "none")
  <2>1. r \notin Moved
    BY <1>5 DEF Moved, Published
  <2> DEFINE new == [req |-> r, tag |-> Tag(r)]
  <2>2. bus' = bus \cup {new} /\ new.req = r
    BY <1>2
  <2> HIDE DEF new
  <2>3. Moved' = Moved \cup {r}
    <3>1. Moved' \subseteq Moved \cup {r}
      BY <2>2 DEF Moved
    <3>2. Moved \cup {r} \subseteq Moved'
      BY <2>2 DEF Moved
    <3> QED BY <3>1, <3>2
  <2>4. Orders[r].job \/ verified[r] # "none"
    BY <1>5 DEF Orders
  <2> QED BY <2>1, <2>3, <2>4
<1>7. Motion!Move(r)
  BY <1>1, <1>2, <1>4, <1>6 DEF Motion!Move, Orders, Ends, Moved
<1> QED BY <1>7 DEF Motion!Next

\* The settlement of x402 takes the payment as the order ends.
LEMMA SettleTakes == ASSUME PaidInv, NEW r \in Requests, SettleSucceeds(r) \/ SettleLost(r)
                     PROVE  Motion!Next
<1>1. Orders' = Orders /\ Ends' = [Ends EXCEPT ![r] = Outcome(r)'] /\ TypeOK
  BY Others DEF Serve, Collect
<1>2. /\ pc[r] = "settle" /\ pc'[r] = "done" /\ input[r].pay \notin spent
      /\ spent' = spent \cup {input[r].pay} /\ charged' = [charged EXCEPT ![r] = @ \cup {"x402"}]
      /\ bus' = bus /\ verified' = verified
  BY <1>1 DEF SettleSucceeds, SettleLost, Goto, Settle, unhandled, TypeOK
<1>3. verified[r] = "x402" /\ charged[r] = {}
  BY <1>2 DEF PaidInv, BusInv, LedgerInv, Handling
<1>4. Motion!Take(r, "x402")
  BY <1>2, <1>3 DEF Motion!Take
<1>5. Motion!End(r, "receipt") \/ Motion!End(r, "refused")
  BY <1>1, <1>2 DEF Motion!End, Ends, Outcome
<1>6. Moved' = Moved
  BY <1>2 DEF Moved
<1>7. Motion!TakeLast(r)
  BY <1>1, <1>2, <1>3, <1>4, <1>5, <1>6 DEF Motion!TakeLast, Orders, Ends, Moved
<1> QED BY <1>7 DEF Motion!Next

\* What a panic was serving is lost.
LEMMA PanicLoses == ASSUME PaidInv, NEW r \in Requests, Panic(r) \/ MissingPublisherPanics(r)
                    PROVE  Motion!Next
<1>1. Orders' = Orders /\ Ends' = [Ends EXCEPT ![r] = Outcome(r)'] /\ TypeOK
  BY Others DEF Serve, Handle
<1>2. /\ verified' = verified /\ bus' = bus /\ charged' = charged /\ spent' = spent
      /\ pc[r] \in Active /\ pc'[r] = "panicked"
  BY <1>1 DEF Panic, MissingPublisherPanics, Recover, TypeOK, unhandled, money, Active
<1>3. Ends[r] = "pending" /\ Outcome(r)' = "lost"
  BY <1>2 DEF Ends, Outcome, Active
<1>4. Ends' = [s \in Requests |-> IF s \in {r} THEN "lost" ELSE Ends[s]]
  BY <1>1, <1>3 DEF Ends
<1>5. {r} \in SUBSET {s \in Requests : Ends[s] = "pending"}
  BY <1>3
<1>6. Motion!Lose
  BY <1>1, <1>2, <1>4, <1>5 DEF Motion!Lose, Orders, Ends, Moved
<1> QED BY <1>6 DEF Motion!Next

LEMMA RestartLoses == PaidInv /\ Restart => Motion!Next
<1> SUFFICES ASSUME PaidInv, Restart PROVE Motion!Next
  OBVIOUS
<1>1. /\ input' = input /\ verified' = verified /\ bus' = bus /\ charged' = charged
      /\ spent' = spent /\ status' = status
      /\ \A r \in Requests : pc'[r] = IF pc[r] \in Active THEN "dead" ELSE pc[r]
  BY DEF Restart, money
<1>2. Orders' = Orders /\ Moved' = Moved
  BY <1>1 DEF Orders, Priced, Moved
<1> DEFINE R == {r \in Requests : pc[r] \in Active}
<1>3. \A r \in Requests : Outcome(r)' = IF r \in R THEN "lost" ELSE Outcome(r)
  BY <1>1 DEF Outcome
<1>4. Ends' = [r \in Requests |-> IF r \in R THEN "lost" ELSE Ends[r]]
  BY <1>3 DEF Ends
<1>5. R \in SUBSET {r \in Requests : Ends[r] = "pending"}
  BY DEF Ends, Outcome, Active
<1>6. Motion!Lose
  BY <1>1, <1>2, <1>4, <1>5 DEF Motion!Lose, Orders, Ends, Moved
<1> QED BY <1>6 DEF Motion!Next

\* What the abstract specification sees of the handlers' other steps is nothing, or an end.
LEMMA StepMaps == PaidInv /\ [Next]_vars => Motion!Next \/ UNCHANGED Motion!vars
<1> SUFFICES ASSUME PaidInv, [Next]_vars PROVE Motion!Next \/ UNCHANGED Motion!vars
  OBVIOUS
<1> USE DEF local, money, unhandled, handling, Goto, Answer
<1>1. ASSUME NEW r \in Requests, Gate(r) PROVE Motion!Next \/ UNCHANGED Motion!vars
  <2>1. /\ verified' = verified /\ bus' = bus /\ charged' = charged /\ spent' = spent
        /\ Outcome(r) = "pending" /\ Outcome(r)' \in {"pending", "refused"}
    BY <1>1 DEF Gate, GateUnpriced, GateMalformed, GateCharge, GateX402, Outcome, PaidInv, TypeOK
  <2> QED BY <1>1, <2>1, Quiet DEF Serve
<1>2. ASSUME NEW r \in Requests, Pay(r) PROVE Motion!Next \/ UNCHANGED Motion!vars
  <2>1. CASE VerifyRejects(r) \/ ChargeRejects(r)
    <3>1. /\ verified' = verified /\ bus' = bus /\ charged' = charged /\ spent' = spent
          /\ Outcome(r) = "pending" /\ Outcome(r)' = "refused"
      BY <2>1 DEF VerifyRejects, ChargeRejects, Outcome, PaidInv, TypeOK
    <3> QED BY <1>2, <3>1, Quiet DEF Serve
  <2> QED BY <1>2, <2>1, VerifyProves, ChargeTakes DEF Pay
<1>3. ASSUME NEW r \in Requests, Handle(r) PROVE Motion!Next \/ UNCHANGED Motion!vars
  <2>1. CASE PublishSucceeds(r)
    BY <2>1, PublishMoves
  <2>2. CASE Accept(r)
    <3>1. /\ verified' = verified /\ bus' = bus /\ charged' = charged /\ spent' = spent
          /\ pc[r] = "accept" /\ Outcome(r) = "pending"
      BY <2>2 DEF Accept, Outcome
    <3>2. /\ pc'[r] = IF verified[r] = "x402" THEN "settle" ELSE "done"
          /\ status'[r] = IF ~Priced(r) /\ r \in unpublished THEN 500 ELSE 200
      BY <2>2 DEF Accept, PaidInv, TypeOK
    <3>3. Priced(r) => verified[r] = "x402" \/ charged[r] # {}
      BY <3>1 DEF PaidInv, TypeOK, LedgerInv, RouteInv, Handling, Protocols
    <3>4. ~Priced(r) /\ r \notin unpublished => Published(r)
      BY <3>1 DEF PaidInv, BusInv
    <3>5. \/ Outcome(r)' \in {"pending", "refused"}
          \/ Outcome(r)' = "receipt" /\ IF Priced(r) THEN charged[r] # {} ELSE Published(r)
      BY <3>2, <3>3, <3>4 DEF Outcome
    <3> QED BY <1>3, <3>1, <3>5, Quiet DEF Serve
  <2>3. CASE BadBody(r) \/ FirstPublisher(r) \/ OpenSucceeds(r) \/ OpenFails(r)
    <3>1. /\ verified' = verified /\ bus' = bus /\ charged' = charged /\ spent' = spent
          /\ Outcome(r) = "pending" /\ Outcome(r)' \in {"pending", "refused"}
      BY <2>3 DEF BadBody, FirstPublisher, OpenSucceeds, OpenFails, Outcome, PaidInv, TypeOK
    <3> QED BY <1>3, <3>1, Quiet DEF Serve
  <2>4. CASE LaterPublisher(r) \/ NoPublisher(r) \/ PublishFails(r)
    <3>1. /\ verified' = verified /\ bus' = bus /\ charged' = charged /\ spent' = spent
          /\ Outcome(r) = "pending" /\ Outcome(r)' = "pending"
      BY <2>4 DEF LaterPublisher, NoPublisher, PublishFails, Outcome, PaidInv, TypeOK
    <3> QED BY <1>3, <3>1, Quiet DEF Serve
  <2>5. CASE MissingPublisherPanics(r)
    BY <2>5, PanicLoses
  <2> QED BY <1>3, <2>1, <2>2, <2>3, <2>4, <2>5 DEF Handle
<1>4. ASSUME NEW r \in Requests, Collect(r) PROVE Motion!Next \/ UNCHANGED Motion!vars
  <2>1. CASE SettleRefused(r)
    <3>1. /\ verified' = verified /\ bus' = bus /\ charged' = charged /\ spent' = spent
          /\ Outcome(r) = "pending" /\ Outcome(r)' = "refused"
      BY <2>1 DEF SettleRefused, Outcome, PaidInv, TypeOK
    <3> QED BY <1>4, <3>1, Quiet DEF Serve
  <2> QED BY <1>4, <2>1, SettleTakes DEF Collect
<1>5. ASSUME NEW r \in Requests, Panic(r) PROVE Motion!Next \/ UNCHANGED Motion!vars
  BY <1>5, PanicLoses
<1>6. CASE Restart
  BY <1>6, RestartLoses
<1>7. CASE UNCHANGED vars
  BY <1>7 DEF vars, Motion!vars, Priced, Outcome
<1> QED BY <1>1, <1>2, <1>3, <1>4, <1>5, <1>6, <1>7 DEF Next, Serve

\* PaidAction implements PaidMotion (main.go:201-250): an order moves the robot at most
\* once, while it is pending and proved, and its payment is taken at most once.
THEOREM ActionsKeepThePromise == Spec => MotionSpec
<1>1. Init => Motion!Init
  BY MotionInit
<1>2. PaidInv /\ [Next]_vars => [Motion!Next]_(Motion!vars)
  BY StepMaps
<1> QED BY <1>1, <1>2, PaidInvCorrect, PTL DEF Spec, MotionSpec, Motion!Spec
=============================================================================
