------------------------- MODULE AttestWriterProofs -------------------------
(* Theorems about AttestWriter, for any header values, any number of values   *)
(* per header and any number of signing failures.                             *)
EXTENDS AttestWriter, TLAPS

LEMMA GetType == ASSUME headers \in [Headers -> Seq(Values)], NEW h \in Headers
                 PROVE  Get(h) \in Values \cup {Unset}
<1>1. headers[h] \in Seq(Values)
  OBVIOUS
<1>2. CASE headers[h] = <<>>
  BY <1>2 DEF Get
<1>3. CASE headers[h] # <<>>
  <2>1. Head(headers[h]) \in Values
    BY <1>1, <1>3
  <2> QED BY <1>3, <2>1 DEF Get
<1> QED BY <1>2, <1>3

LEMMA ChallengeType == ASSUME headers \in [Headers -> Seq(Values)] PROVE Challenge \in Challenges
BY GetType DEF Challenge, Challenges

LEMMA AttestInit == Init => AttestInv
<1> SUFFICES ASSUME Init PROVE AttestInv
  OBVIOUS
<1>1. status \in Codes /\ sent \in Responses \cup {Unset} /\ attestation \in Attestations
      /\ signed \in Challenges
  BY DEF Init, Codes, Attestations, Challenges, NoChallenge
<1>2. headers \in [Headers -> Seq(Values)]
  BY DEF Init
<1>3. attached \in BOOLEAN /\ dirty \in BOOLEAN /\ returned \in BOOLEAN
  BY Zenon DEF Init
<1>4. faults \in 0..MaxFaults
  BY AttestAssumption DEF Init
<1>5. TypeOK
  BY <1>1, <1>2, <1>3, <1>4 DEF TypeOK
<1>6. status # 402 /\ sent = Unset /\ ~attached
  BY DEF Init
<1> QED BY <1>5, <1>6 DEF AttestInv, AttestedAsSent

\* What attach does to the memo, whatever the status.
LEMMA AttachMemo == ASSUME AttestInv, NEW code \in Codes, Attach(code)
                    PROVE  /\ attestation' \in Attestations /\ attached' \in BOOLEAN
                           /\ signed' \in Challenges /\ faults' \in 0..MaxFaults
                           /\ attached' => attestation' = signed'
                           /\ faults' = MaxFaults => faults = MaxFaults
                           /\ code = 402 /\ sent = Unset /\ Challenge # NoChallenge
                                /\ faults' = MaxFaults => attestation' = Challenge
<1>1. Challenge \in Challenges
  BY ChallengeType DEF AttestInv, TypeOK
<1>2. CASE Attests(code) /\ attestation' = Challenge /\ attached' = TRUE /\ signed' = Challenge
           /\ UNCHANGED faults
  BY <1>1, <1>2 DEF Attests, Attestations, AttestInv, TypeOK
<1>3. CASE Attests(code) /\ faults > 0 /\ faults' = faults - 1 /\ UNCHANGED memo
  <2>1. faults \in Nat /\ faults <= MaxFaults /\ MaxFaults \in Nat
    BY AttestAssumption DEF AttestInv, TypeOK
  <2>2. faults' \in 0..MaxFaults /\ faults' # MaxFaults
    BY <1>3, <2>1
  <2> QED BY <1>3, <2>2 DEF memo, AttestInv, TypeOK
<1>4. CASE ~Attests(code) /\ UNCHANGED <<memo, faults>>
  <2>1. /\ attestation' = attestation /\ attached' = attached /\ signed' = signed
        /\ faults' = faults
    BY <1>4 DEF memo
  <2>2. attestation' \in Attestations /\ attached' \in BOOLEAN /\ signed' \in Challenges
        /\ faults' \in 0..MaxFaults /\ (attached' => attestation' = signed')
    BY Zenon, <2>1 DEF AttestInv, TypeOK
  <2>3. code = 402 /\ sent = Unset /\ Challenge # NoChallenge => attestation' = Challenge
    BY Zenon, <1>4, <2>1, <2>2 DEF Attests, UpToDate
  <2> QED BY <2>1, <2>2, <2>3
<1> QED BY Zenon, <1>2, <1>3, <1>4 DEF Attach, AttestOk, AttestFails

LEMMA EmitType == ASSUME AttestInv, NEW att \in Attestations, NEW unseen \in BOOLEAN,
                         Emit(att, unseen)
                  PROVE  sent' \in Responses /\ sent' # Unset
<1>1. Challenge \in Challenges /\ status \in Codes
  BY ChallengeType DEF AttestInv, TypeOK
<1>2. [status |-> status, challenge |-> Challenge, attestation |-> att, dirty |-> unseen]
        \in Responses
  BY <1>1 DEF Responses
<1>3. sent' \in Responses
  BY <1>2 DEF Emit, AttestInv, TypeOK
<1> QED BY <1>3, AttestAssumption

LEMMA AttestStep == AttestInv /\ [Next]_vars => AttestInv'
<1> SUFFICES ASSUME AttestInv, [Next]_vars PROVE AttestInv'
  OBVIOUS
<1>1. ASSUME NEW h \in Headers, NEW v \in Values, SetHeader(h, v) \/ AddHeader(h, v)
      PROVE  AttestInv'
  <2>1. /\ status' = status /\ attestation' = attestation /\ attached' = attached
        /\ signed' = signed /\ sent' = sent /\ returned' = returned /\ faults' = faults
        /\ dirty' = TRUE
    BY <1>1 DEF SetHeader, AddHeader, memo
  <2>2. headers' \in [Headers -> Seq(Values)]
    <3>1. headers \in [Headers -> Seq(Values)] /\ headers[h] \in Seq(Values)
      BY DEF AttestInv, TypeOK
    <3>2. <<v>> \in Seq(Values) /\ Append(headers[h], v) \in Seq(Values)
      BY <3>1
    <3> QED BY <1>1, <3>1, <3>2 DEF SetHeader, AddHeader
  <2>3. TypeOK'
    BY Zenon, <2>1, <2>2 DEF AttestInv, TypeOK
  <2>4. AttestedAsSent'
    BY <2>1 DEF AttestInv, AttestedAsSent
  <2> QED BY <2>1, <2>3, <2>4 DEF AttestInv
<1>2. ASSUME NEW code \in Codes, WriteHeader(code) PROVE AttestInv'
  <2>1. Pending(code) \in Codes
    BY DEF Pending, AttestInv, TypeOK
  <2>2. /\ status' = Pending(code) /\ headers' = headers /\ sent' = sent
        /\ returned' = returned /\ dirty' = FALSE /\ Attach(Pending(code))
    BY <1>2 DEF WriteHeader
  <2>3. Challenge' = Challenge
    BY <2>2 DEF Challenge, Get
  <2>4. TypeOK'
    BY Zenon, <2>1, <2>2, AttachMemo DEF AttestInv, TypeOK
  <2>5. AttestedAsSent'
    BY <2>1, <2>2, AttachMemo DEF AttestInv, AttestedAsSent
  <2> QED BY <2>1, <2>2, <2>3, <2>4, <2>5, AttachMemo DEF AttestInv, Pending
<1>3. CASE Write
  <2>1. /\ status' = status /\ headers' = headers /\ returned' = returned /\ dirty' = FALSE
        /\ status \in Codes /\ Attach(status) /\ Emit(attestation', FALSE)
    BY <1>3 DEF Write, AttestInv, TypeOK
  <2>2. Challenge' = Challenge
    BY <2>1 DEF Challenge, Get
  <2>3. sent' \in Responses \cup {Unset} /\ sent' # Unset
    BY <2>1, AttachMemo, EmitType
  <2>4. TypeOK'
    BY Zenon, <2>1, <2>3, AttachMemo DEF AttestInv, TypeOK
  <2>6. AttestedAsSent'
    <3>1. CASE sent = Unset
      BY <2>1, <3>1, AttachMemo DEF Emit, AttestedAsSent
    <3>2. CASE sent # Unset
      BY <2>1, <3>2, AttachMemo DEF Emit, AttestedAsSent, AttestInv
    <3> QED BY <3>1, <3>2
  <2> QED BY <2>1, <2>3, <2>4, <2>6, AttachMemo DEF AttestInv
<1>4. CASE Flush \/ Return
  <2>1. /\ status' = status /\ headers' = headers /\ attestation' = attestation
        /\ attached' = attached /\ signed' = signed /\ dirty' = dirty /\ faults' = faults
        /\ Emit(attestation, dirty)
    BY <1>4 DEF Flush, Return, memo
  <2>2. returned' \in BOOLEAN
    BY Zenon, <1>4 DEF Flush, Return, AttestInv, TypeOK
  <2>3. attestation \in Attestations /\ dirty \in BOOLEAN
    BY DEF AttestInv, TypeOK
  <2>5. sent' \in Responses \cup {Unset} /\ sent' # Unset
    BY Zenon, <2>1, <2>3, EmitType
  <2>4. TypeOK'
    BY Zenon, <2>1, <2>2, <2>5 DEF AttestInv, TypeOK
  <2>6. AttestedAsSent'
    BY <2>1 DEF Emit, AttestedAsSent, AttestInv
  <2> QED BY <2>1, <2>4, <2>5, <2>6 DEF AttestInv
<1>5. CASE UNCHANGED vars
  BY <1>5 DEF vars, memo, AttestInv, TypeOK, AttestedAsSent, Challenge, Get
<1> QED BY <1>1, <1>2, <1>3, <1>4, <1>5 DEF Next

-----------------------------------------------------------------------------
\* Every variable keeps its type, and no 402 without a challenge is ever attested.
THEOREM AttestTypeCorrect == Spec => []TypeOK
<1>1. AttestInv => TypeOK
  BY DEF AttestInv
<1> QED BY <1>1, AttestInit, AttestStep, PTL DEF Spec

\* A 402 whose headers the wrapper has seen carries an attestation of exactly its
\* challenge, in whatever order it was put together (middleware.go:47-113).
THEOREM ServedAttested == Spec => []AttestedAsSent
<1>1. AttestInv => AttestedAsSent
  BY DEF AttestInv
<1> QED BY <1>1, AttestInit, AttestStep, PTL DEF Spec
=============================================================================
