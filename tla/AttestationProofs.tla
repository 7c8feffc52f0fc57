-------------------------- MODULE AttestationProofs -------------------------
(* Theorems about Attestation, for any keys, challenges, clocks and windows.  *)
EXTENDS Attestation, TLAPS

\* Unix drops less than a second.
LEMMA UnixDrops == ASSUME NEW t \in Nat PROVE Unix(t) \in Int /\ t - Unix(t) \in 0..(Second - 1)
BY AttestationAssumption DEF Unix

LEMMA AttestationInit == Init => AttestationInv
BY AttestationAssumption DEF Init, AttestationInv, TypeOK, VerdictInv, PastInv

\* Signing adds a signature made now; what was received does not change.
LEMMA SignStep == ASSUME AttestationInv, NEW key \in Addresses, NEW ch \in Challenges,
                         NEW issued \in Int, Sign(key, ch, issued),
                         key = Operator => now - issued \in 0..(Second - 1)
                  PROVE  AttestationInv'
<1> DEFINE g == [by |-> key, challenge |-> ch, issued |-> issued, at |-> now]
<1>1. /\ signatures' = signatures \cup {g} /\ received' = received
      /\ now' = now /\ skew' = skew /\ maxAge' = maxAge
  BY DEF Sign
<1>2. g \in Signatures /\ g.at = now /\ g.by = key /\ g.issued = issued
  BY DEF AttestationInv, TypeOK, Signatures
<1> HIDE DEF g
<1>3. Headers \subseteq Headers'
  BY <1>1 DEF Headers
<1>4. TypeOK'
  BY <1>1, <1>2, <1>3 DEF AttestationInv, TypeOK
<1>5. PastInv'
  BY <1>1, <1>2 DEF AttestationInv, TypeOK, PastInv
<1>6. VerdictInv'
  BY <1>1 DEF AttestationInv, VerdictInv, Verify, Expired, FutureDated, Recovered, EffectiveMaxAge
<1> QED BY <1>4, <1>5, <1>6 DEF AttestationInv

\* Verifying a response adds its verdict.
LEMMA ReceiveStep == ASSUME AttestationInv, NEW h \in Headers, NEW ch \in Challenges, Receive(h, ch)
                     PROVE  AttestationInv'
<1> DEFINE r == [header |-> h, challenge |-> ch, at |-> now, ok |-> Verify(h, ch, now + skew)]
<1>1. /\ received' = received \cup {r} /\ signatures' = signatures
      /\ now' = now /\ skew' = skew /\ maxAge' = maxAge
  BY DEF Receive
<1>2. /\ r.header = h /\ r.challenge = ch /\ r.at = now /\ r.ok = Verify(h, ch, now + skew)
  OBVIOUS
<1>3. Verify(h, ch, now + skew) \in BOOLEAN
  BY Zenon DEF Verify
<1> HIDE DEF r
<1>4. Headers' = Headers
  BY <1>1 DEF Headers
<1>5. TypeOK'
  BY <1>1, <1>2, <1>3, <1>4 DEF AttestationInv, TypeOK
<1>6. PastInv'
  BY <1>1 DEF AttestationInv, PastInv
<1>7. VerdictInv'
  <2>1. h.form = "envelope" => h.signature \in signatures /\ h.signature.at <= now
    BY DEF Headers, AttestationInv, PastInv
  <2>2. r.ok <=> Verify(r.header, r.challenge, r.at + skew)
    BY <1>2
  <2>3. \A q \in received' :
          /\ q.ok <=> Verify(q.header, q.challenge, q.at + skew)
          /\ q.header.form = "envelope" =>
                q.header.signature \in signatures /\ q.header.signature.at <= q.at
    BY <1>1, <1>2, <2>1, <2>2 DEF AttestationInv, VerdictInv
  <2> QED BY <1>1, <2>3
       DEF VerdictInv, Verify, Expired, FutureDated, Recovered, EffectiveMaxAge
<1> QED BY <1>5, <1>6, <1>7 DEF AttestationInv

LEMMA AttestationStep == AttestationInv /\ [Next]_vars => AttestationInv'
<1> SUFFICES ASSUME AttestationInv, [Next]_vars PROVE AttestationInv'
  OBVIOUS
<1>1. now \in Nat
  BY AttestationAssumption DEF AttestationInv, TypeOK
<1>2. CASE Tick
  <2>1. /\ now' = now + 1 /\ now' \in 0..MaxTime
        /\ signatures' = signatures /\ received' = received /\ skew' = skew /\ maxAge' = maxAge
    BY <1>2, AttestationAssumption DEF Tick, AttestationInv, TypeOK
  <2>2. Headers' = Headers
    BY <2>1 DEF Headers
  <2>3. TypeOK'
    BY <2>1, <2>2 DEF AttestationInv, TypeOK
  <2>4. PastInv'
    BY <1>1, <2>1 DEF AttestationInv, TypeOK, Signatures, PastInv
  <2>5. VerdictInv'
    BY <2>1 DEF AttestationInv, VerdictInv, Verify, Expired, FutureDated, Recovered, EffectiveMaxAge
  <2> QED BY <2>3, <2>4, <2>5 DEF AttestationInv
<1>3. ASSUME NEW ch \in Challenges, Attest(ch) PROVE AttestationInv'
  <2>1. Unix(now) \in Int /\ now - Unix(now) \in 0..(Second - 1)
    BY <1>1, UnixDrops
  <2> QED BY <1>3, <2>1, SignStep DEF Attest, Addresses
<1>4. ASSUME NEW ch \in Challenges, NEW k \in Others, NEW t \in {0, MaxTime}, Sign(k, ch, t)
      PROVE AttestationInv'
  <2>1. t \in Int
    BY AttestationAssumption
  <2>2. k # Operator
    BY AttestationAssumption
  <2> QED BY <1>4, <2>1, <2>2, SignStep DEF Addresses
<1>5. ASSUME NEW ch \in Challenges, NEW h \in Headers, Receive(h, ch) PROVE AttestationInv'
  BY <1>5, ReceiveStep
<1>6. CASE UNCHANGED vars
  BY <1>6 DEF vars, AttestationInv, TypeOK, VerdictInv, PastInv, Headers, Verify, Expired,
     FutureDated, Recovered, EffectiveMaxAge
<1> QED BY <1>2, <1>3, <1>4, <1>5, <1>6 DEF Next

THEOREM AttestationInvCorrect == Spec => []AttestationInv
BY AttestationInit, AttestationStep, PTL DEF Spec

\* Every variable keeps its type, and the operator's attestations are dated at most a
\* second before they are made (attest.go:157).
THEOREM AttestationTypeCorrect == Spec => []TypeOK
<1>1. AttestationInv => TypeOK
  BY DEF AttestationInv
<1> QED BY <1>1, AttestationInvCorrect, PTL

\* A payer accepts exactly what the operator signed, at its date (attest.go:198-263).
THEOREM OnlyServedAccepted == Spec => []AcceptedWasServed
<1>1. AttestationInv => AcceptedWasServed
  <2> SUFFICES ASSUME AttestationInv, NEW r \in received, r.ok
               PROVE  \E g \in signatures :
                        g.by = Operator /\ g.challenge = r.challenge /\ g.issued = r.header.issued
    BY DEF AcceptedWasServed, Accepted
  <2>1. Verify(r.header, r.challenge, r.at + skew)
    BY DEF AttestationInv, VerdictInv
  <2>2. r.header.signature \in signatures
    BY <2>1 DEF AttestationInv, VerdictInv, Verify
  <2>3. Recovered(r.header, r.challenge) = Operator
    BY <2>1 DEF Verify
  <2>4. /\ r.header.signature.challenge = r.challenge
        /\ r.header.signature.issued = r.header.issued /\ r.header.signature.by = Operator
    BY <2>3, AttestationAssumption DEF Recovered, Addresses
  <2> QED BY <2>2, <2>4
<1> QED BY <1>1, AttestationInvCorrect, PTL

LEMMA WindowType == ASSUME TypeOK PROVE EffectiveMaxAge \in Nat /\ skew \in Int
BY AttestationAssumption DEF TypeOK, EffectiveMaxAge

\* One attestation is accepted over at most maxAge less the payer's skew, and at most
\* over twice maxAge (attest.go:223-229).
THEOREM ReplayBounded == Spec => []ReplayEnds
<1>1. AttestationInv => ReplayEnds
  <2> SUFFICES ASSUME AttestationInv, NEW r \in received, r.ok, NEW s \in received, s.ok,
                      r.header.signature = s.header.signature
               PROVE  /\ r.at - s.at <= 2 * EffectiveMaxAge
                      /\ r.at - s.at <= EffectiveMaxAge - skew
    BY DEF ReplayEnds, Accepted
  <2> DEFINE g == r.header.signature
  <2>1. EffectiveMaxAge \in Nat /\ skew \in Int /\ r.at \in Nat /\ s.at \in Nat
    BY WindowType, AttestationAssumption DEF AttestationInv, TypeOK
  <2>2. \A q \in {r, s} : /\ Verify(q.header, q.challenge, q.at + skew)
                          /\ q.header.form = "envelope"
                          /\ q.header.signature \in signatures /\ q.header.signature.at <= q.at
    BY DEF AttestationInv, VerdictInv, Verify
  <2>3. \A q \in {r, s} : q.header.issued = q.header.signature.issued /\ q.header.signature.by = Operator
    BY <2>2, AttestationAssumption DEF Verify, Recovered, Addresses
  <2>4. g \in signatures /\ g.by = Operator /\ g.at <= s.at
        /\ r.header.issued = g.issued /\ s.header.issued = g.issued
    BY <2>2, <2>3
  <2>5. g.issued \in Int /\ g.at \in Nat /\ g.issued <= g.at
    BY <2>4, AttestationAssumption DEF AttestationInv, TypeOK, Signatures
  <2>6. (r.at + skew) - g.issued <= EffectiveMaxAge
    BY <2>1, <2>2, <2>4, <2>5 DEF Verify, Expired
  <2>7. g.issued <= (s.at + skew) + EffectiveMaxAge
    BY <2>1, <2>2, <2>4, <2>5 DEF Verify, FutureDated
  <2> HIDE DEF g
  <2> QED BY <2>1, <2>4, <2>5, <2>6, <2>7
<1> QED BY <1>1, AttestationInvCorrect, PTL

\* An unaltered response is accepted within maxAge, less the skew and a second.
THEOREM UnalteredIsAccepted == Spec => []UnalteredAccepted
<1>1. AttestationInv => UnalteredAccepted
  <2> SUFFICES ASSUME AttestationInv, NEW r \in received, r.header.form = "envelope",
                      r.header.signature.by = Operator,
                      r.header.signature.challenge = r.challenge,
                      r.header.signer = Operator,
                      r.header.issued = r.header.signature.issued,
                      r.at - r.header.signature.at + skew + (Second - 1) <= EffectiveMaxAge,
                      -skew <= EffectiveMaxAge
               PROVE  r.ok
    BY DEF UnalteredAccepted
  <2> DEFINE g == r.header.signature
  <2>1. EffectiveMaxAge \in Nat /\ skew \in Int /\ r.at \in Nat /\ Second \in Nat
    BY WindowType, AttestationAssumption DEF AttestationInv, TypeOK
  <2>2. g \in signatures /\ g.at <= r.at
    BY DEF AttestationInv, VerdictInv
  <2>3. g.issued \in Int /\ g.at \in Nat /\ g.at - g.issued \in 0..(Second - 1)
    BY <2>2, AttestationAssumption DEF AttestationInv, TypeOK, Signatures
  <2>4. ~Expired(g.issued, r.at + skew) /\ ~FutureDated(g.issued, r.at + skew)
    <3>1. g.at - g.issued <= Second - 1 /\ g.issued <= g.at
      BY <2>1, <2>3
    <3>2. r.at - g.at + skew + (Second - 1) <= EffectiveMaxAge
      OBVIOUS
    <3> HIDE DEF g
    <3> QED BY <2>1, <2>2, <2>3, <3>1, <3>2 DEF Expired, FutureDated
  <2>5. Verify(r.header, r.challenge, r.at + skew)
    BY <2>4 DEF Verify, Recovered
  <2> QED BY <2>5 DEF AttestationInv, VerdictInv
<1> QED BY <1>1, AttestationInvCorrect, PTL
=============================================================================
