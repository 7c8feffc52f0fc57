----------------------------- MODULE Attestation ----------------------------
(***************************************************************************)
(* attest.Verify and Decode of tunnel/internal/attest/attest.go at a payer *)
(* that receives 402 responses, against what the robot signed and when.    *)
(* AttestWriter is the other end.  A Challenge is one value for the robot  *)
(* id, method, path and headers it is made of: the digest covers them all. *)
(*                                                                         *)
(* External: the relay between them, which may hold a response back, drop, *)
(* damage or exchange its header, and other keys.  Recovering the signer   *)
(* of another message than the one signed gives an address of nobody.      *)
(***************************************************************************)
EXTENDS Integers, FiniteSets

CONSTANTS
    Challenges,     \* what a robot may charge
    Operator,       \* address of the robot's key, which the payer expects
    Others,         \* addresses of other keys
    Nobody,         \* the address recovered from a signature of something else
    Second,         \* ticks of the clocks in a second
    DefaultMaxAge,  \* in ticks
    MaxAges,        \* values a payer may pass for maxAge, in ticks
    Skews,          \* how far the payer's clock may be ahead of the robot's
    MaxTime,        \* BOUND: ticks
    MaxSigned,      \* BOUND: signatures
    MaxReceived     \* BOUND: responses a payer verifies

Addresses == {Operator} \cup Others

ASSUME AttestationAssumption ==
    /\ Operator \notin Others /\ Nobody \notin Addresses
    /\ Second \in Nat \ {0} /\ DefaultMaxAge \in Nat \ {0}
    /\ MaxAges \subseteq Int /\ Skews \subseteq Int
    /\ MaxTime \in Nat /\ MaxSigned \in Nat /\ MaxReceived \in Nat

\* A signature and its message; at is when it was made.
Signatures == [by : Addresses, challenge : Challenges, issued : Int, at : 0..MaxTime]

VARIABLES
    now,        \* the robot's clock
    skew,       \* the payer's clock is now + skew
    maxAge,     \* what the payer passes to Verify
    signatures, \* everything that was signed, with the date in the message
    received    \* what the payer verified: [header, challenge, at, verdict]

vars == <<now, skew, maxAge, signatures, received>>

\* Header values: an envelope around a signature, also one altered on the way, or
\* one that Decode refuses (missing, malformed, another version) or whose signature
\* is not 65 bytes of hex.
Headers ==
    {[form |-> "envelope", signer |-> s, issued |-> t, signature |-> g] :
        s \in Addresses, t \in {g.issued : g \in signatures}, g \in signatures}
    \cup {[form |-> "undecodable"]}

TypeOK ==
    /\ now \in 0..MaxTime /\ skew \in Skews /\ maxAge \in MaxAges
    /\ signatures \subseteq Signatures
    /\ \A g \in signatures : g.by = Operator => g.at - g.issued \in 0..(Second - 1)
    /\ \A r \in received :
          /\ r.header \in Headers /\ r.challenge \in Challenges
          /\ r.at \in 0..MaxTime /\ r.ok \in BOOLEAN

Init ==
    /\ now = 0 /\ skew \in Skews /\ maxAge \in MaxAges
    /\ signatures = {} /\ received = {}

Tick == now < MaxTime /\ now' = now + 1 /\ UNCHANGED <<skew, maxAge, signatures, received>>

\* MUTANT: rounded up.
UnixCeiling(t) == t + (t % Second)

\* time.Now().Unix() drops the fraction of the second.
Unix(t) == t - (t % Second)

Sign(key, ch, issued) ==
    /\ Cardinality(signatures) < MaxSigned
    /\ signatures' = signatures \cup
         {[by |-> key, challenge |-> ch, issued |-> issued, at |-> now]}
    /\ UNCHANGED <<now, skew, maxAge, received>>

\* Signer.Attest.
Attest(ch) == Sign(Operator, ch, Unix(now))

\* crypto.SigToPub, over the digest of ch with the date of the envelope.
Recovered(h, ch) ==
    IF h.signature.challenge = ch /\ h.signature.issued = h.issued THEN h.signature.by ELSE Nobody

EffectiveMaxAge == IF maxAge <= 0 THEN DefaultMaxAge ELSE maxAge

\* MUTANT: the bound is exclusive.
ExpiredAtMaxAge(issued, t) == t - issued >= EffectiveMaxAge

Expired(issued, t) == t - issued > EffectiveMaxAge

\* MUTANT: no attestation is too young.
NeverFuture(issued, t) == FALSE

FutureDated(issued, t) == issued > t + EffectiveMaxAge

\* MUTANT: the envelope's own signer is the one expected.
VerifySelfSigned(h, ch, t) ==
    /\ h.form = "envelope" /\ ~Expired(h.issued, t) /\ ~FutureDated(h.issued, t)
    /\ h.signer = Recovered(h, ch)

\* Whether Verify returns nil: an envelope of this version whose date is in the
\* window, whose signature recovers the operator, and that names it.
Verify(h, ch, t) ==
    /\ h.form = "envelope" /\ ~Expired(h.issued, t) /\ ~FutureDated(h.issued, t)
    /\ Recovered(h, ch) = Operator /\ h.signer = Operator

Receive(h, ch) ==
    /\ Cardinality(received) < MaxReceived
    /\ received' = received \cup
         {[header |-> h, challenge |-> ch, at |-> now, ok |-> Verify(h, ch, now + skew)]}
    /\ UNCHANGED <<now, skew, maxAge, signatures>>

Next ==
    \/ Tick
    \/ \E ch \in Challenges :
          \/ Attest(ch)
          \/ \E k \in Others, t \in {0, MaxTime} : Sign(k, ch, t)
          \/ \E h \in Headers : Receive(h, ch)

Spec == Init /\ [][Next]_vars

-----------------------------------------------------------------------------
(* Properties *)

Accepted == {r \in received : r.ok}

\* attest.go:11-13, 205-208.  What a payer accepts is exactly what the operator's key
\* signed, at the date of the envelope, whatever else was signed and however headers
\* and challenges were exchanged on the way.
AcceptedWasServed ==
    \A r \in Accepted : \E g \in signatures :
        g.by = Operator /\ g.challenge = r.challenge /\ g.issued = r.header.issued

\* attest.go:45-47, "so a captured challenge cannot be replayed against a later price".
\* One attestation is accepted over at most maxAge, and longer only by what the payer's
\* clock lags, and never over more than twice maxAge: the window is symmetric.
ReplayEnds ==
    \A r, s \in Accepted :
        r.header.signature = s.header.signature =>
            /\ r.at - s.at <= 2 * EffectiveMaxAge
            /\ r.at - s.at <= EffectiveMaxAge - skew

\* An unaltered response is accepted if it arrives within maxAge, less what the payer's
\* clock is ahead and the second that IssuedAt is rounded down by.
UnalteredAccepted ==
    \A r \in received :
        /\ r.header.form = "envelope"
        /\ LET g == r.header.signature
           IN  /\ g.by = Operator /\ g.challenge = r.challenge
               /\ r.header.signer = Operator /\ r.header.issued = g.issued
               /\ r.at - g.at + skew + (Second - 1) <= EffectiveMaxAge
               /\ -skew <= EffectiveMaxAge
        => r.ok

-----------------------------------------------------------------------------
\* What makes them inductive: a verdict is that of Verify when the response arrived, on
\* a signature that had been made by then.
VerdictInv ==
    \A r \in received :
        /\ r.ok <=> Verify(r.header, r.challenge, r.at + skew)
        /\ r.header.form = "envelope" =>
              r.header.signature \in signatures /\ r.header.signature.at <= r.at

PastInv == \A g \in signatures : g.at <= now

AttestationInv == TypeOK /\ VerdictInv /\ PastInv
=============================================================================
