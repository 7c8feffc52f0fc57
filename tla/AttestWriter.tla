---------------------------- MODULE AttestWriter ----------------------------
(***************************************************************************)
(* The writer that attest/middleware.go wraps around gin's for one         *)
(* response: it signs the payment challenge on the way to a 402, and again *)
(* when the challenge changes before the response is sent.                 *)
(*                                                                         *)
(* External: the middlewares and handlers that write through it, in any    *)
(* order, and gin's own writer, which keeps the status until a body, a     *)
(* flush or the end of the request sends it with the headers of then.      *)
(***************************************************************************)
EXTENDS Naturals, Sequences

CONSTANTS
    Values,      \* what a payment middleware may put in a challenge header
    Unset,       \* no value
    MaxValues,   \* BOUND: values per header
    MaxFaults    \* BOUND: how many times signing may fail

Headers == {"PAYMENT-REQUIRED", "WWW-Authenticate"}
Codes == {200, 400, 402}

VARIABLES
    status,      \* gin's pending status
    headers,     \* headers[h]: the values of h
    attestation, \* the challenge that PAYMENT-REQUIREMENTS-SIGNATURE signs, or Unset
    attached,    \* attestWriter.attached
    signed,      \* attestWriter.signedRequired and signedWWWAuth
    dirty,       \* a challenge header changed since the wrapper last looked
    sent,        \* the response as it left gin, or Unset
    returned,    \* the handler chain has returned
    faults       \* faults left of MaxFaults

memo == <<attestation, attached, signed>>
vars == <<status, headers, memo, dirty, sent, returned, faults>>

\* http.Header.Get, and all that dispatchRequest relays: the first value.
Get(h) == IF headers[h] = <<>> THEN Unset ELSE Head(headers[h])
Challenge == [h \in Headers |-> Get(h)]
NoChallenge == [h \in Headers |-> Unset]
Challenges == [Headers -> Values \cup {Unset}]
Attestations == (Challenges \ {NoChallenge}) \cup {Unset}
Responses == [status : Codes, challenge : Challenges, attestation : Attestations, dirty : BOOLEAN]

ASSUME AttestAssumption ==
    /\ MaxFaults \in Nat /\ MaxValues \in Nat
    /\ Unset \notin Values \cup Responses

TypeOK ==
    /\ status \in Codes
    /\ headers \in [Headers -> Seq(Values)]
    /\ attestation \in Attestations /\ attached \in BOOLEAN /\ signed \in Challenges
    /\ dirty \in BOOLEAN /\ returned \in BOOLEAN
    /\ sent \in Responses \cup {Unset}
    /\ faults \in 0..MaxFaults

Init ==
    /\ status = 200 /\ headers = [h \in Headers |-> <<>>]
    /\ attestation = Unset /\ attached = FALSE /\ signed = NoChallenge
    /\ dirty = FALSE /\ sent = Unset /\ returned = FALSE /\ faults = MaxFaults

\* c.Header replaces the values of a header, Header().Add appends one.
SetHeader(h, v) ==
    /\ ~returned
    /\ headers' = [headers EXCEPT ![h] = <<v>>] /\ dirty' = TRUE
    /\ UNCHANGED <<status, memo, sent, returned, faults>>

AddHeader(h, v) ==
    /\ ~returned /\ Len(headers[h]) < MaxValues
    /\ headers' = [headers EXCEPT ![h] = Append(@, v)] /\ dirty' = TRUE
    /\ UNCHANGED <<status, memo, sent, returned, faults>>

\* MUTANT: the memo forgets one of the two headers.
UpToDateRequired == attached /\ Get("PAYMENT-REQUIRED") = signed["PAYMENT-REQUIRED"]

UpToDate == attached /\ Challenge = signed

\* MUTANT: a 402 without a challenge is attested too.
AttestsAny(code) == code = 402 /\ sent = Unset /\ ~UpToDate

\* Whether attach goes on to sign, with this status.
Attests(code) == code = 402 /\ sent = Unset /\ Challenge # NoChallenge /\ ~UpToDate

AttestOk ==
    attestation' = Challenge /\ attached' = TRUE /\ signed' = Challenge /\ UNCHANGED faults

\* A failed signature leaves whatever was attached before.
AttestFails == faults > 0 /\ faults' = faults - 1 /\ UNCHANGED memo

\* The wrapper's attach, when the status is code.
Attach(code) ==
    IF Attests(code) THEN AttestOk \/ AttestFails ELSE UNCHANGED <<memo, faults>>

\* gin ignores a status that comes after the response was sent.
Pending(code) == IF sent = Unset THEN code ELSE status

WriteHeader(code) ==
    /\ ~returned
    /\ status' = Pending(code) /\ Attach(Pending(code)) /\ dirty' = FALSE
    /\ UNCHANGED <<headers, sent, returned>>

\* gin's WriteHeaderNow, with the attestation header of that moment.
Emit(att, unseen) ==
    sent' = IF sent = Unset
              THEN [status |-> status, challenge |-> Challenge, attestation |-> att,
                    dirty |-> unseen]
              ELSE sent

\* MUTANT: the header goes out before the attestation is brought up to date.
WriteThenAttach ==
    /\ ~returned
    /\ Attach(status) /\ Emit(attestation, FALSE) /\ dirty' = FALSE
    /\ UNCHANGED <<status, headers, returned>>

\* Write, WriteString and WriteHeaderNow of the wrapper: attach, then send.
Write ==
    /\ ~returned
    /\ Attach(status) /\ Emit(attestation', FALSE) /\ dirty' = FALSE
    /\ UNCHANGED <<status, headers, returned>>

\* Flush is gin's own method: it sends without attach.
Flush ==
    /\ ~returned /\ Emit(attestation, dirty)
    /\ UNCHANGED <<status, headers, memo, dirty, returned, faults>>

\* The chain returned; gin sends what is pending through its own writer.
Return ==
    /\ ~returned /\ returned' = TRUE /\ Emit(attestation, dirty)
    /\ UNCHANGED <<status, headers, memo, dirty, faults>>

Next ==
    \/ \E h \in Headers, v \in Values : SetHeader(h, v) \/ AddHeader(h, v)
    \/ \E code \in Codes : WriteHeader(code)
    \/ Write \/ Flush \/ Return

Spec == Init /\ [][Next]_vars

-----------------------------------------------------------------------------
\* "The attestation must cover the response as served, not a half-built snapshot of
\* it" (attest_test.go:366): however statuses, challenge headers and bodies are
\* interleaved, a 402 is sent with an attestation of exactly the challenge that goes
\* with it, if signing works and no challenge header changed after the last call of
\* the wrapper (gin then sends the change by itself, middleware.go:47-66).
AttestedAsSent ==
    sent # Unset /\ sent.status = 402 /\ sent.challenge # NoChallenge
      /\ ~sent.dirty /\ faults = MaxFaults
    => sent.attestation = sent.challenge

\* What makes it inductive: the memo is the attestation, and the attestation of a
\* pending 402 is up to date when the wrapper has seen its headers.
AttestInv ==
    /\ TypeOK /\ AttestedAsSent
    /\ attached => attestation = signed
    /\ status = 402 /\ sent = Unset /\ Challenge # NoChallenge /\ ~dirty /\ faults = MaxFaults
         => attestation = Challenge
=============================================================================
