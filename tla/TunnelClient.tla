---------------------------- MODULE TunnelClient ----------------------------
(***************************************************************************)
(* The robot's end of the WebSocket tunnel: Client.Run, readLoop,          *)
(* dispatchRequest and writeEnvelope of tunnel/internal/client.go, driven  *)
(* by the loop of tunnel/cmd/main.go and restarted by docker-compose.      *)
(*                                                                         *)
(* Goroutines of one process: Run (run), one watcher per connection        *)
(* (watcher[c]) and one dispatcher per request (pc[r]).  They share the    *)
(* cancelled context (ctxDone), the connections and the write mutex.       *)
(*                                                                         *)
(* The proxy and the network are external.  They are modelled from what    *)
(* the code can observe of them: a nonce, the answer to a handshake, a     *)
(* message, a read or write error, and a link that is up, silently stalled *)
(* or known to be down.                                                    *)
(***************************************************************************)
EXTENDS Integers, FiniteSets

CONSTANTS
    Requests,   \* request ids the proxy may send down the tunnel, each once
    Refusals,   \* [status, reason] answers the proxy may refuse a handshake with
    Junk,       \* a message that is no request envelope
    MaxFaults   \* BOUND: how many times the environment may misbehave

ASSUME TunnelAssumption ==
    /\ MaxFaults \in Nat
    /\ Junk \notin Requests
    /\ Refusals \subseteq [status : Nat, reason : STRING]

\* A new connection is dialled only after the last one was lost to a fault, so
\* this many handshakes is all that a behaviour can need: no further bound.
MaxConns == MaxFaults + 1
Conns == 1..MaxConns
NoConn == 0

VARIABLES
    \* the process
    proc,       \* "running", "exited" (main returned), "fatal" (logger.Fatal), "crashed"
    ctxDone,    \* the signal context is cancelled
    \* Client.Run
    run,        \* where Run is: "select", "nonce", "dial", "sleep", "reading", "stopped"
    backoff,    \* seconds to sleep after the next failed dial
    nonce,      \* the proxy's view of the nonce Run holds
    refusal,    \* the reason in the last refused handshake
    cur,        \* number of the latest connection; connections are 1, 2, ...
    conn,       \* conn[c]: "none", "open" or "closed" on the client's side
    watcher,    \* watcher[c]: the goroutine that closes c when the context ends
    \* dispatchRequest and writeEnvelope
    pc,         \* pc[r]: where the dispatcher of r is
    home,       \* home[r]: the connection r arrived on, captured by its dispatcher
    status,     \* status[r]: how the response of r was produced
    exec,       \* exec[r]: how often the handler acted on the robot for r
    writeMu,    \* writeMu is locked
    \* the network and the proxy
    link,       \* link[c]: "none", "up", "stalled" or "down"
    wire,       \* wire[c]: messages for the client, in flight or in its buffers
    session,    \* the connection the proxy holds for this robot id, or NoConn
    rival,      \* another robot holds this robot id at the proxy
    sent,       \* requests the proxy has sent
    answer,     \* answer[r]: what the proxy received for r
    faults      \* faults left of MaxFaults

procVars == <<proc, ctxDone>>
runVars  == <<run, backoff, nonce, refusal, cur>>
connVars == <<conn, watcher>>
dispVars == <<pc, home, status, exec, writeMu>>
netVars  == <<link, wire>>
proxyVars == <<session, rival, sent, answer>>
vars == <<procVars, runVars, connVars, dispVars, netVars, proxyVars, faults>>

Backoffs == {1, 2, 4, 8, 16, 30}
InFlight == {"start", "acted", "reply", "write", "sendFailed"}
Finished == {"sent", "failed", "dead"}
Statuses == {"none", "returned", "badPath", "panicked"}

\* The two refusals whose cause the model tracks.
InUse == [status |-> 409, reason |-> "robot_id_in_use"]
NonceRejected == [status |-> 401, reason |-> "nonce_rejected"]
Responses == Refusals \cup {InUse, NonceRejected}
Reasons == {""} \cup {resp.reason : resp \in Responses}

TypeOK ==
    /\ proc \in {"running", "exited", "fatal", "crashed"}
    /\ ctxDone \in BOOLEAN
    /\ run \in {"select", "nonce", "dial", "sleep", "reading", "stopped"}
    /\ backoff \in Backoffs
    /\ nonce \in {"none", "fresh", "expired", "spent"}
    /\ refusal \in Reasons
    /\ cur \in 0..MaxConns
    /\ conn \in [Conns -> {"none", "open", "closed"}]
    /\ watcher \in [Conns -> {"none", "waiting", "done"}]
    /\ pc \in [Requests -> {"none"} \cup InFlight \cup Finished]
    /\ home \in [Requests -> 0..MaxConns]
    /\ status \in [Requests -> Statuses]
    /\ exec \in [Requests -> Nat]
    /\ writeMu \in BOOLEAN
    /\ link \in [Conns -> {"none", "up", "stalled", "down"}]
    /\ wire \in [Conns -> SUBSET (Requests \cup {Junk})]
    /\ session \in 0..MaxConns
    /\ rival \in BOOLEAN
    /\ sent \subseteq Requests
    /\ answer \in [Requests -> Statuses]
    /\ faults \in 0..MaxFaults

Init ==
    /\ proc = "running" /\ ctxDone = FALSE
    /\ run = "select" /\ backoff = 1 /\ nonce = "none" /\ refusal = "" /\ cur = 0
    /\ conn = [c \in Conns |-> "none"] /\ watcher = [c \in Conns |-> "none"]
    /\ pc = [r \in Requests |-> "none"] /\ home = [r \in Requests |-> NoConn]
    /\ status = [r \in Requests |-> "none"] /\ exec = [r \in Requests |-> 0]
    /\ writeMu = FALSE
    /\ link = [c \in Conns |-> "none"] /\ wire = [c \in Conns |-> {}]
    /\ session = NoConn /\ rival = FALSE /\ sent = {}
    /\ answer = [r \in Requests |-> "none"]
    /\ faults = MaxFaults

Running(at) == proc = "running" /\ run = at
Fault == faults > 0 /\ faults' = faults - 1

-----------------------------------------------------------------------------
(* The end of the process: its memory, goroutines and sockets are gone.      *)

Die(how) ==
    /\ proc' = how
    /\ conn' = [c \in Conns |-> IF conn[c] = "open" THEN "closed" ELSE conn[c]]
    /\ watcher' = [c \in Conns |-> IF watcher[c] = "waiting" THEN "done" ELSE watcher[c]]
    /\ pc' = [r \in Requests |-> IF pc[r] \in InFlight THEN "dead" ELSE pc[r]]
    /\ writeMu' = FALSE
    /\ UNCHANGED <<ctxDone, home, status, exec>>

Close(c) == conn' = [conn EXCEPT ![c] = "closed"]

-----------------------------------------------------------------------------
(* Client.Run *)

\* The select at the top of the loop.
CheckCtx ==
    /\ Running("select")
    /\ run' = IF ctxDone THEN "stopped" ELSE "nonce"
    /\ UNCHANGED <<procVars, backoff, nonce, refusal, cur, connVars, dispVars,
                   netVars, proxyVars, faults>>

\* fetchNonce succeeded and the nonce is signed.
FetchNonce ==
    /\ Running("nonce")
    /\ run' = "dial" /\ nonce' = "fresh"
    /\ UNCHANGED <<procVars, backoff, refusal, cur, connVars, dispVars, netVars,
                   proxyVars, faults>>

\* fetchNonce failed: the request was cancelled, or the proxy gave no nonce.
FetchNonceFails ==
    /\ Running("nonce")
    /\ IF ctxDone THEN UNCHANGED faults ELSE Fault
    /\ run' = "sleep"
    /\ UNCHANGED <<procVars, backoff, nonce, refusal, cur, connVars, dispVars,
                   netVars, proxyVars>>

\* The proxy accepts a handshake with a valid nonce for an id nobody holds.
HandshakeAccepted(l) ==
    /\ Running("dial")
    /\ nonce = "fresh" /\ session = NoConn /\ ~rival
    /\ cur < MaxConns
    /\ cur' = cur + 1 /\ session' = cur' /\ nonce' = "spent"
    /\ link' = [link EXCEPT ![cur'] = l]

DialAccepted ==
    /\ HandshakeAccepted("up")
    /\ backoff' = 1
    /\ conn' = [conn EXCEPT ![cur'] = "open"]
    /\ watcher' = [watcher EXCEPT ![cur'] = "waiting"]
    /\ run' = "reading"
    /\ UNCHANGED <<procVars, refusal, dispVars, wire, rival, sent, answer, faults>>

\* The proxy accepted, but the 101 never reached the client.
DialReplyLost ==
    /\ HandshakeAccepted("down") /\ Fault
    /\ conn' = [conn EXCEPT ![cur'] = "closed"]
    /\ run' = "sleep"
    /\ UNCHANGED <<procVars, backoff, refusal, watcher, dispVars, wire, rival, sent, answer>>

\* The dial failed without an HTTP answer: cancelled, timed out or no network.
DialNetError ==
    /\ Running("dial")
    /\ IF ctxDone THEN UNCHANGED faults ELSE Fault
    /\ nonce' = "spent" /\ run' = "sleep"
    /\ UNCHANGED <<procVars, backoff, refusal, cur, connVars, dispVars, netVars, proxyVars>>

TerminalRejections ==
    {"not_staked", "invalid_signature", "address_mismatch", "invalid_address",
     "missing_authentication", "missing_robot_id", "robot_id_in_use"}

\* handshakeRejection's third result; a body that is not the proxy's JSON has reason "".
Terminal(resp) == IF resp.reason = "" THEN resp.status \in {400, 401, 403, 409}
                                      ELSE resp.reason \in TerminalRejections

\* How the proxy may refuse in this state; any of Refusals is a fault of its own.
RefusedWith(resp) ==
    \/ resp = InUse /\ (session # NoConn \/ rival) /\ UNCHANGED faults
    \/ resp = NonceRejected /\ nonce # "fresh" /\ UNCHANGED faults
    \/ resp \in Refusals /\ Fault

\* A refused handshake: logger.Fatal when handshakeRejection says terminal.
DialRefused(resp) ==
    /\ Running("dial")
    /\ RefusedWith(resp)
    /\ nonce' = "spent" /\ refusal' = resp.reason
    /\ IF Terminal(resp)
         THEN Die("fatal") /\ UNCHANGED run
         ELSE run' = "sleep" /\ UNCHANGED <<procVars, connVars, dispVars>>
    /\ UNCHANGED <<backoff, cur, netVars, proxyVars>>

\* MUTANT: the backoff grows by a second at a time.
LinearBackoff(b) == IF b >= 30 THEN 30 ELSE b + 1

NextBackoff(b) == IF b >= 30 THEN 30 ELSE IF 2 * b > 30 THEN 30 ELSE 2 * b

\* MUTANT: sleepWithContext mixes up its results, so Run returns after a sleep.
SleepDoneReturns ==
    /\ Running("sleep")
    /\ run' = "stopped"
    /\ UNCHANGED <<procVars, backoff, nonce, refusal, cur, connVars, dispVars, netVars,
                   proxyVars, faults>>

\* MUTANT: a retry presents the nonce of the failed attempt again.
SleepDoneKeepsNonce ==
    /\ Running("sleep")
    /\ backoff' = NextBackoff(backoff) /\ run' = IF nonce = "none" THEN "select" ELSE "dial"
    /\ UNCHANGED <<procVars, nonce, refusal, cur, connVars, dispVars, netVars,
                   proxyVars, faults>>

\* sleepWithContext returned true.
SleepDone ==
    /\ Running("sleep")
    /\ backoff' = NextBackoff(backoff) /\ run' = "select"
    /\ UNCHANGED <<procVars, nonce, refusal, cur, connVars, dispVars, netVars,
                   proxyVars, faults>>

\* sleepWithContext returned false: Run returns.
SleepCancelled ==
    /\ Running("sleep") /\ ctxDone
    /\ run' = "stopped"
    /\ UNCHANGED <<procVars, backoff, nonce, refusal, cur, connVars, dispVars,
                   netVars, proxyVars, faults>>

\* readLoop: bytes that reached the client are delivered even after the socket
\* is closed or broken, since ReadMessage empties its buffer first.
Receive(m) ==
    /\ Running("reading")
    /\ m \in wire[cur]
    /\ wire' = [wire EXCEPT ![cur] = @ \ {m}]

\* Not JSON or not a request: logged and skipped.
ReadJunk ==
    /\ Receive(Junk)
    /\ UNCHANGED <<procVars, runVars, connVars, dispVars, link, proxyVars, faults>>

ReadRequest(r) ==
    /\ Receive(r)
    /\ pc' = [pc EXCEPT ![r] = "start"]
    /\ home' = [home EXCEPT ![r] = cur]
    /\ UNCHANGED <<procVars, runVars, connVars, status, exec, writeMu, link, proxyVars, faults>>

\* MUTANT: Run redials without closing the connection it stopped reading.
ReadFailsUnclosed ==
    /\ Running("reading")
    /\ conn[cur] = "closed" \/ link[cur] = "down"
    /\ run' = "select"
    /\ UNCHANGED <<procVars, backoff, nonce, refusal, cur, connVars, dispVars,
                   netVars, proxyVars, faults>>

\* MUTANT: readLoop goes on after a network error.
ReadFailsIgnored ==
    /\ Running("reading")
    /\ conn[cur] = "closed"
    /\ Close(cur) /\ run' = "select"
    /\ UNCHANGED <<procVars, backoff, nonce, refusal, cur, watcher, dispVars,
                   netVars, proxyVars, faults>>

\* ReadMessage fails, readLoop returns and Run closes the connection.
ReadFails ==
    /\ Running("reading")
    /\ conn[cur] = "closed" \/ link[cur] = "down"
    /\ Close(cur) /\ run' = "select"
    /\ UNCHANGED <<procVars, backoff, nonce, refusal, cur, watcher, dispVars,
                   netVars, proxyVars, faults>>

\* MUTANT: the watcher does not close its connection.
WatcherEnds(c) ==
    /\ proc = "running" /\ watcher[c] = "waiting" /\ ctxDone
    /\ watcher' = [watcher EXCEPT ![c] = "done"]
    /\ UNCHANGED <<conn, procVars, runVars, dispVars, netVars, proxyVars, faults>>

\* The goroutine Run starts for every connection.
WatcherCloses(c) ==
    /\ proc = "running" /\ watcher[c] = "waiting" /\ ctxDone
    /\ watcher' = [watcher EXCEPT ![c] = "done"]
    /\ Close(c)
    /\ UNCHANGED <<procVars, runVars, dispVars, netVars, proxyVars, faults>>

\* Run has returned: main exits, or would start a new client.
MainLoop ==
    /\ Running("stopped")
    /\ IF ctxDone
         THEN Die("exited") /\ UNCHANGED <<run, backoff>>
         ELSE run' = "select" /\ backoff' = 1 /\ UNCHANGED <<procVars, connVars, dispVars>>
    /\ UNCHANGED <<nonce, refusal, cur, netVars, proxyVars, faults>>

-----------------------------------------------------------------------------
(* dispatchRequest and writeEnvelope, one goroutine per request *)

At(r, l) == proc = "running" /\ pc[r] = l
Goto(r, l) == pc' = [pc EXCEPT ![r] = l]

dispRest == <<procVars, runVars, watcher, netVars, session, rival, sent, faults>>

\* url.Parse failed: 400 without calling the handler.
BadPath(r) ==
    /\ At(r, "start")
    /\ Goto(r, "reply") /\ status' = [status EXCEPT ![r] = "badPath"]
    /\ UNCHANGED <<dispRest, conn, home, exec, writeMu, answer>>

\* Inside ServeHTTP the handler publishes the action: the robot moves.
HandlerActs(r) ==
    /\ At(r, "start")
    /\ Goto(r, "acted") /\ exec' = [exec EXCEPT ![r] = @ + 1]
    /\ UNCHANGED <<dispRest, conn, home, status, writeMu, answer>>

\* ServeHTTP returned, with or without having acted.
HandlerReturns(r) ==
    /\ At(r, "start") \/ At(r, "acted")
    /\ Goto(r, "reply") /\ status' = [status EXCEPT ![r] = "returned"]
    /\ UNCHANGED <<dispRest, conn, home, exec, writeMu, answer>>

\* MUTANT: nothing recovers, so the panic ends the process.
HandlerPanicKills(r) ==
    /\ At(r, "start") \/ At(r, "acted")
    /\ Die("crashed")
    /\ UNCHANGED <<runVars, netVars, proxyVars, faults>>

\* ServeHTTP panicked: the deferred function recovers and answers 500.
HandlerPanics(r) ==
    /\ At(r, "start") \/ At(r, "acted")
    /\ Goto(r, "reply") /\ status' = [status EXCEPT ![r] = "panicked"]
    /\ UNCHANGED <<dispRest, conn, home, exec, writeMu, answer>>

\* MUTANT: writeEnvelope does not lock.
WriteUnlocked(r) ==
    /\ At(r, "reply")
    /\ Goto(r, "write") /\ writeMu' = TRUE
    /\ UNCHANGED <<dispRest, conn, home, status, exec, answer>>

LockWrite(r) ==
    /\ At(r, "reply") /\ ~writeMu
    /\ Goto(r, "write") /\ writeMu' = TRUE
    /\ UNCHANGED <<dispRest, conn, home, status, exec, answer>>

\* WriteJSON ends and the mutex is unlocked.
Unlock(r, l) == At(r, "write") /\ Goto(r, l) /\ writeMu' = FALSE

WriteOk(r) ==
    /\ Unlock(r, "sent")
    /\ conn[home[r]] = "open" /\ link[home[r]] = "up"
    /\ answer' = [answer EXCEPT ![r] = status[r]]
    /\ UNCHANGED <<dispRest, conn, home, status, exec>>

\* WriteJSON filled a socket buffer whose bytes never reach the proxy.  On a stalled
\* link it may also find the buffer full and block: then this step is never taken.
WriteBuffered(r) ==
    /\ Unlock(r, "sent")
    /\ conn[home[r]] = "open" /\ link[home[r]] \in {"stalled", "down"}
    /\ UNCHANGED <<dispRest, conn, home, status, exec, answer>>

\* MUTANT: an error return that skips the unlock.
WriteErrLocked(r) ==
    /\ At(r, "write") /\ Goto(r, "sendFailed")
    /\ conn[home[r]] = "closed" \/ link[home[r]] = "down"
    /\ UNCHANGED <<dispRest, conn, home, status, exec, writeMu, answer>>

\* WriteJSON returned an error; a write blocked on a stalled link ends here too.
WriteErr(r) ==
    /\ Unlock(r, "sendFailed")
    /\ conn[home[r]] = "closed" \/ link[home[r]] = "down"
    /\ UNCHANGED <<dispRest, conn, home, status, exec, answer>>

\* MUTANT: a failed send is only logged.
SendFailureIgnored(r) ==
    /\ At(r, "sendFailed")
    /\ Goto(r, "failed")
    /\ UNCHANGED <<dispRest, conn, home, status, exec, writeMu, answer>>

\* MUTANT: a failed send closes the client's current connection, not its own.
SendFailureClosesCurrent(r) ==
    /\ At(r, "sendFailed")
    /\ Goto(r, "failed")
    /\ IF ctxDone THEN UNCHANGED conn ELSE Close(cur)
    /\ UNCHANGED <<dispRest, home, status, exec, writeMu, answer>>

\* MUTANT: a failed send dispatches the request again.
SendFailureRetries(r) ==
    /\ At(r, "sendFailed")
    /\ Goto(r, "start")
    /\ UNCHANGED <<dispRest, conn, home, status, exec, writeMu, answer>>

\* The rest of the deferred function, after the mutex was released.
SendFailure(r) ==
    /\ At(r, "sendFailed")
    /\ Goto(r, "failed")
    /\ IF ctxDone THEN UNCHANGED conn ELSE Close(home[r])
    /\ UNCHANGED <<dispRest, home, status, exec, writeMu, answer>>

-----------------------------------------------------------------------------
(* The operator, the host and docker-compose (restart: unless-stopped) *)

\* SIGINT or SIGTERM cancels the signal context.
Cancel ==
    /\ proc = "running" /\ ~ctxDone
    /\ ctxDone' = TRUE
    /\ UNCHANGED <<proc, runVars, connVars, dispVars, netVars, proxyVars, faults>>

Crash ==
    /\ proc = "running" /\ Fault
    /\ Die("crashed")
    /\ UNCHANGED <<runVars, netVars, proxyVars>>

Restart ==
    /\ proc \in {"fatal", "crashed"} /\ ~ctxDone
    /\ proc' = "running"
    /\ run' = "select" /\ backoff' = 1 /\ nonce' = "none" /\ refusal' = ""
    /\ UNCHANGED <<ctxDone, cur, connVars, dispVars, netVars, proxyVars, faults>>

-----------------------------------------------------------------------------
(* The network and the proxy (external) *)

outside == <<procVars, runVars, connVars, dispVars>>

\* Packets are silently lost from now on; the link never comes back.
LinkStalls(c) ==
    /\ link[c] = "up" /\ Fault
    /\ link' = [link EXCEPT ![c] = "stalled"]
    /\ UNCHANGED <<outside, wire, proxyVars>>

\* The client's kernel learns that the link is gone: a reset, or a close by the proxy.
LinkBreaks(c) ==
    /\ link[c] = "up" /\ Fault
    /\ link' = [link EXCEPT ![c] = "down"]
    /\ UNCHANGED <<outside, wire, proxyVars>>

\* TCP keepalive or retransmission gives up on a stalled link.
KeepaliveExpires(c) ==
    /\ link[c] = "stalled"
    /\ link' = [link EXCEPT ![c] = "down"]
    /\ UNCHANGED <<outside, wire, proxyVars, faults>>

\* The proxy notices, some time later, that its connection is dead.
ProxyDropsSession ==
    /\ session # NoConn
    /\ conn[session] = "closed" \/ link[session] \in {"stalled", "down"}
    /\ session' = NoConn
    /\ UNCHANGED <<outside, netVars, rival, sent, answer, faults>>

ProxySends(m) ==
    /\ session # NoConn /\ link[session] = "up"
    /\ m \notin sent /\ m \notin wire[session]
    /\ IF m = Junk THEN Fault ELSE UNCHANGED faults
    /\ sent' = sent \cup ({m} \cap Requests)
    /\ wire' = [wire EXCEPT ![session] = @ \cup {m}]
    /\ UNCHANGED <<outside, link, session, rival, answer>>

NonceExpires ==
    /\ nonce = "fresh" /\ Fault
    /\ nonce' = "expired"
    /\ UNCHANGED <<procVars, run, backoff, refusal, cur, connVars, dispVars,
                   netVars, proxyVars>>

RivalConnects ==
    /\ session = NoConn /\ ~rival /\ Fault
    /\ rival' = TRUE
    /\ UNCHANGED <<outside, netVars, session, sent, answer>>

RivalLeaves ==
    /\ rival /\ rival' = FALSE
    /\ UNCHANGED <<outside, netVars, session, sent, answer, faults>>

-----------------------------------------------------------------------------
RunStep ==
    \/ CheckCtx \/ FetchNonce \/ FetchNonceFails
    \/ DialAccepted \/ DialReplyLost \/ DialNetError
    \/ \E resp \in Responses : DialRefused(resp)
    \/ SleepDone \/ SleepCancelled
    \/ ReadJunk \/ (\E r \in Requests : ReadRequest(r)) \/ ReadFails
    \/ MainLoop

Dispatch(r) ==
    \/ BadPath(r) \/ HandlerActs(r) \/ HandlerReturns(r) \/ HandlerPanics(r)
    \/ LockWrite(r) \/ WriteOk(r) \/ WriteBuffered(r) \/ WriteErr(r) \/ SendFailure(r)

HostStep == Cancel \/ Crash \/ Restart

NetStep ==
    \/ \E c \in Conns : LinkStalls(c) \/ LinkBreaks(c) \/ KeepaliveExpires(c)
    \/ ProxyDropsSession
    \/ \E m \in Requests \cup {Junk} : ProxySends(m)
    \/ NonceExpires \/ RivalConnects \/ RivalLeaves

Next ==
    \/ RunStep
    \/ \E c \in Conns : WatcherCloses(c)
    \/ \E r \in Requests : Dispatch(r)
    \/ HostStep
    \/ NetStep

Spec == Init /\ [][Next]_vars

-----------------------------------------------------------------------------
(* Fairness *)

\* Every goroutine of the process keeps running, unless it is blocked.  A dial or a
\* nonce fetch is only sure to end once the context is cancelled.
RunProgress ==
    \/ CheckCtx \/ SleepDone \/ SleepCancelled \/ ReadFails \/ MainLoop
    \/ ReadJunk \/ \E r \in Requests : ReadRequest(r)
    \/ ctxDone /\ (FetchNonceFails \/ DialNetError)

\* A handler returns and a write ends on a link that carries it or is known to be
\* broken.  WriteBuffered is not here: a write has no deadline (client.go:356), so on
\* a stalled link it may block for ever.
DispatchProgress(r) ==
    \/ BadPath(r) \/ HandlerActs(r) \/ HandlerReturns(r) \/ HandlerPanics(r)
    \/ LockWrite(r) \/ WriteOk(r) \/ WriteErr(r) \/ SendFailure(r)

ClientFairness ==
    /\ WF_vars(RunProgress)
    /\ \A c \in Conns : WF_vars(WatcherCloses(c))
    /\ \A r \in Requests : WF_vars(DispatchProgress(r))

\* The proxy answers, drops dead sessions, rivals leave, dead links are found
\* out and docker restarts the container.
DialEnds ==
    \/ FetchNonce \/ FetchNonceFails \/ DialAccepted \/ DialNetError
    \/ \E resp \in Responses : DialRefused(resp)

WorldFairness ==
    /\ WF_vars(DialEnds) /\ WF_vars(Restart)
    /\ WF_vars(ProxyDropsSession) /\ WF_vars(RivalLeaves)
    /\ \A c \in Conns : WF_vars(KeepaliveExpires(c))

ClientSpec == Spec /\ ClientFairness
FairSpec == Spec /\ ClientFairness /\ WorldFairness

-----------------------------------------------------------------------------
(* Properties *)

\* gorilla/websocket allows one concurrent writer.  writeMu is shared by every
\* connection of the Client, so no two dispatchers, whatever connection each
\* captured, are ever inside WriteJSON together (client.go:352-357).
WriteExclusion ==
    \A r, s \in Requests : pc[r] = "write" /\ pc[s] = "write" => r = s

\* The only connection the process has open is the latest one and Run is reading
\* it: whichever of Run, the watchers and the dispatchers closed which connection
\* in which order, none is left behind open and unread (client.go:223-232).
OneOpenConnection ==
    \A c \in Conns : conn[c] = "open" => proc = "running" /\ run = "reading" /\ c = cur

\* A dispatcher whose response could not be sent leaves no open connection on
\* which the caller would wait for it, unless the process is shutting down
\* (client.go:307-313).
SendFailureSevers ==
    \A r \in Requests : pc[r] = "failed" => conn[home[r]] = "closed" \/ ctxDone

\* A late dispatcher of an old connection, or anything else in the client, never
\* closes a connection whose link is healthy, except to shut down or when the
\* process ends (client.go:224,232,312).
HealthyConnectionKept ==
    [][\A c \in Conns :
          conn[c] = "open" /\ conn'[c] = "closed" /\ link[c] = "up"
            => ctxDone \/ proc' # "running"]_vars

\* Run returns to main's loop only after cancellation, so the branch of main that
\* builds a second router and Client after 100 ms is dead (main.go:96-99).
RunReturnsOnlyWhenCancelled == Running("stopped") => ctxDone

\* The nonce is single-use: every handshake, the first or a retry after any
\* failure, presents one that was never presented before (client.go:130,242).
NoncePresentedOnce == Running("dial") => nonce # "spent"

\* An action that moved the robot goes unanswered only if the environment failed
\* at least once or the process is being shut down: no interleaving of Run, the
\* dispatchers and the write mutex loses a response by itself.
AnsweredUnlessFault ==
    \A r \in Requests :
       pc[r] \in Finished /\ exec[r] > 0 /\ answer[r] = "none"
         => faults < MaxFaults \/ ctxDone

\* What makes the safety properties inductive.  Nothing is known of a connection
\* before its handshake, and a dispatcher's connection is one that was accepted.
ConnHistory ==
    /\ \A c \in Conns : conn[c] # "none" \/ watcher[c] # "none" \/ link[c] # "none" => c <= cur
    /\ Running("reading") => cur >= 1
    /\ \A r \in Requests : pc[r] # "none" => home[r] \in 1..cur

\* A writer holds the mutex, and a dispatcher that saw a write error saw it on a
\* connection that is closed or broken, which it stays.
WriterLocks == \A r \in Requests : pc[r] = "write" => writeMu
FailureSeen == \A r \in Requests :
    pc[r] = "sendFailed" => conn[home[r]] = "closed" \/ link[home[r]] = "down"

TunnelInv ==
    /\ TypeOK /\ ConnHistory /\ OneOpenConnection
    /\ WriterLocks /\ WriteExclusion /\ FailureSeen /\ SendFailureSevers
    /\ RunReturnsOnlyWhenCancelled /\ NoncePresentedOnce

\* What has become of r.
Call(r) ==
    CASE pc[r] = "none" -> "new"
      [] pc[r] \in {"start", "acted"} -> "handling"
      [] pc[r] \in {"reply", "write"} -> "handled"
      [] pc[r] = "sent" /\ answer[r] # "none" -> "answered"
      [] OTHER -> "dropped"

Relay == INSTANCE RequestRelay WITH
    up <- proc = "running", acts <- exec, outcome <- status, call <- [r \in Requests |-> Call(r)]

\* The client implements the abstract relay: at most one execution per request,
\* answered at most once and truthfully, nothing resumed by a restart
\* (client.go:270-357).
RelaySpec == Relay!RelaySpec

\* After SIGINT or SIGTERM the process ends although the proxy may never answer
\* again: the cancelled context interrupts the nonce fetch, the dial and the
\* sleep, and the watcher interrupts the read (client.go:137,185,223,259,364).
ShutdownCompletes == ctxDone ~> proc # "running"

\* A writer holds writeMu and is blocked on a link that nobody knows to be dead.
BlockedOn(c) ==
    /\ link[c] = "stalled" /\ conn[c] = "open"
    /\ \E r \in Requests : pc[r] = "write" /\ home[r] = c

\* Every dispatched request comes to an end.  Nothing bounds a write (client.go:356 sets
\* no deadline), so one thing can keep all of them waiting: a writer that holds writeMu
\* on a link which is never found out to be dead.
DispatchEnds ==
    \/ \A r \in Requests : (pc[r] \in InFlight ~> pc[r] \in Finished)
    \/ \E c \in Conns : <>[]BlockedOn(c)

Connected == run = "reading" /\ conn[cur] = "open" /\ link[cur] = "up"

\* Once the environment stops failing the robot is connected for good, with the
\* retries, the restarts and the proxy's view of the session all converging.
EventuallyConnected == <>[](Connected \/ ctxDone)

\* The explanation the client logs for robot_id_in_use before it gives up:
\* "another robot is already connected with this id" (client.go:34).
RefusedOnlyByAnotherRobot ==
    [][proc = "running" /\ proc' = "fatal" /\ refusal' = "robot_id_in_use" => rival]_vars
=============================================================================
