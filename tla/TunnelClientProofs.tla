------------------------- MODULE TunnelClientProofs -------------------------
(* Theorems about TunnelClient, for every set of requests, every set of       *)
(* refusals and every number of faults; and that it implements RequestRelay.  *)
EXTENDS TunnelClient, TLAPS

USE DEF procVars, runVars, connVars, dispVars, netVars, proxyVars, dispRest, outside

LEMMA Bounds == /\ 0 \in 0..MaxConns /\ MaxConns \in Nat
                /\ MaxFaults \in 0..MaxFaults /\ 0 \in 0..MaxFaults
  BY TunnelAssumption DEF MaxConns

LEMMA TypeInit == Init => TypeOK
<1> SUFFICES ASSUME Init PROVE TypeOK
  OBVIOUS
<1>1. ctxDone \in BOOLEAN /\ writeMu \in BOOLEAN /\ rival \in BOOLEAN
  BY Zenon DEF Init
<1> USE Bounds DEF Init, NoConn, Statuses
<1>2. /\ proc \in {"running", "exited", "fatal", "crashed"}
      /\ run \in {"select", "nonce", "dial", "sleep", "reading", "stopped"}
      /\ backoff \in Backoffs
      /\ nonce \in {"none", "fresh", "expired", "spent"}
      /\ refusal \in Reasons
  BY DEF Backoffs, Reasons
<1>3. /\ cur \in 0..MaxConns /\ session \in 0..MaxConns /\ faults \in 0..MaxFaults
      /\ sent \subseteq Requests
  OBVIOUS
<1>4. /\ conn \in [Conns -> {"none", "open", "closed"}]
      /\ watcher \in [Conns -> {"none", "waiting", "done"}]
      /\ link \in [Conns -> {"none", "up", "stalled", "down"}]
      /\ wire \in [Conns -> SUBSET (Requests \cup {Junk})]
  OBVIOUS
<1>5. /\ pc \in [Requests -> {"none"} \cup InFlight \cup Finished]
      /\ home \in [Requests -> 0..MaxConns]
      /\ status \in [Requests -> Statuses]
      /\ exec \in [Requests -> Nat]
      /\ answer \in [Requests -> Statuses]
  OBVIOUS
<1> QED BY <1>1, <1>2, <1>3, <1>4, <1>5 DEF TypeOK

LEMMA DieType == ASSUME TypeOK, NEW how \in {"exited", "fatal", "crashed"}, Die(how)
                 PROVE  /\ proc' \in {"running", "exited", "fatal", "crashed"}
                        /\ ctxDone' \in BOOLEAN
                        /\ conn' \in [Conns -> {"none", "open", "closed"}]
                        /\ watcher' \in [Conns -> {"none", "waiting", "done"}]
                        /\ pc' \in [Requests -> {"none"} \cup InFlight \cup Finished]
                        /\ home' \in [Requests -> 0..MaxConns]
                        /\ status' \in [Requests -> Statuses]
                        /\ exec' \in [Requests -> Nat]
                        /\ writeMu' \in BOOLEAN
  BY DEF Die, TypeOK, InFlight, Finished

\* No step leaves the types, however the goroutines, the proxy and the network interleave.
LEMMA TypeStep == TypeOK /\ [Next]_vars => TypeOK'
<1> SUFFICES ASSUME TypeOK, [Next]_vars PROVE TypeOK'
  OBVIOUS
<1> USE TunnelAssumption DEF TypeOK, Running, Fault, Close, NoConn
<1>1. CASE RunStep
  <2>1. CASE CheckCtx \/ FetchNonce \/ FetchNonceFails \/ SleepCancelled \/ DialNetError
    BY <2>1 DEF CheckCtx, FetchNonce, FetchNonceFails, SleepCancelled, DialNetError
  <2>2. CASE DialAccepted
    BY <2>2 DEF DialAccepted, HandshakeAccepted, Conns, Backoffs, MaxConns
  <2>3. CASE DialReplyLost
    BY <2>3 DEF DialReplyLost, HandshakeAccepted, Conns, MaxConns
  <2>4. ASSUME NEW resp \in Responses, DialRefused(resp)
        PROVE  TypeOK'
    <3>1. resp.reason \in Reasons
      BY DEF Reasons
    <3>2. faults' \in 0..MaxFaults
      BY <2>4 DEF DialRefused, RefusedWith
    <3>3. CASE Terminal(resp)
      BY <2>4, <3>1, <3>2, <3>3, DieType DEF DialRefused
    <3>4. CASE ~Terminal(resp)
      BY <2>4, <3>1, <3>2, <3>4 DEF DialRefused
    <3> QED BY <3>3, <3>4
  <2>5. CASE SleepDone
    BY <2>5 DEF SleepDone, NextBackoff, Backoffs
  <2>6. CASE ReadJunk \/ ReadFails
    BY <2>6 DEF ReadJunk, ReadFails, Receive
  <2>7. ASSUME NEW r \in Requests, ReadRequest(r) PROVE TypeOK'
    BY <2>7 DEF ReadRequest, Receive, InFlight
  <2>8. CASE MainLoop
    BY <2>8, DieType DEF MainLoop, Backoffs
  <2> QED BY <1>1, <2>1, <2>2, <2>3, <2>4, <2>5, <2>6, <2>7, <2>8 DEF RunStep
<1>2. ASSUME NEW c \in Conns, WatcherCloses(c) PROVE TypeOK'
  BY <1>2 DEF WatcherCloses
<1>3. ASSUME NEW r \in Requests, Dispatch(r) PROVE TypeOK'
  <2> USE DEF At, Goto, InFlight, Finished, Statuses
  <2>1. CASE BadPath(r) \/ HandlerActs(r) \/ HandlerReturns(r) \/ HandlerPanics(r)
    BY <2>1 DEF BadPath, HandlerActs, HandlerReturns, HandlerPanics
  <2>2. CASE LockWrite(r) \/ WriteOk(r) \/ WriteBuffered(r) \/ WriteErr(r)
    <3>1. writeMu' \in BOOLEAN
      BY <2>2, Zenon DEF LockWrite, WriteOk, WriteBuffered, WriteErr, Unlock
    <3> QED BY <2>2, <3>1 DEF LockWrite, WriteOk, WriteBuffered, WriteErr, Unlock
  <2>3. CASE SendFailure(r)
    BY <2>3 DEF SendFailure
  <2> QED BY <1>3, <2>1, <2>2, <2>3 DEF Dispatch
<1>4. CASE HostStep
  <2>1. CASE Cancel
    <3>1. ctxDone' \in BOOLEAN
      BY <2>1, Zenon DEF Cancel
    <3> QED BY <2>1, <3>1 DEF Cancel
  <2>3. CASE Restart
    BY <2>3 DEF Restart, Backoffs, Reasons
  <2>2. CASE Crash
    BY <2>2, DieType DEF Crash
  <2> QED BY <1>4, <2>1, <2>2, <2>3 DEF HostStep
<1>5. CASE NetStep
  <2>1. ASSUME NEW c \in Conns, LinkStalls(c) \/ LinkBreaks(c) \/ KeepaliveExpires(c)
        PROVE  TypeOK'
    BY <2>1 DEF LinkStalls, LinkBreaks, KeepaliveExpires
  <2>2. CASE ProxyDropsSession \/ NonceExpires
    BY <2>2 DEF ProxyDropsSession, NonceExpires, MaxConns
  <2>4. CASE RivalConnects \/ RivalLeaves
    <3>1. rival' \in BOOLEAN
      BY <2>4, Zenon DEF RivalConnects, RivalLeaves
    <3>2. CASE RivalConnects
      BY <3>1, <3>2 DEF RivalConnects
    <3>3. CASE RivalLeaves
      BY <3>1, <3>3 DEF RivalLeaves
    <3> QED BY <2>4, <3>2, <3>3
  <2>3. ASSUME NEW m \in Requests \cup {Junk}, ProxySends(m) PROVE TypeOK'
    BY <2>3 DEF ProxySends, Conns, MaxConns
  <2> QED BY <1>5, <2>1, <2>2, <2>3, <2>4 DEF NetStep
<1>6. CASE UNCHANGED vars
  BY <1>6 DEF vars
<1> QED BY <1>1, <1>2, <1>3, <1>4, <1>5, <1>6 DEF Next

\* TypeOK holds of every behaviour of the tunnel client.
THEOREM TypeCorrect == Spec => []TypeOK
<1>1. Init => TypeOK
  BY TypeInit
<1>2. TypeOK /\ [Next]_vars => TypeOK'
  BY TypeStep
<1> QED BY <1>1, <1>2, PTL DEF Spec

-----------------------------------------------------------------------------
(* The inductive invariant *)

LEMMA HistoryStep == TypeOK /\ ConnHistory /\ [Next]_vars => ConnHistory'
<1> SUFFICES ASSUME TypeOK, ConnHistory, [Next]_vars PROVE ConnHistory'
  OBVIOUS
<1> USE TunnelAssumption, Bounds DEF TypeOK, ConnHistory, Running, Close, NoConn, Conns
<1>1. CASE RunStep
  <2>1. CASE CheckCtx \/ FetchNonce \/ FetchNonceFails \/ SleepCancelled \/ DialNetError \/ SleepDone
    BY <2>1 DEF CheckCtx, FetchNonce, FetchNonceFails, SleepCancelled, DialNetError, SleepDone
  <2>2. CASE DialAccepted
    BY <2>2 DEF DialAccepted, HandshakeAccepted
  <2>3. CASE DialReplyLost
    BY <2>3 DEF DialReplyLost, HandshakeAccepted
  <2>4. ASSUME NEW resp \in Responses, DialRefused(resp) PROVE ConnHistory'
    BY <2>4 DEF DialRefused, Die, InFlight
  <2>5. CASE ReadJunk \/ ReadFails
    BY <2>5 DEF ReadJunk, ReadFails, Receive
  <2>6. ASSUME NEW r \in Requests, ReadRequest(r) PROVE ConnHistory'
    BY <2>6 DEF ReadRequest, Receive
  <2>7. CASE MainLoop
    BY <2>7 DEF MainLoop, Die, InFlight
  <2> QED BY <1>1, <2>1, <2>2, <2>3, <2>4, <2>5, <2>6, <2>7 DEF RunStep
<1>2. ASSUME NEW c \in Conns, WatcherCloses(c) PROVE ConnHistory'
  BY <1>2 DEF WatcherCloses
<1>3. ASSUME NEW r \in Requests, Dispatch(r) PROVE ConnHistory'
  <2> USE DEF At, Goto
  <2>1. CASE BadPath(r) \/ HandlerActs(r) \/ HandlerReturns(r) \/ HandlerPanics(r)
    BY <2>1 DEF BadPath, HandlerActs, HandlerReturns, HandlerPanics
  <2>2. CASE LockWrite(r) \/ WriteOk(r) \/ WriteBuffered(r) \/ WriteErr(r)
    BY <2>2 DEF LockWrite, WriteOk, WriteBuffered, WriteErr, Unlock
  <2>3. CASE SendFailure(r)
    BY <2>3 DEF SendFailure
  <2> QED BY <1>3, <2>1, <2>2, <2>3 DEF Dispatch
<1>4. CASE HostStep
  BY <1>4 DEF HostStep, Cancel, Crash, Restart, Die, InFlight
<1>5. CASE NetStep
  <2>1. ASSUME NEW c \in Conns, LinkStalls(c) \/ LinkBreaks(c) \/ KeepaliveExpires(c)
        PROVE  ConnHistory'
    BY <2>1 DEF LinkStalls, LinkBreaks, KeepaliveExpires
  <2>2. CASE ProxyDropsSession \/ NonceExpires \/ RivalConnects \/ RivalLeaves
    BY <2>2 DEF ProxyDropsSession, NonceExpires, RivalConnects, RivalLeaves
  <2>3. ASSUME NEW m \in Requests \cup {Junk}, ProxySends(m) PROVE ConnHistory'
    BY <2>3 DEF ProxySends
  <2> QED BY <1>5, <2>1, <2>2, <2>3 DEF NetStep
<1>6. CASE UNCHANGED vars
  BY <1>6 DEF vars
<1> QED BY <1>1, <1>2, <1>3, <1>4, <1>5, <1>6 DEF Next

LEMMA OneOpenStep == TypeOK /\ ConnHistory /\ OneOpenConnection /\ [Next]_vars
                       => OneOpenConnection'
<1> SUFFICES ASSUME TypeOK, ConnHistory, OneOpenConnection, [Next]_vars
             PROVE  OneOpenConnection'
  OBVIOUS
<1> USE TunnelAssumption, Bounds DEF TypeOK, ConnHistory, OneOpenConnection, Running, Close, Conns
<1>1. CASE RunStep
  <2>1. CASE CheckCtx \/ FetchNonce \/ FetchNonceFails \/ SleepCancelled \/ DialNetError \/ SleepDone
    BY <2>1 DEF CheckCtx, FetchNonce, FetchNonceFails, SleepCancelled, DialNetError, SleepDone
  <2>2. CASE DialAccepted \/ DialReplyLost
    BY <2>2 DEF DialAccepted, DialReplyLost, HandshakeAccepted
  <2>3. ASSUME NEW resp \in Responses, DialRefused(resp) PROVE OneOpenConnection'
    BY <2>3 DEF DialRefused, Die
  <2>4. CASE ReadJunk \/ ReadFails \/ (\E r \in Requests : ReadRequest(r))
    BY <2>4 DEF ReadJunk, ReadFails, ReadRequest, Receive
  <2>5. CASE MainLoop
    BY <2>5 DEF MainLoop, Die
  <2> QED BY <1>1, <2>1, <2>2, <2>3, <2>4, <2>5 DEF RunStep
<1>2. ASSUME NEW c \in Conns, WatcherCloses(c) PROVE OneOpenConnection'
  BY <1>2 DEF WatcherCloses
<1>3. ASSUME NEW r \in Requests, Dispatch(r) PROVE OneOpenConnection'
  <2>1. CASE SendFailure(r)
    BY <2>1 DEF SendFailure, At
  <2>2. CASE ~SendFailure(r)
    BY <1>3, <2>2 DEF Dispatch, BadPath, HandlerActs, HandlerReturns, HandlerPanics,
                      LockWrite, WriteOk, WriteBuffered, WriteErr
  <2> QED BY <2>1, <2>2
<1>4. CASE HostStep
  BY <1>4 DEF HostStep, Cancel, Crash, Restart, Die
<1>5. CASE NetStep
  BY <1>5 DEF NetStep, LinkStalls, LinkBreaks, KeepaliveExpires, ProxyDropsSession,
              ProxySends, NonceExpires, RivalConnects, RivalLeaves
<1>6. CASE UNCHANGED vars
  BY <1>6 DEF vars
<1> QED BY <1>1, <1>2, <1>3, <1>4, <1>5, <1>6 DEF Next

LEMMA MutexStep == TypeOK /\ WriterLocks /\ WriteExclusion /\ [Next]_vars
                     => WriterLocks' /\ WriteExclusion'
<1> SUFFICES ASSUME TypeOK, WriterLocks, WriteExclusion, [Next]_vars
             PROVE  WriterLocks' /\ WriteExclusion'
  OBVIOUS
<1> DEFINE Writing(r) == pc[r] = "write"
<1>0. /\ pc \in [Requests -> {"none"} \cup InFlight \cup Finished]
      /\ \A r \in Requests : Writing(r) => writeMu
      /\ \A r, s \in Requests : Writing(r) /\ Writing(s) => r = s
  BY DEF TypeOK, WriterLocks, WriteExclusion
<1>1. ASSUME writeMu' = writeMu, \A r \in Requests : Writing(r)' => Writing(r)
      PROVE  WriterLocks' /\ WriteExclusion'
  BY <1>0, <1>1, Zenon DEF WriterLocks, WriteExclusion
<1>2. ASSUME \A r \in Requests : ~Writing(r)'
      PROVE  WriterLocks' /\ WriteExclusion'
  BY <1>2, Zenon DEF WriterLocks, WriteExclusion
<1>3. ASSUME NEW r \in Requests, Dispatch(r) PROVE WriterLocks' /\ WriteExclusion'
  <2> USE DEF At, Goto
  <2>1. CASE BadPath(r) \/ HandlerActs(r) \/ HandlerReturns(r) \/ HandlerPanics(r) \/ SendFailure(r)
    <3>1. writeMu' = writeMu
      BY <2>1, Zenon DEF BadPath, HandlerActs, HandlerReturns, HandlerPanics, SendFailure
    <3>2. \A s \in Requests : Writing(s)' => Writing(s)
      BY <1>0, <2>1 DEF BadPath, HandlerActs, HandlerReturns, HandlerPanics, SendFailure
    <3> QED BY <3>1, <3>2, <1>1
  <2>2. CASE LockWrite(r)
    <3>1. \A s \in Requests : ~Writing(s)
      BY <1>0, <2>2, Zenon DEF LockWrite
    <3>2. \A s \in Requests : Writing(s)' => s = r
      BY <1>0, <2>2, <3>1 DEF LockWrite
    <3>3. writeMu'
      BY <2>2, Zenon DEF LockWrite
    <3> QED BY <3>2, <3>3, Zenon DEF WriterLocks, WriteExclusion
  <2>3. CASE WriteOk(r) \/ WriteBuffered(r) \/ WriteErr(r)
    <3>1. \A s \in Requests : ~Writing(s)'
      BY <1>0, <2>3 DEF WriteOk, WriteBuffered, WriteErr, Unlock
    <3> QED BY <3>1, <1>2
  <2> QED BY <1>3, <2>1, <2>2, <2>3 DEF Dispatch
<1>4. ASSUME NEW how, Die(how) PROVE WriterLocks' /\ WriteExclusion'
  <2>1. \A s \in Requests : ~Writing(s)'
    BY <1>0, <1>4 DEF Die, InFlight
  <2> QED BY <2>1, <1>2
<1>5. ASSUME NEW r \in Requests, ReadRequest(r) PROVE WriterLocks' /\ WriteExclusion'
  <2>1. writeMu' = writeMu
    BY <1>5, Zenon DEF ReadRequest
  <2>2. \A s \in Requests : Writing(s)' => Writing(s)
    BY <1>0, <1>5 DEF ReadRequest
  <2> QED BY <2>1, <2>2, <1>1
<1>6. CASE UNCHANGED <<pc, writeMu>>
  BY <1>6, <1>1
<1>7. RunStep => \/ UNCHANGED <<pc, writeMu>>
                 \/ \E r \in Requests : ReadRequest(r)
                 \/ \E how : Die(how)
  BY Zenon DEF RunStep, CheckCtx, FetchNonce, FetchNonceFails, DialAccepted, DialReplyLost,
     DialNetError, DialRefused, SleepDone, SleepCancelled, ReadJunk, ReadFails, MainLoop
<1>8. HostStep => UNCHANGED <<pc, writeMu>> \/ \E how : Die(how)
  BY Zenon DEF HostStep, Cancel, Crash, Restart
<1>9. NetStep => UNCHANGED <<pc, writeMu>>
  BY Zenon DEF NetStep, LinkStalls, LinkBreaks, KeepaliveExpires, ProxyDropsSession,
     ProxySends, NonceExpires, RivalConnects, RivalLeaves
<1>10. (\E c \in Conns : WatcherCloses(c)) \/ UNCHANGED vars => UNCHANGED <<pc, writeMu>>
  BY Zenon DEF WatcherCloses, vars
<1> QED BY <1>3, <1>4, <1>5, <1>6, <1>7, <1>8, <1>9, <1>10 DEF Next

\* The context is never un-cancelled: a container that was stopped is not restarted.
LEMMA CancelledForGood == [Next]_vars => (ctxDone => ctxDone')
BY Zenon DEF Next, vars, RunStep, CheckCtx, FetchNonce, FetchNonceFails, DialAccepted,
   DialReplyLost, DialNetError, DialRefused, SleepDone, SleepCancelled, ReadJunk, ReadRequest,
   ReadFails, MainLoop, Die, WatcherCloses, Dispatch, BadPath, HandlerActs, HandlerReturns,
   HandlerPanics, LockWrite, WriteOk, WriteBuffered, WriteErr, SendFailure, HostStep, Cancel,
   Crash, Restart, NetStep, LinkStalls, LinkBreaks, KeepaliveExpires, ProxyDropsSession,
   ProxySends, NonceExpires, RivalConnects, RivalLeaves

Severed == \A r \in Requests : pc[r] = "failed" => conn[home[r]] = "closed"

LEMMA DieFailure == ASSUME TypeOK, ConnHistory, NEW how, Die(how)
                    PROVE  FailureSeen' /\ (Severed => Severed')
<1>1. \A r \in Requests : /\ pc'[r] # "sendFailed"
                          /\ pc'[r] = "failed" => pc[r] = "failed"
  BY DEF Die, TypeOK, InFlight
<1>2. \A r \in Requests : pc[r] = "failed" => home[r] \in Conns
  BY Bounds DEF TypeOK, ConnHistory, Conns
<1>3. home' = home /\ \A c \in Conns : conn[c] = "closed" => conn'[c] = "closed"
  BY DEF Die
<1> QED BY <1>1, <1>2, <1>3 DEF FailureSeen, Severed

LEMMA FailureStep == TypeOK /\ ConnHistory /\ FailureSeen /\ [Next]_vars
                       => FailureSeen' /\ (Severed /\ ~ctxDone => Severed')
<1> SUFFICES ASSUME TypeOK, ConnHistory, FailureSeen, [Next]_vars
             PROVE  FailureSeen' /\ (Severed /\ ~ctxDone => Severed')
  OBVIOUS
<1> DEFINE Goal == FailureSeen' /\ (Severed => Severed')
<1> USE TunnelAssumption, Bounds DEF TypeOK, ConnHistory, FailureSeen, Severed,
        Running, Close, Conns
<1>1. CASE RunStep
  <2>1. CASE CheckCtx \/ FetchNonce \/ FetchNonceFails \/ SleepCancelled \/ DialNetError \/ SleepDone
    BY <2>1 DEF CheckCtx, FetchNonce, FetchNonceFails, SleepCancelled, DialNetError, SleepDone
  <2>2. CASE DialAccepted \/ DialReplyLost
    <3>1. \A r \in Requests : pc[r] # "none" => home[r] \in Conns /\ home[r] # cur'
      BY <2>2 DEF DialAccepted, DialReplyLost, HandshakeAccepted
    <3>2. /\ UNCHANGED <<pc, home>>
          /\ \A c \in Conns : c # cur' => conn'[c] = conn[c] /\ link'[c] = link[c]
      BY <2>2 DEF DialAccepted, DialReplyLost, HandshakeAccepted
    <3> QED BY <3>1, <3>2
  <2>3. ASSUME NEW resp \in Responses, DialRefused(resp) PROVE Goal
    <3>1. CASE Terminal(resp)
      BY <2>3, <3>1, DieFailure DEF DialRefused
    <3>2. CASE ~Terminal(resp)
      BY <2>3, <3>2 DEF DialRefused
    <3> QED BY <3>1, <3>2
  <2>4. CASE ReadJunk \/ ReadFails \/ (\E r \in Requests : ReadRequest(r))
    BY <2>4 DEF ReadJunk, ReadFails, ReadRequest, Receive
  <2>5. CASE MainLoop
    BY <2>5 DEF MainLoop, Die, InFlight
  <2> QED BY <1>1, <2>1, <2>2, <2>3, <2>4, <2>5 DEF RunStep
<1>2. ASSUME NEW c \in Conns, WatcherCloses(c) PROVE Goal
  BY <1>2 DEF WatcherCloses
<1>3. ASSUME NEW r \in Requests, Dispatch(r)
      PROVE  FailureSeen' /\ (Severed /\ ~ctxDone => Severed')
  <2> USE DEF At, Goto
  <2>1. CASE BadPath(r) \/ HandlerActs(r) \/ HandlerReturns(r) \/ HandlerPanics(r)
    BY <2>1 DEF BadPath, HandlerActs, HandlerReturns, HandlerPanics
  <2>2. CASE LockWrite(r) \/ WriteOk(r) \/ WriteBuffered(r) \/ WriteErr(r)
    BY <2>2 DEF LockWrite, WriteOk, WriteBuffered, WriteErr, Unlock
  <2>3. CASE SendFailure(r)
    BY <2>3 DEF SendFailure
  <2> QED BY <1>3, <2>1, <2>2, <2>3 DEF Dispatch
<1>4. CASE HostStep
  <2>1. CASE Cancel \/ Restart
    BY <2>1 DEF Cancel, Restart
  <2>2. CASE Crash
    BY <2>2, DieFailure DEF Crash
  <2> QED BY <1>4, <2>1, <2>2 DEF HostStep
<1>5. CASE NetStep
  BY <1>5 DEF NetStep, LinkStalls, LinkBreaks, KeepaliveExpires, ProxyDropsSession,
              ProxySends, NonceExpires, RivalConnects, RivalLeaves
<1>6. CASE UNCHANGED vars
  BY <1>6 DEF vars
<1> QED BY <1>1, <1>2, <1>3, <1>4, <1>5, <1>6 DEF Next

LEMMA SeversStep == /\ TypeOK /\ ConnHistory /\ FailureSeen /\ SendFailureSevers
                    /\ [Next]_vars
                    => SendFailureSevers'
<1> SUFFICES ASSUME TypeOK, ConnHistory, FailureSeen, SendFailureSevers, [Next]_vars
             PROVE  SendFailureSevers'
  OBVIOUS
<1>1. CASE ctxDone'
  BY <1>1, Zenon DEF SendFailureSevers
<1>2. CASE ~ctxDone'
  <2>1. ~ctxDone
    BY <1>2, CancelledForGood, Zenon
  <2>2. Severed
    BY <2>1, Zenon DEF Severed, SendFailureSevers
  <2>3. Severed'
    BY <2>1, <2>2, FailureStep, Zenon
  <2> QED BY <2>3, Zenon DEF Severed, SendFailureSevers
<1> QED BY <1>1, <1>2

Unstopped == ~Running("stopped")

LEMMA RunInvStep == TypeOK /\ NoncePresentedOnce /\ [Next]_vars
                      => NoncePresentedOnce' /\ (Unstopped /\ ~ctxDone => Unstopped')
<1> SUFFICES ASSUME TypeOK, NoncePresentedOnce, [Next]_vars
             PROVE  NoncePresentedOnce' /\ (Unstopped /\ ~ctxDone => Unstopped')
  OBVIOUS
<1> USE DEF Unstopped, NoncePresentedOnce, Running
<1>1. CASE RunStep
  BY <1>1 DEF RunStep, CheckCtx, FetchNonce, FetchNonceFails, DialAccepted, DialReplyLost,
     HandshakeAccepted, DialNetError, DialRefused, SleepDone, SleepCancelled,
     ReadJunk, ReadRequest, ReadFails, MainLoop, Die, Receive
<1>2. CASE \E c \in Conns : WatcherCloses(c)
  BY <1>2 DEF WatcherCloses
<1>3. CASE \E r \in Requests : Dispatch(r)
  BY <1>3 DEF Dispatch, BadPath, HandlerActs, HandlerReturns, HandlerPanics,
     LockWrite, WriteOk, WriteBuffered, WriteErr, SendFailure
<1>4. CASE HostStep
  BY <1>4 DEF HostStep, Cancel, Crash, Restart, Die
<1>5. CASE NetStep
  BY <1>5 DEF NetStep, LinkStalls, LinkBreaks, KeepaliveExpires, ProxyDropsSession,
              ProxySends, NonceExpires, RivalConnects, RivalLeaves
<1>6. CASE UNCHANGED vars
  BY <1>6 DEF vars
<1> QED BY <1>1, <1>2, <1>3, <1>4, <1>5, <1>6 DEF Next

LEMMA RunReturnsStep == /\ TypeOK /\ NoncePresentedOnce /\ RunReturnsOnlyWhenCancelled
                        /\ [Next]_vars
                        => RunReturnsOnlyWhenCancelled'
<1> SUFFICES ASSUME TypeOK, NoncePresentedOnce, RunReturnsOnlyWhenCancelled, [Next]_vars
             PROVE  RunReturnsOnlyWhenCancelled'
  OBVIOUS
<1>1. CASE ctxDone'
  BY <1>1, Zenon DEF RunReturnsOnlyWhenCancelled
<1>2. CASE ~ctxDone'
  <2>1. ~ctxDone
    BY <1>2, CancelledForGood, Zenon
  <2>2. Unstopped
    BY <2>1, Zenon DEF Unstopped, RunReturnsOnlyWhenCancelled
  <2>3. Unstopped'
    BY <2>1, <2>2, RunInvStep, Zenon
  <2> QED BY <2>3, Zenon DEF Unstopped, RunReturnsOnlyWhenCancelled
<1> QED BY <1>1, <1>2

LEMMA TunnelInvInit == Init => TunnelInv
<1> SUFFICES ASSUME Init PROVE TunnelInv
  OBVIOUS
<1>1. TypeOK
  BY TypeInit
<1>2. ConnHistory /\ OneOpenConnection /\ WriteExclusion /\ FailureSeen /\ NoncePresentedOnce
  BY DEF Init, ConnHistory, OneOpenConnection, WriteExclusion, FailureSeen, NoncePresentedOnce,
         Running
<1>3. WriterLocks /\ SendFailureSevers /\ RunReturnsOnlyWhenCancelled
  BY DEF Init, WriterLocks, SendFailureSevers, RunReturnsOnlyWhenCancelled, Running
<1> QED BY <1>1, <1>2, <1>3 DEF TunnelInv

LEMMA TunnelInvStep == TunnelInv /\ [Next]_vars => TunnelInv'
BY TypeStep, HistoryStep, OneOpenStep, MutexStep, FailureStep, SeversStep, RunInvStep,
   RunReturnsStep, Zenon DEF TunnelInv

THEOREM TunnelInvCorrect == Spec => []TunnelInv
<1> QED BY TunnelInvInit, TunnelInvStep, PTL DEF Spec

\* No two dispatchers are ever inside WriteJSON together.
THEOREM WritesExclude == Spec => []WriteExclusion
<1>1. TunnelInv => WriteExclusion
  BY DEF TunnelInv
<1> QED BY <1>1, TunnelInvCorrect, PTL

\* The only open connection is the one Run is reading.
THEOREM OneOpen == Spec => []OneOpenConnection
<1>1. TunnelInv => OneOpenConnection
  BY DEF TunnelInv
<1> QED BY <1>1, TunnelInvCorrect, PTL

\* A response that could not be sent leaves no open connection to wait on.
THEOREM FailuresSever == Spec => []SendFailureSevers
<1>1. TunnelInv => SendFailureSevers
  BY DEF TunnelInv
<1> QED BY <1>1, TunnelInvCorrect, PTL

\* Run only returns when cancelled, so main never builds a second client (main.go:96-99).
THEOREM RunReturns == Spec => []RunReturnsOnlyWhenCancelled
<1>1. TunnelInv => RunReturnsOnlyWhenCancelled
  BY DEF TunnelInv
<1> QED BY <1>1, TunnelInvCorrect, PTL

\* No handshake presents a nonce that was presented before (client.go:242).
THEOREM NoncesFresh == Spec => []NoncePresentedOnce
<1>1. TunnelInv => NoncePresentedOnce
  BY DEF TunnelInv
<1> QED BY <1>1, TunnelInvCorrect, PTL

\* A step that closes a connection whose link is up cancels nothing else: either the
\* context is done or the process ends.
LEMMA KeptStep == ASSUME TunnelInv, [Next]_vars, ~ctxDone, NEW c \in Conns,
                         conn[c] = "open", conn'[c] = "closed", link[c] = "up"
                  PROVE  proc' # "running"
<1> USE DEF TunnelInv, TypeOK, OneOpenConnection, FailureSeen, ConnHistory, Running, Close
<1>1. CASE RunStep
  <2>1. CASE DialAccepted \/ DialReplyLost
    BY <2>1 DEF DialAccepted, DialReplyLost, HandshakeAccepted
  <2>2. CASE ReadFails
    BY <2>2 DEF ReadFails
  <2>3. CASE MainLoop \/ \E resp \in Responses : DialRefused(resp)
    BY <2>3 DEF MainLoop, DialRefused, Die
  <2>4. CASE CheckCtx \/ FetchNonce \/ FetchNonceFails \/ DialNetError \/ SleepDone
             \/ SleepCancelled \/ ReadJunk \/ \E r \in Requests : ReadRequest(r)
    BY <2>4 DEF CheckCtx, FetchNonce, FetchNonceFails, DialNetError, SleepDone,
                SleepCancelled, ReadJunk, ReadRequest
  <2> QED BY <1>1, <2>1, <2>2, <2>3, <2>4 DEF RunStep
<1>2. CASE \E d \in Conns : WatcherCloses(d)
  BY <1>2 DEF WatcherCloses
<1>3. ASSUME NEW r \in Requests, Dispatch(r) PROVE proc' # "running"
  <2>1. CASE SendFailure(r)
    BY <2>1 DEF SendFailure, At
  <2>2. CASE ~SendFailure(r)
    BY <1>3, <2>2 DEF Dispatch, BadPath, HandlerActs, HandlerReturns, HandlerPanics,
                      LockWrite, WriteOk, WriteBuffered, WriteErr
  <2> QED BY <2>1, <2>2
<1>4. CASE HostStep
  BY <1>4 DEF HostStep, Cancel, Crash, Restart, Die
<1>5. CASE NetStep
  BY <1>5 DEF NetStep, LinkStalls, LinkBreaks, KeepaliveExpires, ProxyDropsSession,
              ProxySends, NonceExpires, RivalConnects, RivalLeaves
<1>6. CASE UNCHANGED vars
  BY <1>6 DEF vars
<1> QED BY <1>1, <1>2, <1>3, <1>4, <1>5, <1>6 DEF Next

\* No late dispatcher, watcher or failed read ever costs the robot a healthy connection.
THEOREM HealthyKept == Spec => HealthyConnectionKept
<1>1. TunnelInv /\ [Next]_vars
        => \A c \in Conns : conn[c] = "open" /\ conn'[c] = "closed" /\ link[c] = "up"
                            => ctxDone \/ proc' # "running"
  BY KeptStep, Zenon
<1>2. TunnelInv /\ [Next]_vars
        => [\A c \in Conns : conn[c] = "open" /\ conn'[c] = "closed" /\ link[c] = "up"
                             => ctxDone \/ proc' # "running"]_vars
  BY <1>1, Zenon
<1> QED BY <1>2, TunnelInvCorrect, PTL DEF Spec, HealthyConnectionKept

-----------------------------------------------------------------------------
(* TunnelClient implements RequestRelay, and loses no response by itself *)

\* A message is read once: on its way it is in one wire, and its request is new.
WireInv ==
    /\ \A c \in Conns, r \in Requests : r \in wire[c] => r \in sent /\ pc[r] = "none"
    /\ \A c, d \in Conns, r \in Requests : r \in wire[c] /\ r \in wire[d] => c = d
    /\ \A r \in Requests : pc[r] # "none" => r \in sent

\* What a dispatcher has done so far, by where it is.
ProgressInv ==
    \A r \in Requests :
        /\ pc[r] \in {"none", "start"} => exec[r] = 0
        /\ pc[r] = "acted" => exec[r] = 1
        /\ pc[r] \in {"none", "start", "acted"} => status[r] = "none"
        /\ pc[r] \in {"reply", "write", "sent"} => status[r] # "none"
        /\ pc[r] # "sent" => answer[r] = "none"
        /\ pc[r] \in InFlight => proc = "running"

RelayInv == WireInv /\ ProgressInv

LEMMA RelayInvInit == Init => RelayInv
BY DEF Init, RelayInv, WireInv, ProgressInv, InFlight, Conns

\* A step that reads and sends no message, and starts no dispatcher.
LEMMA WireFrame == ASSUME WireInv, wire' = wire, sent' = sent,
                          \A r \in Requests : pc'[r] = "none" <=> pc[r] = "none"
                   PROVE  WireInv'
  BY DEF WireInv

LEMMA DieWire == ASSUME TypeOK, WireInv, NEW how, Die(how), wire' = wire, sent' = sent
                 PROVE  WireInv'
<1>1. \A r \in Requests : pc'[r] = "none" <=> pc[r] = "none"
  BY DEF Die, InFlight
<1> QED BY <1>1, WireFrame

LEMMA WireStep == TypeOK /\ ConnHistory /\ WireInv /\ [Next]_vars => WireInv'
<1> SUFFICES ASSUME TypeOK, ConnHistory, WireInv, [Next]_vars PROVE WireInv'
  OBVIOUS
<1>1. CASE RunStep
  <2>1. CASE CheckCtx \/ FetchNonce \/ FetchNonceFails \/ SleepCancelled \/ DialNetError \/ SleepDone
    BY <2>1, WireFrame DEF CheckCtx, FetchNonce, FetchNonceFails, SleepCancelled, DialNetError, SleepDone
  <2>2. CASE DialAccepted \/ DialReplyLost \/ ReadFails
    BY <2>2, WireFrame DEF DialAccepted, DialReplyLost, ReadFails
  <2>3. ASSUME NEW resp \in Responses, DialRefused(resp) PROVE WireInv'
    <3>1. wire' = wire /\ sent' = sent
      BY <2>3 DEF DialRefused
    <3>2. CASE Terminal(resp)
      BY <2>3, <3>1, <3>2, DieWire DEF DialRefused
    <3>3. CASE ~Terminal(resp)
      BY <2>3, <3>1, <3>3, WireFrame DEF DialRefused
    <3> QED BY <3>2, <3>3
  <2>4. CASE ReadJunk
    <3>1. wire' = [wire EXCEPT ![cur] = @ \ {Junk}] /\ sent' = sent /\ pc' = pc
      BY <2>4 DEF ReadJunk, Receive
    <3>2. \A c \in Conns : wire'[c] \subseteq wire[c]
      BY <3>1 DEF TypeOK
    <3> QED BY <3>1, <3>2 DEF WireInv
  <2>5. ASSUME NEW r \in Requests, ReadRequest(r) PROVE WireInv'
    <3>1. /\ cur \in Conns /\ r \in wire[cur] /\ wire' = [wire EXCEPT ![cur] = @ \ {r}]
          /\ pc' = [pc EXCEPT ![r] = "start"] /\ sent' = sent
      BY <2>5, Bounds DEF ReadRequest, Receive, Running, ConnHistory, TypeOK, Conns
    <3>2. \A c \in Conns : wire'[c] \subseteq wire[c] /\ r \notin wire'[c]
      BY <3>1 DEF TypeOK, WireInv
    <3>3. \A s \in Requests : s # r => pc'[s] = pc[s]
      BY <3>1 DEF TypeOK
    <3> QED BY <3>1, <3>2, <3>3 DEF WireInv
  <2>6. CASE MainLoop
    <3>1. wire' = wire /\ sent' = sent
      BY <2>6 DEF MainLoop
    <3> QED BY <2>6, <3>1, DieWire, WireFrame DEF MainLoop
  <2> QED BY <1>1, <2>1, <2>2, <2>3, <2>4, <2>5, <2>6 DEF RunStep
<1>2. ASSUME NEW c \in Conns, WatcherCloses(c) PROVE WireInv'
  BY <1>2, WireFrame DEF WatcherCloses
<1>3. ASSUME NEW r \in Requests, Dispatch(r) PROVE WireInv'
  <2>1. wire' = wire /\ sent' = sent
    BY <1>3 DEF Dispatch, BadPath, HandlerActs, HandlerReturns, HandlerPanics, LockWrite,
                WriteOk, WriteBuffered, WriteErr, SendFailure
  <2>2. /\ pc[r] # "none"
        /\ \E l \in InFlight \cup Finished : pc' = [pc EXCEPT ![r] = l]
    BY <1>3 DEF Dispatch, BadPath, HandlerActs, HandlerReturns, HandlerPanics, LockWrite,
                WriteOk, WriteBuffered, WriteErr, SendFailure, Unlock, At, Goto, InFlight, Finished
  <2>3. \A s \in Requests : pc'[s] = "none" <=> pc[s] = "none"
    BY <2>2 DEF TypeOK, InFlight, Finished
  <2> QED BY <2>1, <2>3, WireFrame
<1>4. CASE HostStep
  <2>1. wire' = wire /\ sent' = sent
    BY <1>4 DEF HostStep, Cancel, Crash, Restart
  <2>2. CASE Crash
    BY <2>1, <2>2, DieWire DEF Crash
  <2>3. CASE Cancel \/ Restart
    BY <2>1, <2>3, WireFrame DEF Cancel, Restart
  <2> QED BY <1>4, <2>2, <2>3 DEF HostStep
<1>5. CASE NetStep
  <2>1. ASSUME NEW c \in Conns, LinkStalls(c) \/ LinkBreaks(c) \/ KeepaliveExpires(c)
        PROVE  WireInv'
    BY <2>1, WireFrame DEF LinkStalls, LinkBreaks, KeepaliveExpires
  <2>2. CASE ProxyDropsSession \/ NonceExpires \/ RivalConnects \/ RivalLeaves
    BY <2>2, WireFrame DEF ProxyDropsSession, NonceExpires, RivalConnects, RivalLeaves
  <2>3. ASSUME NEW m \in Requests \cup {Junk}, ProxySends(m) PROVE WireInv'
    <3>1. /\ session \in Conns /\ m \notin sent
          /\ sent' = sent \cup ({m} \cap Requests)
          /\ wire' = [wire EXCEPT ![session] = @ \cup {m}] /\ pc' = pc
      BY <2>3, Bounds DEF ProxySends, NoConn, TypeOK, Conns
    <3>2. \A c \in Conns, r \in Requests :
              r \in wire'[c] <=> r \in wire[c] \/ (r = m /\ c = session)
      BY <3>1 DEF TypeOK
    <3> QED BY <3>1, <3>2 DEF WireInv
  <2> QED BY <1>5, <2>1, <2>2, <2>3 DEF NetStep
<1>6. CASE UNCHANGED vars
  BY <1>6, WireFrame DEF vars
<1> QED BY <1>1, <1>2, <1>3, <1>4, <1>5, <1>6 DEF Next

LEMMA ProgressStep == TypeOK /\ WireInv /\ ConnHistory /\ ProgressInv /\ [Next]_vars => ProgressInv'
<1> SUFFICES ASSUME TypeOK, WireInv, ConnHistory, ProgressInv, [Next]_vars PROVE ProgressInv'
  OBVIOUS
<1> USE TunnelAssumption DEF TypeOK, ProgressInv, InFlight
<1>1. CASE RunStep
  <2>1. CASE CheckCtx \/ FetchNonce \/ FetchNonceFails \/ SleepCancelled \/ DialNetError \/ SleepDone
    BY <2>1 DEF CheckCtx, FetchNonce, FetchNonceFails, SleepCancelled, DialNetError, SleepDone
  <2>2. CASE DialAccepted \/ DialReplyLost
    BY <2>2 DEF DialAccepted, DialReplyLost
  <2>3. ASSUME NEW resp \in Responses, DialRefused(resp) PROVE ProgressInv'
    BY <2>3 DEF DialRefused, Die
  <2>4. CASE ReadJunk \/ ReadFails
    BY <2>4 DEF ReadJunk, ReadFails
  <2>5. ASSUME NEW r \in Requests, ReadRequest(r) PROVE ProgressInv'
    <3>1. /\ proc = "running" /\ pc' = [pc EXCEPT ![r] = "start"] /\ proc' = proc /\ exec' = exec
          /\ status' = status /\ answer' = answer /\ cur >= 1 /\ r \in wire[cur]
      BY <2>5 DEF ReadRequest, Receive, Running, ConnHistory
    <3>2. pc[r] = "none"
      BY <3>1, Bounds DEF WireInv, Conns
    <3> QED BY <3>1, <3>2
  <2>6. CASE MainLoop
    BY <2>6 DEF MainLoop, Die
  <2> QED BY <1>1, <2>1, <2>2, <2>3, <2>4, <2>5, <2>6 DEF RunStep
<1>2. ASSUME NEW c \in Conns, WatcherCloses(c) PROVE ProgressInv'
  BY <1>2 DEF WatcherCloses
<1>3. ASSUME NEW r \in Requests, Dispatch(r) PROVE ProgressInv'
  <2> USE DEF At, Goto
  <2>1. CASE BadPath(r) \/ HandlerReturns(r) \/ HandlerPanics(r)
    BY <2>1 DEF BadPath, HandlerReturns, HandlerPanics
  <2>2. CASE HandlerActs(r)
    BY <2>2 DEF HandlerActs
  <2>3. CASE LockWrite(r) \/ WriteOk(r) \/ WriteBuffered(r) \/ WriteErr(r)
    BY <2>3 DEF LockWrite, WriteOk, WriteBuffered, WriteErr, Unlock
  <2>4. CASE SendFailure(r)
    BY <2>4 DEF SendFailure
  <2> QED BY <1>3, <2>1, <2>2, <2>3, <2>4 DEF Dispatch
<1>4. CASE HostStep
  <2>1. CASE Cancel
    BY <2>1 DEF Cancel
  <2>2. CASE Crash
    BY <2>2 DEF Crash, Die
  <2>3. CASE Restart
    BY <2>3 DEF Restart
  <2> QED BY <1>4, <2>1, <2>2, <2>3 DEF HostStep
<1>5. CASE NetStep
  BY <1>5 DEF NetStep, LinkStalls, LinkBreaks, KeepaliveExpires, ProxyDropsSession,
              ProxySends, NonceExpires, RivalConnects, RivalLeaves
<1>6. CASE UNCHANGED vars
  BY <1>6 DEF vars
<1> QED BY <1>1, <1>2, <1>3, <1>4, <1>5, <1>6 DEF Next

THEOREM RelayInvCorrect == Spec => []RelayInv
<1>1. TunnelInv /\ RelayInv /\ [Next]_vars => RelayInv'
  BY WireStep, ProgressStep DEF RelayInv, TunnelInv
<1> QED BY <1>1, RelayInvInit, TunnelInvCorrect, PTL DEF Spec

-----------------------------------------------------------------------------
(* The refinement *)

Calls == [r \in Requests |-> Call(r)]

LEMMA RelayInit == Init => Relay!Init
  BY DEF Init, Relay!Init, Call

\* A step the relay cannot see.
LEMMA Stutters == ASSUME proc' = proc, pc' = pc, exec' = exec, status' = status, answer' = answer
                  PROVE  UNCHANGED Relay!rvars
  BY DEF Relay!rvars, Call

\* The end of the process ends every request it has in hand.
LEMMA DieExits == ASSUME TypeOK, RelayInv, proc = "running", NEW how, how # "running",
                         Die(how), answer' = answer
                  PROVE  Relay!Next
<1>1. /\ proc' = how /\ exec' = exec /\ status' = status
      /\ \A r \in Requests : pc'[r] = IF pc[r] \in InFlight THEN "dead" ELSE pc[r]
  BY DEF Die
<1>2. \A r \in Requests :
          Call(r)' = IF Call(r) \in {"handling", "handled"} THEN "dropped" ELSE Call(r)
  BY <1>1 DEF Call, InFlight, Finished, TypeOK
<1>3. Relay!Exit
  BY <1>1, <1>2 DEF Relay!Exit
<1> QED BY <1>3 DEF Relay!Next

\* A dispatcher touches no other request.
LEMMA OwnCall == ASSUME TypeOK, NEW r \in Requests, NEW l, pc' = [pc EXCEPT ![r] = l],
                        \A s \in Requests : s # r => answer'[s] = answer[s]
                 PROVE  Calls' = [Calls EXCEPT ![r] = Call(r)'] /\ pc'[r] = l
<1>1. pc'[r] = l /\ \A s \in Requests : s # r => pc'[s] = pc[s]
  BY DEF TypeOK
<1>2. \A s \in Requests : s # r => Call(s)' = Call(s)
  BY <1>1 DEF Call
<1> QED BY <1>1, <1>2 DEF Calls

LEMMA ReadAccepts == ASSUME TypeOK, ConnHistory, RelayInv, NEW r \in Requests, ReadRequest(r)
                     PROVE  Relay!Next
<1>1. /\ proc = "running" /\ proc' = proc /\ cur \in Conns /\ r \in wire[cur]
      /\ pc' = [pc EXCEPT ![r] = "start"]
      /\ exec' = exec /\ status' = status /\ answer' = answer
  BY Bounds DEF ReadRequest, Receive, Running, ConnHistory, TypeOK, Conns
<1>2. Calls' = [Calls EXCEPT ![r] = Call(r)'] /\ pc'[r] = "start"
  BY <1>1, OwnCall
<1>3. Calls[r] = "new" /\ Call(r)' = "handling"
  BY <1>1, <1>2 DEF RelayInv, WireInv, Calls, Call
<1>4. Relay!Accept(r)
  BY <1>1, <1>2, <1>3 DEF Relay!Accept, Relay!Move, Calls
<1> QED BY <1>4 DEF Relay!Next

LEMMA DispatchMaps == ASSUME TypeOK, RelayInv, NEW r \in Requests, Dispatch(r)
                      PROVE  Relay!Next \/ UNCHANGED Relay!rvars
<1> USE DEF At, Goto
<1>1. CASE HandlerActs(r)
  <2>1. /\ proc = "running" /\ proc' = proc /\ pc[r] = "start"
        /\ pc' = [pc EXCEPT ![r] = "acted"] /\ exec' = [exec EXCEPT ![r] = @ + 1]
        /\ status' = status /\ answer' = answer
    BY <1>1 DEF HandlerActs
  <2>2. Calls' = [Calls EXCEPT ![r] = Call(r)'] /\ pc'[r] = "acted"
    BY <2>1, OwnCall
  <2>3. Calls[r] = "handling" /\ Call(r)' = "handling" /\ Calls' = Calls
    BY <2>1, <2>2 DEF Calls, Call
  <2>4. exec[r] = 0 /\ exec' = [exec EXCEPT ![r] = 1]
    <3>1. exec[r] = 0
      BY <2>1 DEF RelayInv, ProgressInv
    <3> QED BY <2>1, <3>1 DEF TypeOK
  <2>5. Relay!Act(r)
    BY <2>1, <2>3, <2>4 DEF Relay!Act, Calls
  <2> QED BY <2>5 DEF Relay!Next
<1>2. CASE BadPath(r) \/ HandlerReturns(r) \/ HandlerPanics(r)
  <2>1. /\ proc = "running" /\ proc' = proc /\ pc[r] \in {"start", "acted"}
        /\ pc' = [pc EXCEPT ![r] = "reply"] /\ exec' = exec /\ answer' = answer
    BY <1>2 DEF BadPath, HandlerReturns, HandlerPanics
  <2>2. PICK o \in {"returned", "badPath", "panicked"} :
           /\ status' = [status EXCEPT ![r] = o]
           /\ o = "badPath" => pc[r] = "start"
    BY <1>2 DEF BadPath, HandlerReturns, HandlerPanics
  <2>3. Calls' = [Calls EXCEPT ![r] = Call(r)'] /\ pc'[r] = "reply"
    BY <2>1, OwnCall
  <2>4. Calls[r] = "handling" /\ Call(r)' = "handled"
    BY <2>1, <2>3 DEF Calls, Call
  <2>5. o = "badPath" => exec[r] = 0
    BY <2>2 DEF RelayInv, ProgressInv
  <2>6. Relay!Handle(r, o)
    BY <2>1, <2>2, <2>3, <2>4, <2>5 DEF Relay!Handle, Relay!Move, Calls
  <2> QED BY <2>6 DEF Relay!Next
<1>3. CASE LockWrite(r)
  <2>1. /\ proc' = proc /\ pc[r] = "reply" /\ pc' = [pc EXCEPT ![r] = "write"]
        /\ exec' = exec /\ status' = status /\ answer' = answer
    BY <1>3 DEF LockWrite
  <2>2. Calls' = [Calls EXCEPT ![r] = Call(r)'] /\ pc'[r] = "write"
    BY <2>1, OwnCall
  <2>3. Calls' = Calls
    BY <2>1, <2>2 DEF Calls, Call
  <2> QED BY <2>1, <2>3 DEF Relay!rvars, Calls
<1>4. CASE WriteOk(r)
  <2>1. /\ proc = "running" /\ proc' = proc /\ pc[r] = "write"
        /\ pc' = [pc EXCEPT ![r] = "sent"] /\ exec' = exec /\ status' = status
        /\ answer' = [answer EXCEPT ![r] = status[r]]
    BY <1>4 DEF WriteOk, Unlock
  <2>2. /\ Calls' = [Calls EXCEPT ![r] = Call(r)'] /\ pc'[r] = "sent"
        /\ answer'[r] # "none"
    <3>1. answer'[r] = status[r] /\ \A s \in Requests : s # r => answer'[s] = answer[s]
      BY <2>1 DEF TypeOK
    <3>2. status[r] # "none"
      BY <2>1 DEF RelayInv, ProgressInv
    <3> QED BY <2>1, <3>1, <3>2, OwnCall
  <2>3. Calls[r] = "handled" /\ Call(r)' = "answered"
    BY <2>1, <2>2 DEF Calls, Call
  <2>4. Relay!Deliver(r)
    BY <2>1, <2>2, <2>3 DEF Relay!Deliver, Relay!Move, Calls
  <2> QED BY <2>4 DEF Relay!Next
<1>5. CASE WriteBuffered(r) \/ WriteErr(r)
  <2>1. /\ proc = "running" /\ proc' = proc /\ pc[r] = "write"
        /\ exec' = exec /\ status' = status /\ answer' = answer
    BY <1>5 DEF WriteBuffered, WriteErr, Unlock
  <2>2. PICK l \in {"sent", "sendFailed"} : pc' = [pc EXCEPT ![r] = l]
    BY <1>5 DEF WriteBuffered, WriteErr, Unlock
  <2>3. Calls' = [Calls EXCEPT ![r] = Call(r)'] /\ pc'[r] = l
    BY <2>1, <2>2, OwnCall
  <2>4. answer[r] = "none"
    BY <2>1 DEF RelayInv, ProgressInv
  <2>5. Calls[r] = "handled" /\ Call(r)' = "dropped"
    BY <2>1, <2>3, <2>4 DEF Calls, Call
  <2>6. Relay!Drop(r)
    BY <2>1, <2>3, <2>5 DEF Relay!Drop, Relay!Move, Calls
  <2> QED BY <2>6 DEF Relay!Next
<1>6. CASE SendFailure(r)
  <2>1. /\ proc' = proc /\ pc[r] = "sendFailed" /\ pc' = [pc EXCEPT ![r] = "failed"]
        /\ exec' = exec /\ status' = status /\ answer' = answer
    BY <1>6 DEF SendFailure
  <2>2. Calls' = [Calls EXCEPT ![r] = Call(r)'] /\ pc'[r] = "failed"
    BY <2>1, OwnCall
  <2>3. Calls' = Calls
    BY <2>1, <2>2 DEF Calls, Call
  <2> QED BY <2>1, <2>3 DEF Relay!rvars, Calls
<1> QED BY <1>1, <1>2, <1>3, <1>4, <1>5, <1>6 DEF Dispatch

LEMMA RelayStep == TypeOK /\ ConnHistory /\ RelayInv /\ [Next]_vars
                     => Relay!Next \/ UNCHANGED Relay!rvars
<1> SUFFICES ASSUME TypeOK, ConnHistory, RelayInv, [Next]_vars
             PROVE  Relay!Next \/ UNCHANGED Relay!rvars
  OBVIOUS
<1>1. CASE RunStep
  <2>1. CASE CheckCtx \/ FetchNonce \/ FetchNonceFails \/ SleepCancelled \/ DialNetError \/ SleepDone
    BY <2>1, Stutters DEF CheckCtx, FetchNonce, FetchNonceFails, SleepCancelled, DialNetError, SleepDone
  <2>2. CASE DialAccepted \/ DialReplyLost \/ ReadFails \/ ReadJunk
    BY <2>2, Stutters DEF DialAccepted, DialReplyLost, ReadFails, ReadJunk
  <2>3. ASSUME NEW resp \in Responses, DialRefused(resp)
        PROVE  Relay!Next \/ UNCHANGED Relay!rvars
    <3>1. proc = "running" /\ answer' = answer
      BY <2>3 DEF DialRefused, Running
    <3>2. CASE Terminal(resp)
      BY <2>3, <3>1, <3>2, DieExits DEF DialRefused
    <3>3. CASE ~Terminal(resp)
      BY <2>3, <3>1, <3>3, Stutters DEF DialRefused
    <3> QED BY <3>2, <3>3
  <2>4. ASSUME NEW r \in Requests, ReadRequest(r) PROVE Relay!Next
    BY <2>4, ReadAccepts
  <2>5. CASE MainLoop
    <3>1. proc = "running" /\ answer' = answer
      BY <2>5 DEF MainLoop, Running
    <3> QED BY <2>5, <3>1, DieExits, Stutters DEF MainLoop
  <2> QED BY <1>1, <2>1, <2>2, <2>3, <2>4, <2>5 DEF RunStep
<1>2. ASSUME NEW c \in Conns, WatcherCloses(c) PROVE UNCHANGED Relay!rvars
  BY <1>2, Stutters DEF WatcherCloses
<1>3. ASSUME NEW r \in Requests, Dispatch(r) PROVE Relay!Next \/ UNCHANGED Relay!rvars
  BY <1>3, DispatchMaps
<1>4. CASE HostStep
  <2>1. CASE Cancel
    BY <2>1, Stutters DEF Cancel
  <2>2. CASE Crash
    BY <2>2, DieExits DEF Crash
  <2>3. CASE Restart
    <3>1. Relay!Restart
      BY <2>3 DEF Restart, Relay!Restart, Call
    <3> QED BY <3>1 DEF Relay!Next
  <2> QED BY <1>4, <2>1, <2>2, <2>3 DEF HostStep
<1>5. CASE NetStep
  BY <1>5, Stutters DEF NetStep, LinkStalls, LinkBreaks, KeepaliveExpires, ProxyDropsSession,
                        ProxySends, NonceExpires, RivalConnects, RivalLeaves
<1>6. CASE UNCHANGED vars
  BY <1>6, Stutters DEF vars
<1> QED BY <1>1, <1>2, <1>3, <1>4, <1>5, <1>6 DEF Next

\* TunnelClient implements RequestRelay (client.go:270-357): a request is run at most
\* once, answered at most once with what its handler said, and no restart resumes it.
THEOREM ClientIsRelay == Spec => RelaySpec
<1>1. Init => Relay!Init
  BY RelayInit
<1>2. TunnelInv /\ RelayInv /\ [Next]_vars => [Relay!Next]_(Relay!rvars)
  BY RelayStep DEF TunnelInv
<1> QED BY <1>1, <1>2, TunnelInvCorrect, RelayInvCorrect, PTL DEF Spec, RelaySpec, Relay!RelaySpec

-----------------------------------------------------------------------------
(* As long as nothing outside fails *)

\* No fault yet, and nobody has asked the process to stop.
Calm == faults = MaxFaults /\ ~ctxDone

\* Then the client has dialled at most once, and its connection is as good as new.
CalmRun ==
    /\ proc = "running" /\ ~rival
    /\ run \in {"select", "nonce", "dial", "reading"}
    /\ run = "dial" => nonce = "fresh"
    /\ run # "reading" => session = NoConn /\ cur = 0
    /\ run = "reading" => cur \in Conns /\ session = cur /\ conn[cur] = "open" /\ link[cur] = "up"
    /\ \A c \in Conns : link[c] \in {"none", "up"}

\* And every dispatcher writes to that connection.
CalmDispatch ==
    \A r \in Requests : pc[r] # "none" =>
        /\ run = "reading" /\ home[r] = cur
        /\ pc[r] \notin {"sendFailed", "failed", "dead"}
        /\ pc[r] = "sent" => answer[r] # "none"

CalmInv == Calm => CalmRun /\ CalmDispatch

LEMMA CalmInit == Init => CalmInv
  BY DEF Init, CalmInv, CalmRun, CalmDispatch, Conns

\* Faults and cancellation are not taken back.
LEMMA StaysCalm == TypeOK /\ [Next]_vars /\ Calm' => Calm /\ faults' = faults
<1> SUFFICES ASSUME TypeOK, [Next]_vars, Calm' PROVE Calm /\ faults' = faults
  OBVIOUS
<1>1. ~Fault
  BY TunnelAssumption DEF Fault, Calm, TypeOK
<1>2. faults' = faults
  BY <1>1 DEF Next, RunStep, Dispatch, HostStep, NetStep, vars, CheckCtx, FetchNonce,
     FetchNonceFails, DialAccepted, DialReplyLost, DialNetError, DialRefused, RefusedWith,
     SleepDone, SleepCancelled, ReadJunk, ReadRequest, ReadFails, MainLoop, WatcherCloses,
     BadPath, HandlerActs, HandlerReturns, HandlerPanics, LockWrite, WriteOk, WriteBuffered,
     WriteErr, SendFailure, Cancel, Crash, Restart, LinkStalls, LinkBreaks, KeepaliveExpires,
     ProxyDropsSession, ProxySends, NonceExpires, RivalConnects, RivalLeaves
<1>3. ctxDone => ctxDone'
  BY DEF Next, RunStep, Dispatch, HostStep, NetStep, vars, CheckCtx, FetchNonce,
     FetchNonceFails, DialAccepted, DialReplyLost, DialNetError, DialRefused, Die,
     SleepDone, SleepCancelled, ReadJunk, ReadRequest, ReadFails, MainLoop, WatcherCloses,
     BadPath, HandlerActs, HandlerReturns, HandlerPanics, LockWrite, WriteOk, WriteBuffered,
     WriteErr, SendFailure, Cancel, Crash, Restart, LinkStalls, LinkBreaks, KeepaliveExpires,
     ProxyDropsSession, ProxySends, NonceExpires, RivalConnects, RivalLeaves
<1> QED BY <1>2, <1>3 DEF Calm

LEMMA CalmStep == TypeOK /\ RelayInv /\ CalmInv /\ [Next]_vars => CalmInv'
<1> SUFFICES ASSUME TypeOK, RelayInv, CalmRun, CalmDispatch, Calm, [Next]_vars,
                    Calm', faults' = faults
             PROVE  CalmRun' /\ CalmDispatch'
  BY StaysCalm DEF CalmInv
<1>a. ~Fault /\ ~ctxDone /\ ~ctxDone'
  BY TunnelAssumption DEF Fault, Calm, TypeOK
<1>b. ASSUME NEW c \in Conns PROVE link[c] \in {"none", "up"}
  BY DEF CalmRun
<1>1. CASE RunStep
  <2> USE DEF Running, NoConn
  <2>1. CASE CheckCtx \/ FetchNonce
    BY <1>a, <2>1 DEF CheckCtx, FetchNonce, CalmRun, CalmDispatch
  <2>2. CASE DialAccepted
    <3>1. /\ proc' = proc /\ rival' = rival /\ run' = "reading" /\ pc' = pc
          /\ run = "dial" /\ cur = 0 /\ cur' = cur + 1 /\ session' = cur' /\ cur < MaxConns
          /\ link' = [link EXCEPT ![cur'] = "up"] /\ conn' = [conn EXCEPT ![cur'] = "open"]
      BY <2>2 DEF DialAccepted, HandshakeAccepted, CalmRun
    <3>2. cur' \in Conns
      BY <3>1, Bounds DEF Conns
    <3>3. CalmRun'
      BY <3>1, <3>2 DEF CalmRun, TypeOK
    <3>4. \A r \in Requests : pc'[r] = "none"
      BY <3>1 DEF CalmDispatch
    <3> QED BY <3>3, <3>4 DEF CalmDispatch
  <2>3. ASSUME NEW resp \in Responses, DialRefused(resp) PROVE FALSE
    BY <1>a, <2>3 DEF DialRefused, RefusedWith, CalmRun
  <2>4. CASE FetchNonceFails \/ DialReplyLost \/ DialNetError
    BY <1>a, <2>4 DEF FetchNonceFails, DialReplyLost, DialNetError
  <2>5. CASE SleepDone \/ SleepCancelled \/ ReadFails \/ MainLoop
    BY <2>5 DEF SleepDone, SleepCancelled, ReadFails, MainLoop, CalmRun
  <2>6. CASE ReadJunk
    BY <2>6 DEF ReadJunk, Receive, CalmRun, CalmDispatch
  <2>7. ASSUME NEW r \in Requests, ReadRequest(r) PROVE CalmRun' /\ CalmDispatch'
    <3>1. /\ run = "reading" /\ UNCHANGED <<procVars, runVars, connVars, link, proxyVars>>
          /\ pc' = [pc EXCEPT ![r] = "start"] /\ home' = [home EXCEPT ![r] = cur]
      BY <2>7 DEF ReadRequest, Receive
    <3>2. CalmRun'
      BY <3>1 DEF CalmRun
    <3> QED BY <3>1, <3>2 DEF CalmDispatch, TypeOK
  <2> QED BY <1>1, <2>1, <2>2, <2>3, <2>4, <2>5, <2>6, <2>7 DEF RunStep
<1>2. ASSUME NEW c \in Conns, WatcherCloses(c) PROVE FALSE
  BY <1>a, <1>2 DEF WatcherCloses
<1>3. ASSUME NEW r \in Requests, Dispatch(r) PROVE CalmRun' /\ CalmDispatch'
  <2> USE DEF At, Goto
  <2>1. CASE BadPath(r) \/ HandlerActs(r) \/ HandlerReturns(r) \/ HandlerPanics(r) \/ LockWrite(r)
    <3>1. /\ UNCHANGED <<procVars, runVars, connVars, link, session, rival, home, answer>>
          /\ pc[r] # "none"
          /\ \E l \in {"acted", "reply", "write"} : pc' = [pc EXCEPT ![r] = l]
      BY <2>1 DEF BadPath, HandlerActs, HandlerReturns, HandlerPanics, LockWrite
    <3>2. CalmRun'
      BY <3>1 DEF CalmRun
    <3> QED BY <3>1, <3>2 DEF CalmDispatch, TypeOK
  <2>2. CASE WriteOk(r)
    <3>1. /\ UNCHANGED <<procVars, runVars, connVars, link, session, rival, home>>
          /\ pc[r] = "write" /\ pc' = [pc EXCEPT ![r] = "sent"]
          /\ answer' = [answer EXCEPT ![r] = status[r]]
      BY <2>2 DEF WriteOk, Unlock
    <3>2. status[r] # "none"
      BY <3>1 DEF RelayInv, ProgressInv
    <3>3. CalmRun'
      BY <3>1 DEF CalmRun
    <3>4. \A s \in Requests : s # r => pc'[s] = pc[s] /\ answer'[s] = answer[s]
      BY <3>1 DEF TypeOK
    <3>5. pc'[r] = "sent" /\ answer'[r] # "none"
      BY <3>1, <3>2 DEF TypeOK
    <3> QED BY <3>1, <3>3, <3>4, <3>5 DEF CalmDispatch
  <2>3. CASE WriteBuffered(r) \/ WriteErr(r) \/ SendFailure(r)
    <3>1. /\ pc[r] = "sendFailed" \/ conn[home[r]] = "closed" \/ link[home[r]] \in {"stalled", "down"}
          /\ pc[r] # "none"
      BY <2>3 DEF WriteBuffered, WriteErr, SendFailure, Unlock
    <3>2. home[r] = cur /\ conn[cur] = "open" /\ link[cur] = "up" /\ pc[r] # "sendFailed"
      BY <3>1 DEF CalmDispatch, CalmRun
    <3> QED BY <3>1, <3>2
  <2> QED BY <1>3, <2>1, <2>2, <2>3 DEF Dispatch
<1>4. CASE HostStep
  BY <1>a, <1>4 DEF HostStep, Cancel, Crash, Restart, CalmRun
<1>5. CASE NetStep
  <2>1. ASSUME NEW c \in Conns, LinkStalls(c) \/ LinkBreaks(c) \/ KeepaliveExpires(c)
        PROVE  FALSE
    BY <1>a, <1>b, <2>1 DEF LinkStalls, LinkBreaks, KeepaliveExpires
  <2>2. CASE ProxyDropsSession \/ NonceExpires \/ RivalConnects \/ RivalLeaves
    BY <1>a, <2>2 DEF ProxyDropsSession, NonceExpires, RivalConnects, RivalLeaves, CalmRun, NoConn
  <2>3. ASSUME NEW m \in Requests \cup {Junk}, ProxySends(m) PROVE CalmRun' /\ CalmDispatch'
    BY <2>3 DEF ProxySends, CalmRun, CalmDispatch
  <2> QED BY <1>5, <2>1, <2>2, <2>3 DEF NetStep
<1>6. CASE UNCHANGED vars
  BY <1>6 DEF vars, CalmRun, CalmDispatch
<1> QED BY <1>1, <1>2, <1>3, <1>4, <1>5, <1>6 DEF Next

\* AnsweredUnlessFault (client.go:270-357): a robot that moved is answered for, unless the
\* environment failed or the process was told to stop.
THEOREM NoAnswerLost == Spec => []AnsweredUnlessFault
<1>1. TunnelInv /\ RelayInv /\ CalmInv /\ [Next]_vars => CalmInv'
  BY CalmStep DEF TunnelInv
<1>2. TunnelInv /\ CalmInv => AnsweredUnlessFault
  <2> SUFFICES ASSUME TypeOK, CalmInv, NEW r \in Requests, pc[r] \in Finished,
                      answer[r] = "none", ~(faults < MaxFaults), ~ctxDone
               PROVE  FALSE
    BY DEF AnsweredUnlessFault, TunnelInv
  <2>1. Calm
    BY TunnelAssumption DEF Calm, TypeOK
  <2> QED BY <2>1 DEF CalmInv, CalmDispatch, Finished
<1> QED BY <1>1, <1>2, CalmInit, TunnelInvCorrect, RelayInvCorrect, PTL DEF Spec
=============================================================================
