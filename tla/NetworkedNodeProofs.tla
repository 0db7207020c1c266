------------------------ MODULE NetworkedNodeProofs ------------------------
(***************************************************************************)
(* What holds of a node process for every backoff and any number of log    *)
(* entries: close() leaves nothing behind, connect() tells the truth, and  *)
(* the node uses its transport as NodeTransport says a caller may.         *)
(***************************************************************************)
EXTENDS NetworkedNode, NodeTransportProofs

\* Where run_forever can be at each point of connect() and close().  A socket
\* is only ever closed while up once the task was cancelled: until then it is
\* the loss of the connection that ends a session.
NInv ==
  /\ TInv
  /\ pc \in {"idle", "dial", "backoff", "ended"} => ws = "none"
  /\ connected => pc \in {"session", "teardown"}
  /\ pc = "closing" \/ (pc = "teardown" /\ ws = "open")
       => node \in {"await", "failed"} /\ after = "cancel"
  /\ flush["caller"] # "off" => node = "flush1"
  /\ node = "new" => pc = "idle"
  /\ ConnectIsTruthful
  /\ node \in {"close", "closed"} => pc = "ended"
  /\ pc = "idle" => node = "new"

\* A node starts in NInv.
LEMMA NInit == NodeInit => NInv
<1> SUFFICES ASSUME NodeInit PROVE NInv
  OBVIOUS
<1>1. TInv
  BY TInit DEF NodeInit
<1>2. /\ pc = "idle" /\ ws = "none" /\ connected = FALSE /\ node = "new"
      /\ flush["caller"] = "off"
  BY DEF NodeInit, Init, Flusher
<1> QED
  BY <1>1, <1>2 DEF NInv, ConnectIsTruthful

\* Every step of a node is a step of its transport or leaves it alone: close()
\* flushes from outside only when no such flush is in progress, and its last
\* transport.close() finds nothing to close.
LEMMA NodeStepIsTransportStep == NInv /\ [NodeNext]_nodeVars => [Next]_vars
<1> SUFFICES ASSUME NInv, [NodeNext]_nodeVars PROVE [Next]_vars
  OBVIOUS
<1>1. CASE TaskStep \/ Connect \/ HandshakeDone
  BY <1>1 DEF TaskStep, Connect, HandshakeDone, Next, RunForeverStep
<1>2. CASE FlushLoopStep \/ QueueLog \/ SocketDies
  BY <1>2 DEF Next
<1>3. CASE ConnectTimesOut \/ CancelTask
  BY <1>3 DEF ConnectTimesOut, CancelTask, Next
<1>4. CASE FirstFlush
  <2>1. flush["caller"] = "off"
    BY <1>4 DEF NInv, FirstFlush
  <2> QED
    BY <1>4, <2>1 DEF FirstFlush, CallerFlushes, Next
<1>5. CASE FirstFlushEnds
  BY <1>5 DEF FirstFlushEnds, CallerFlushEnds, Next
<1>6. CASE CloseTransport
  <2>1. pc = "ended" /\ ws = "none" /\ connected = FALSE
    BY <1>6 DEF CloseTransport, NInv, TInv, TypeOK
  <2>2. flush["loop"] = "off" /\ flush["caller"] = "off"
    BY <1>6, <2>1 DEF CloseTransport, NInv, TInv, NoOrphanTask
  <2>3. flush' = flush
    BY <1>6, <2>2 DEF CloseTransport, SendsFail, NInv, TInv, TypeOK, Flusher
  <2> QED
    BY <1>6, <2>1, <2>3 DEF CloseTransport, vars, lifecycle
<1>7. CASE FirstDone \/ Released \/ ConnectReturns \/ ConnectRaises \/ Quit
            \/ AwaitTask \/ Exited \/ UNCHANGED nodeVars
  BY <1>7 DEF FirstDone, Released, ConnectReturns, ConnectRaises, Quit, AwaitTask, Exited,
     nodeVars
<1> QED
  BY <1>1, <1>2, <1>3, <1>4, <1>5, <1>6, <1>7 DEF NodeNext, NodeTaskStep, NodeFlushStep, CloseStep

\* Every step of a node keeps run_forever where close() and connect() expect it.
LEMMA NStep == NInv /\ [NodeNext]_nodeVars => NInv'
<1> SUFFICES ASSUME NInv, [NodeNext]_nodeVars PROVE NInv'
  OBVIOUS
<1> USE DEF lifecycle, ConnectIsTruthful
<1>a. TInv'
  BY NodeStepIsTransportStep, TStep DEF NInv
<1>b. "loop" \in Flusher /\ "caller" \in Flusher /\ flush \in [Flusher -> {"off", "idle", "send", "failing"}]
  BY DEF Flusher, NInv, TInv, TypeOK
<1>1. CASE Connect
  BY <1>1, <1>a DEF Connect, Start, NInv
<1>2. CASE HandshakeDone
  BY <1>2, <1>a, <1>b DEF HandshakeDone, Acknowledged, NInv
<1>3. CASE FirstDone \/ Released \/ ConnectReturns \/ ConnectRaises \/ Quit \/ Exited
            \/ AwaitTask \/ UNCHANGED nodeVars
  BY <1>3, <1>a DEF FirstDone, Released, ConnectReturns, ConnectRaises, Quit, Exited,
     AwaitTask, NInv, nodeVars, vars
<1>4. CASE ConnectTimesOut \/ CancelTask
  <2>1. CASE CancelAttempt
    <3>1. flush'["caller"] # "off" => flush["caller"] # "off"
      BY <1>b, <2>1 DEF CancelAttempt, Leave, SendsFail
    <3> QED
      BY <1>4, <1>a, <2>1, <3>1
      DEF ConnectTimesOut, CancelTask, CancelAttempt, Leave, AfterClose, NInv
  <2>2. CASE CancelSession \/ CancelIgnored \/ CancelPause
    <3>1. /\ \/ node = "resuming" /\ node' = "failed"
             \/ node = "cancel" /\ node' = "await"
          /\ swallowed' <=> pc = "teardown"
      BY <1>4 DEF ConnectTimesOut, CancelTask
    <3>2. CASE CancelSession
      BY <1>a, <3>1, <3>2 DEF CancelSession, NInv
    <3>3. CASE CancelIgnored
      BY <1>a, <3>1, <3>3 DEF CancelIgnored, NInv, vars
    <3>4. CASE CancelPause
      BY <1>a, <3>1, <3>4 DEF CancelPause, NInv
    <3> QED
      BY <2>2, <3>2, <3>3, <3>4
  <2> QED
    BY <1>4, <2>1, <2>2 DEF ConnectTimesOut, CancelTask, Cancel
<1>5. CASE FirstFlush \/ FirstFlushEnds
  <2>1. /\ UNCHANGED lifecycle
        /\ node \in {"drain", "flush1"} /\ node' \in {"flush1", "cancel"}
        /\ flush'["caller"] # "off" => node' = "flush1"
    BY <1>5, <1>b DEF FirstFlush, FirstFlushEnds, FlushSent, FlushClosed, Rest, StartFlush, NInv, vars
  <2> QED
    BY <1>a, <2>1 DEF NInv
<1>6. CASE CloseTransport
  <2>1. flush'["caller"] # "off" => flush["caller"] # "off"
    BY <1>b, <1>6 DEF CloseTransport, SendsFail
  <2> QED
    BY <1>6, <1>a, <2>1 DEF CloseTransport, NInv
<1>7. CASE TaskStep /\ UNCHANGED <<node, first, swallowed>>
  <2>1. flush'["caller"] # "off" => flush["caller"] # "off"
    BY <1>7, <1>b DEF TaskStep, Dialled, DialFails, Rejected, HelloFails, SessionLost,
       LoopCancelled, TeardownEnds, Closed, Retry, Leave, SendsFail
  <2>2. CASE DialFails \/ Rejected \/ HelloFails
    BY <1>7, <1>a, <2>1, <2>2 DEF DialFails, Rejected, HelloFails, Leave, AfterClose, NInv
  <2>3. CASE TeardownEnds
    BY <1>7, <1>a, <2>1, <2>3 DEF TeardownEnds, Leave, AfterClose, NInv
  <2>4. CASE Dialled \/ SessionLost \/ LoopCancelled \/ Closed \/ Retry
    BY <1>7, <1>a, <2>1, <2>4 DEF Dialled, SessionLost, LoopCancelled, Closed, Retry, AfterClose, NInv
  <2> QED
    BY <1>7, <2>2, <2>3, <2>4 DEF TaskStep
<1>8. CASE (FlushLoopStep \/ QueueLog \/ SocketDies) /\ UNCHANGED <<node, first, swallowed>>
  <2>1. flush'["caller"] # "off" => flush["caller"] # "off"
    BY <1>8, <1>b DEF FlushLoopStep, LoopWakes, LoopFlushEnds, StartFlush, FlushSent, FlushClosed,
       QueueLog, SocketDies, SendsFail
  <2>2. UNCHANGED <<pc, after, connected>> /\ (ws' = ws \/ (ws = "open" /\ ws' = "dead"))
    BY <1>8 DEF FlushLoopStep, LoopWakes, LoopFlushEnds, QueueLog, SocketDies
  <2> QED
    BY <1>8, <1>a, <2>1, <2>2 DEF NInv
<1> QED
  BY <1>1, <1>2, <1>3, <1>4, <1>5, <1>6, <1>7, <1>8 DEF NodeNext, NodeTaskStep, NodeFlushStep, CloseStep

\* A node process implements the transport specification: connect() and
\* close() are one of the callers it allows, so all it promises holds here too.
THEOREM NodeImplementsTransport == NodeSpec => Spec
<1>1. NodeInit => Init
  BY DEF NodeInit
<1> QED
  BY <1>1, NInit, NStep, NodeStepIsTransportStep, PTL DEF NodeSpec, Spec

\* Once close() has awaited its task, the connection is gone for good.
THEOREM CloseIsFinal == NodeSpec => []ClosedForGood
<1>1. NInv => ClosedForGood
  BY DEF NInv, ClosedForGood, TInv, TypeOK, NoOrphanTask, Flusher
<1> QED
  BY <1>1, NInit, NStep, PTL DEF NodeSpec

\* Whatever the timeout of connect() races with, also a handshake that completes
\* before connect() resumes: once connect() has raised, no session is left to
\* its own, unless the cancellation met the teardown of one.
THEOREM ConnectTellsTheTruth == NodeSpec => []ConnectIsTruthful
<1>1. NInv => ConnectIsTruthful
  BY DEF NInv
<1> QED
  BY <1>1, NInit, NStep, PTL DEF NodeSpec

\* During quit, connect and everything between, no log entry is lost but by the
\* cancelled flush loop, and none is held twice.
COROLLARY NodeLogAccounting == NodeSpec => [](LostByCancelOnly /\ HeldOnce)
BY NodeImplementsTransport, EntriesAreAccountedFor, EntriesAreHeldOnce, PTL

\* A node that connects, quits and closes is still a log channel, still tells
\* its owner the truth about its connection, and still resets the delay before
\* a retry by a handshake only.
COROLLARY NodeKeepsTransportPromises ==
  NodeSpec => ImplementsChannel /\ []StatusIsTrue /\ BackoffResetsOnHandshake
BY NodeImplementsTransport, TransportImplementsChannel, StatusIsTrueHolds,
   BackoffIsResetByHandshake, PTL
=============================================================================
