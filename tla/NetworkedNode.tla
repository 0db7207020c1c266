--------------------------- MODULE NetworkedNode ---------------------------
(***************************************************************************)
(* A node process (networked_node.py, driven by w0guard_node.main): its    *)
(* connect() starts run_forever as a task, a second task that waits for    *)
(* the first handshake, and waits until one of them is done or the timeout *)
(* is over; its close() drains the judges, flushes, cancels the task,      *)
(* awaits it, flushes again and closes the transport.  The task runs       *)
(* beside both; it is the transport of NodeTransport, without stop_event,  *)
(* against the relay of this repository, whose only reply is the ack.      *)
(***************************************************************************)
EXTENDS NodeTransport

VARIABLES
  node,       \* where main, connect and close are
  first,      \* wait_connected_task: on the event, woken by it, done, cancelled
  swallowed   \* history: a cancellation met the task where it catches it

nodeVars == <<vars, node, first, swallowed>>

NodeInit ==
  /\ Init
  /\ node = "new"
  /\ first = "waiting"
  /\ swallowed = FALSE

\* connect() creates both tasks and waits.
Connect ==
  /\ node = "new"
  /\ node' = "connecting"
  /\ Start
  /\ UNCHANGED <<first, swallowed>>

\* A handshake sets the event; wait_connected_task is scheduled, not yet done.
HandshakeDone ==
  /\ Acknowledged
  /\ first' = IF first = "waiting" THEN "woken" ELSE first
  /\ UNCHANGED <<node, swallowed>>

FirstDone ==
  /\ first = "woken"
  /\ first' = "done"
  /\ UNCHANGED <<vars, node, swallowed>>

\* asyncio.wait is released: by the timeout, at any moment, or by the end of one
\* of the tasks.  What is done is looked up later, when connect() resumes.
Released ==
  /\ node = "connecting"
  /\ node' = "resuming"
  /\ UNCHANGED <<vars, first, swallowed>>

ConnectReturns ==
  /\ node = "resuming"
  /\ first = "done"
  /\ node' = "up"
  /\ UNCHANGED <<vars, first, swallowed>>

\* run_forever gave up before a handshake was seen: connect() re-raises.
ConnectRaises ==
  /\ node = "resuming"
  /\ first # "done"
  /\ pc = "ended"
  /\ node' = "failed"
  /\ first' = "cancelled"
  /\ UNCHANGED <<vars, swallowed>>

\* Mutant: the attempt goes on after connect() gave up on it.
ConnectTimesOutOnly ==
  /\ node = "resuming"
  /\ first # "done"
  /\ pc # "ended"
  /\ node' = "failed"
  /\ first' = "cancelled"
  /\ UNCHANGED <<vars, swallowed>>

\* Neither task is done: run_forever is cancelled wherever it is by now, also in
\* a session that began after the timeout, and not awaited.
ConnectTimesOut ==
  /\ node = "resuming"
  /\ first # "done"
  /\ pc # "ended"
  /\ Cancel
  /\ node' = "failed"
  /\ first' = "cancelled"
  /\ swallowed' = (pc = "teardown")

\* quit: close() starts, with the bounded drain of the judge tasks.
Quit ==
  /\ node = "up"
  /\ node' = "drain"
  /\ UNCHANGED <<vars, first, swallowed>>

\* The drain is over and the first flush starts, or has nothing to send.
FirstFlush ==
  /\ node = "drain"
  /\ \/ CanFlush /\ StartFlush("caller") /\ node' = "flush1" /\ UNCHANGED <<lifecycle, stop>>
     \/ ~CanFlush /\ node' = "cancel" /\ UNCHANGED vars
  /\ UNCHANGED <<first, swallowed>>

\* Sent, or an exception that close() ignores.
FirstFlushEnds ==
  /\ node = "flush1"
  /\ FlushSent("caller") \/ FlushClosed("caller")
  /\ node' = "cancel"
  /\ UNCHANGED <<lifecycle, stop, first, swallowed>>

\* Mutant: the task is awaited without being cancelled.
CancelNothing ==
  /\ node = "cancel"
  /\ node' = "await"
  /\ UNCHANGED <<vars, first, swallowed>>

\* The task is cancelled, wherever it is, and then awaited.
CancelTask ==
  /\ node = "cancel"
  /\ Cancel
  /\ node' = "await"
  /\ swallowed' = (pc = "teardown")
  /\ UNCHANGED first

\* Mutant: the task is cancelled and not awaited.
AwaitNothing ==
  /\ node = "await"
  /\ node' = "close"
  /\ UNCHANGED <<vars, first, swallowed>>

\* The awaited task is over.  The last flush finds no socket (ClosedForGood).
AwaitTask ==
  /\ node = "await"
  /\ pc = "ended"
  /\ node' = "close"
  /\ UNCHANGED <<vars, first, swallowed>>

\* transport.close()
CloseTransport ==
  /\ node = "close"
  /\ connected' = FALSE
  /\ ws' = "none"
  /\ SendsFail
  /\ node' = "closed"
  /\ UNCHANGED <<pc, after, told, backoff, stop, logs, first, swallowed>>

\* The process exits: nothing of it runs any more.
Exited ==
  /\ node \in {"closed", "failed"} /\ pc = "ended"
  /\ UNCHANGED nodeVars

TaskStep ==
  \/ Dialled \/ DialFails \/ Rejected \/ HelloFails
  \/ SessionLost \/ LoopCancelled \/ TeardownEnds \/ Closed \/ Retry

CloseStep ==
  \/ FirstFlush \/ FirstFlushEnds \/ CancelTask
  \/ AwaitTask \/ CloseTransport

\* What run_forever and its flush loop do by themselves.
NodeTaskStep == (TaskStep /\ UNCHANGED <<node, first, swallowed>>) \/ HandshakeDone
NodeFlushStep == FlushLoopStep /\ UNCHANGED <<node, first, swallowed>>

NodeNext ==
  \/ Connect \/ FirstDone \/ Released
  \/ ConnectReturns \/ ConnectRaises \/ ConnectTimesOut
  \/ NodeTaskStep \/ NodeFlushStep
  \/ (QueueLog \/ SocketDies) /\ UNCHANGED <<node, first, swallowed>>
  \/ Quit \/ CloseStep \/ Exited

NodeSpec == NodeInit /\ [][NodeNext]_nodeVars

\* The fairness of the transport, and close() runs when what it awaits is done.
NodeFairSpec ==
  /\ NodeSpec
  /\ WF_nodeVars(NodeTaskStep)
  /\ WF_nodeVars(NodeFlushStep)
  /\ WF_nodeVars(CloseStep)

-----------------------------------------------------------------------------
(* Properties                                                              *)

\* The node's own variables, beside those of the transport.
NodeTypeOK ==
  /\ TypeOK
  /\ node \in {"new", "connecting", "resuming", "up", "failed", "drain", "flush1",
               "cancel", "await", "close", "closed"}
  /\ first \in {"waiting", "woken", "done", "cancelled"}
  /\ swallowed \in BOOLEAN

\* "quit -- disconnects cleanly and exits" (w0guard_node.py:18): close(), once
\* called, comes to an end.
CloseReturns == node = "drain" ~> node = "closed"

\* What does hold: close() comes to an end unless its cancellation met the
\* task in the finally block of _run_session, which swallows it.
CloseReturnsUnlessSwallowed ==
  node = "drain" ~> (node = "closed" \/ swallowed)

\* Once close() has awaited the task, the connection is gone (which is why its
\* last flush is the no-op the comment at :174-177 says it is) and no task of
\* the node can bring it back or send, whatever it was doing when quit came.
ClosedForGood ==
  node \in {"close", "closed"} =>
    /\ pc = "ended" /\ ~connected /\ ws = "none"
    /\ \A f \in Flusher : flush[f] = "off"

\* A node whose connect() raised stays away: the task is over or on its way out
\* for good, and starts no session behind its owner's back.  The timeout races
\* the handshake (networked_node.py:143-159): the session may be there already
\* when connect() gives up on it.  Only a cancellation that met the teardown of
\* such a session is swallowed.
ConnectIsTruthful ==
  node = "failed" /\ ~swallowed =>
    pc = "ended" \/ (pc \in {"teardown", "closing"} /\ after = "cancel")
=============================================================================
