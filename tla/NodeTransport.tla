--------------------------- MODULE NodeTransport ---------------------------
(***************************************************************************)
(* A node's connection to the relay (node_transport.py): the run_forever   *)
(* coroutine, its background flush loop and the log buffer both share with *)
(* whoever calls queue_log and flush_logs.  Each action is the code        *)
(* between two awaits.                                                     *)
(*                                                                         *)
(* run_forever waits at: "dial" the WebSocket connect, "hello" the ack of  *)
(* the handshake, "session" the next frame, "teardown" the end of the      *)
(* cancelled background tasks, "closing" the close of the socket and       *)
(* "backoff" the sleep before a retry.  Log entries are numbered in the    *)
(* order they are queued.  The heartbeat task changes no state and is left *)
(* out, and so is the random jitter of the sleep.                          *)
(***************************************************************************)
EXTENDS Integers, SequencesExt

CONSTANTS
  InitialBackoff, MaxBackoff, BackoffFactor,  \* keyword arguments of run_forever
  MaxEntries    \* bound: log entries queued

ASSUME BackoffAssumption ==
  /\ InitialBackoff \in Nat \ {0}
  /\ MaxBackoff \in Nat /\ MaxBackoff >= InitialBackoff
  /\ BackoffFactor \in Nat \ {0}
ASSUME EntriesAssumption == MaxEntries \in Nat

VARIABLES
  pc,         \* where run_forever waits
  after,      \* why the session or the attempt ends
  ws,         \* _ws: "none", "open", or an object whose connection is "dead"
  connected,  \* _connected_event
  told,       \* the last of on_disconnected, on_reconnected the caller was
              \* told; is_reconnect is told = "lost"
  backoff,
  stop,       \* stop_event
  flush,      \* each flush_logs caller: "off", "idle", or in its send
  batch,      \* the entries each of them took out of the buffer
  buffer,     \* _log_buffer
  queued,     \* history: entries queued so far
  written,    \* history: entries handed to an open socket
  lost        \* history: entries dropped with a cancelled send

\* The flush loop is run_forever's task; the caller is NetworkedNode.close.
Flusher == {"loop", "caller"}

lifecycle == <<pc, after, ws, connected, told, backoff>>
logs == <<batch, buffer, queued, written, lost>>
vars == <<lifecycle, stop, flush, logs>>

Init ==
  /\ pc = "idle"
  /\ after = "none"
  /\ ws = "none"
  /\ connected = FALSE
  /\ told = "new"
  /\ backoff = InitialBackoff
  /\ stop = FALSE
  /\ flush = [f \in Flusher |-> "off"]
  /\ batch = [f \in Flusher |-> <<>>]
  /\ buffer = <<>>
  /\ queued = 0
  /\ written = {}
  /\ lost = {}

-----------------------------------------------------------------------------
(* The log buffer                                                          *)

\* queue_log: any local event, a received antigen or an AI verdict.
QueueLog ==
  /\ queued < MaxEntries
  /\ queued' = queued + 1
  /\ buffer' = Append(buffer, queued + 1)
  /\ UNCHANGED <<lifecycle, stop, flush, batch, written, lost>>

CanFlush == buffer # <<>> /\ ws # "none"

\* Mutant: the buffer is copied, and not emptied before the send is awaited.
TakeBatchCopy(f) ==
  /\ batch' = [batch EXCEPT ![f] = buffer]
  /\ UNCHANGED <<buffer, queued, written, lost>>

\* flush_logs up to its await: the batch leaves the buffer before the send.
TakeBatch(f) ==
  /\ batch' = [batch EXCEPT ![f] = buffer]
  /\ buffer' = <<>>
  /\ UNCHANGED <<queued, written, lost>>

StartFlush(f) ==
  /\ CanFlush
  /\ TakeBatch(f)
  /\ flush' = [flush EXCEPT ![f] = IF ws = "open" THEN "send" ELSE "failing"]

\* What a flusher does once its flush is over.
Rest(f) == IF f = "loop" THEN "idle" ELSE "off"

\* The batch was written and the send returns.
FlushSent(f) ==
  /\ flush[f] = "send"
  /\ flush' = [flush EXCEPT ![f] = Rest(f)]
  /\ written' = written \cup ToSet(batch[f])
  /\ batch' = [batch EXCEPT ![f] = <<>>]
  /\ UNCHANGED <<buffer, queued, lost>>

\* Mutant: the except clause re-raises without putting the batch back.
PutBackNothing(f) ==
  /\ buffer' = buffer
  /\ batch' = [batch EXCEPT ![f] = <<>>]

PutBack(f) ==
  /\ buffer' = batch[f] \o buffer
  /\ batch' = [batch EXCEPT ![f] = <<>>]

\* The send raises ConnectionClosed, before or after the bytes went out.  The
\* batch is put back; the exception ends the flush loop, if it is its flush.
FlushClosed(f) ==
  /\ flush[f] = "failing"
  /\ flush' = [flush EXCEPT ![f] = "off"]
  /\ written' \in {written, written \cup ToSet(batch[f])}
  /\ PutBack(f)
  /\ UNCHANGED <<queued, lost>>

\* _flush_loop wakes up and calls flush_logs, in a session only.
LoopWakes ==
  /\ pc = "session"
  /\ flush["loop"] = "idle"
  /\ StartFlush("loop")
  /\ UNCHANGED <<lifecycle, stop>>

LoopFlushEnds ==
  /\ pc = "session"
  /\ FlushSent("loop") \/ FlushClosed("loop")
  /\ UNCHANGED <<lifecycle, stop>>

-----------------------------------------------------------------------------
(* run_forever                                                             *)

\* Every send on a socket that closes raises ConnectionClosed.
SendsFail == flush' = [f \in Flusher |-> IF flush[f] = "send" THEN "failing" ELSE flush[f]]

\* Where run_forever goes once close() is over.
AfterClose(why) == IF why = "retry" /\ ~stop THEN "backoff" ELSE "ended"

\* Mutant: the callback is left out when the relay closed without an error.
LeaveQuietly(why) ==
  /\ after' = why
  /\ told' = IF why = "retry" /\ pc # "teardown" THEN "lost" ELSE told
  /\ connected' = FALSE
  /\ ws' = IF ws = "open" THEN "dead" ELSE "none"
  /\ SendsFail
  /\ pc' = IF ws = "open" THEN "closing" ELSE AfterClose(why)

\* An attempt or session is over: the except clause, then close() up to its
\* await.  There is none for a socket that is gone: websockets waits only for
\* a connection that is still up.
Leave(why) ==
  /\ after' = why
  /\ told' = IF why = "retry" THEN "lost" ELSE told
  /\ connected' = FALSE
  /\ ws' = IF ws = "open" THEN "dead" ELSE "none"
  /\ SendsFail
  /\ pc' = IF ws = "open" THEN "closing" ELSE AfterClose(why)

\* The task starts.
Start ==
  /\ pc = "idle"
  /\ pc' = IF stop THEN "ended" ELSE "dial"
  /\ after' = IF stop THEN "stop" ELSE after
  /\ UNCHANGED <<ws, connected, told, backoff, stop, flush, logs>>

\* Mutant: the delay is reset once the WebSocket is up.
DialledResets ==
  /\ pc = "dial"
  /\ pc' = "hello"
  /\ ws' = "open"
  /\ backoff' = InitialBackoff
  /\ UNCHANGED <<after, connected, told, stop, flush, logs>>

\* The WebSocket is up, hello is written and the ack awaited.
Dialled ==
  /\ pc = "dial"
  /\ pc' = "hello"
  /\ ws' = "open"
  /\ UNCHANGED <<after, connected, told, backoff, stop, flush, logs>>

\* Relay unreachable, HTTP error, DNS failure.
DialFails ==
  /\ pc = "dial"
  /\ Leave("retry")
  /\ UNCHANGED <<backoff, stop, logs>>

\* Mutant: the background tasks are started for the first session only.
AcknowledgedOnce ==
  /\ pc = "hello"
  /\ ws = "open"
  /\ pc' = "session"
  /\ connected' = TRUE
  /\ told' = IF told = "lost" THEN "back" ELSE told
  /\ backoff' = InitialBackoff
  /\ flush' = [flush EXCEPT !["loop"] = IF told = "new" THEN "idle" ELSE @]
  /\ UNCHANGED <<after, ws, stop, logs>>

\* hello_ack: the session starts, with its two background tasks.
Acknowledged ==
  /\ pc = "hello"
  /\ ws = "open"
  /\ pc' = "session"
  /\ connected' = TRUE
  /\ told' = IF told = "lost" THEN "back" ELSE told
  /\ backoff' = InitialBackoff
  /\ flush' = [flush EXCEPT !["loop"] = "idle"]
  /\ UNCHANGED <<after, ws, stop, logs>>

\* The relay closed with 4003, 4000 or 4001: AuthenticationError, not retried.
Rejected ==
  /\ pc = "hello"
  /\ ws = "dead"
  /\ Leave("auth")
  /\ UNCHANGED <<backoff, stop, logs>>

\* It closed for another reason: ConnectionError.
HelloFails ==
  /\ pc = "hello"
  /\ ws = "dead"
  /\ Leave("retry")
  /\ UNCHANGED <<backoff, stop, logs>>

\* The reply is not the ack: ConnectionError, with the socket still up.
WrongReply ==
  /\ pc = "hello"
  /\ ws = "open"
  /\ Leave("retry")
  /\ UNCHANGED <<backoff, stop, logs>>

\* The socket dies: relay restart, network drop, keepalive timeout.
SocketDies ==
  /\ ws = "open"
  /\ ws' = "dead"
  /\ SendsFail
  /\ UNCHANGED <<pc, after, connected, told, backoff, stop, logs>>

\* An antigen arrives while stop_event is set: the session returns.  Without
\* stop_event an antigen only queues a log entry (QueueLog).
StopSeen ==
  /\ pc = "session"
  /\ stop
  /\ pc' = "teardown"
  /\ after' = "stop"
  /\ UNCHANGED <<ws, connected, told, backoff, stop, flush, logs>>

\* The frame iterator ends or raises: the finally block of _run_session.
SessionLost ==
  /\ pc = "session"
  /\ ws = "dead"
  /\ pc' = "teardown"
  /\ after' = "retry"
  /\ UNCHANGED <<ws, connected, told, backoff, stop, flush, logs>>

\* The cancelled flush task ends.  A batch it is sending is not put back:
\* CancelledError is not ConnectionClosed.  The bytes may be out already.
LoopCancelled ==
  /\ pc = "teardown"
  /\ flush["loop"] # "off"
  /\ flush' = [flush EXCEPT !["loop"] = "off"]
  /\ batch' = [batch EXCEPT !["loop"] = <<>>]
  /\ \/ written' = written \cup ToSet(batch["loop"]) /\ lost' = lost
     \/ lost' = lost \cup ToSet(batch["loop"]) /\ written' = written
  /\ UNCHANGED <<lifecycle, stop, buffer, queued>>

\* Mutant: the background tasks are not awaited (nor cancelled) on the way out.
TeardownEndsEarly ==
  /\ pc = "teardown"
  /\ Leave(after)
  /\ UNCHANGED <<backoff, stop, logs>>

TeardownEnds ==
  /\ pc = "teardown"
  /\ flush["loop"] = "off"
  /\ Leave(after)
  /\ UNCHANGED <<backoff, stop, logs>>

Closed ==
  /\ pc = "closing"
  /\ pc' = AfterClose(after)
  /\ ws' = "none"
  /\ UNCHANGED <<after, connected, told, backoff, stop, flush, logs>>

Capped(delay) == IF delay < MaxBackoff THEN delay ELSE MaxBackoff

\* Mutant: the ceiling on the delay is left out.
RetryUncapped ==
  /\ pc = "backoff"
  /\ backoff' = backoff * BackoffFactor
  /\ pc' = IF stop THEN "ended" ELSE "dial"
  /\ UNCHANGED <<after, ws, connected, told, stop, flush, logs>>

\* Mutant: retrying is given up once the ceiling is reached.
RetryUpToCeiling ==
  /\ pc = "backoff"
  /\ backoff' = Capped(backoff * BackoffFactor)
  /\ pc' = IF stop \/ backoff = MaxBackoff THEN "ended" ELSE "dial"
  /\ UNCHANGED <<after, ws, connected, told, stop, flush, logs>>

\* The sleep is over: the next delay is longer, and the loop condition is read.
Retry ==
  /\ pc = "backoff"
  /\ backoff' = Capped(backoff * BackoffFactor)
  /\ pc' = IF stop THEN "ended" ELSE "dial"
  /\ UNCHANGED <<after, ws, connected, told, stop, flush, logs>>

-----------------------------------------------------------------------------
(* The caller cancels the task: CancelledError is raised at its await.     *)

CancelAttempt ==
  /\ pc \in {"idle", "dial", "hello"}
  /\ Leave("cancel")
  /\ UNCHANGED <<backoff, stop, logs>>

CancelSession ==
  /\ pc = "session"
  /\ pc' = "teardown"
  /\ after' = "cancel"
  /\ UNCHANGED <<ws, connected, told, backoff, stop, flush, logs>>

\* _run_session awaits its cancelled tasks under except CancelledError: pass,
\* which catches the caller's cancellation too.  A finished task ignores it.
CancelIgnored ==
  /\ pc \in {"teardown", "ended"}
  /\ UNCHANGED vars

\* close() is interrupted before it forgets the socket; a sleep just ends.
CancelPause ==
  /\ pc \in {"closing", "backoff"}
  /\ pc' = "ended"
  /\ after' = "cancel"
  /\ UNCHANGED <<ws, connected, told, backoff, stop, flush, logs>>

Cancel == CancelAttempt \/ CancelSession \/ CancelIgnored \/ CancelPause

SetStop ==
  /\ ~stop
  /\ stop' = TRUE
  /\ UNCHANGED <<lifecycle, flush, logs>>

\* flush_logs called from outside the task.
CallerFlushes ==
  /\ flush["caller"] = "off"
  /\ StartFlush("caller")
  /\ UNCHANGED <<lifecycle, stop>>

CallerFlushEnds ==
  /\ FlushSent("caller") \/ FlushClosed("caller")
  /\ UNCHANGED <<lifecycle, stop>>

\* What run_forever does by itself.
RunForeverStep ==
  \/ Start \/ Dialled \/ DialFails \/ Acknowledged \/ Rejected \/ HelloFails \/ WrongReply
  \/ SessionLost \/ LoopCancelled \/ TeardownEnds \/ Closed \/ Retry

FlushLoopStep == LoopWakes \/ LoopFlushEnds

Next ==
  \/ RunForeverStep \/ FlushLoopStep \/ StopSeen \/ SocketDies
  \/ QueueLog \/ CallerFlushes \/ CallerFlushEnds \/ SetStop \/ Cancel

Spec == Init /\ [][Next]_vars

\* The same without a cancellation or a stop: only the network interferes.
DropSpec ==
  Init /\ [][RunForeverStep \/ FlushLoopStep \/ SocketDies \/ QueueLog]_vars

\* The event loop runs what is ready.  A dial and a close have timeouts in
\* websockets; the relay answers a hello or closes within its own
\* HANDSHAKE_TIMEOUT_SECONDS, and the keepalive ends a send that is blocked.
FairSpec == Spec /\ WF_vars(RunForeverStep) /\ WF_vars(FlushLoopStep)
                 /\ WF_vars(CallerFlushEnds)

-----------------------------------------------------------------------------
(* Properties                                                              *)

\* Every variable stays within the values its code can hold.
TypeOK ==
  /\ pc \in {"idle", "dial", "hello", "session", "teardown", "closing", "backoff", "ended"}
  /\ after \in {"none", "retry", "auth", "stop", "cancel"}
  /\ ws \in {"none", "open", "dead"}
  /\ connected \in BOOLEAN /\ stop \in BOOLEAN
  /\ told \in {"new", "lost", "back"}
  /\ backoff \in Nat /\ backoff <= MaxBackoff
  /\ flush \in [Flusher -> {"off", "idle", "send", "failing"}]
  /\ batch \in [Flusher -> Seq(1..queued)]
  /\ buffer \in Seq(1..queued)
  /\ queued \in 0..MaxEntries
  /\ written \subseteq 1..queued /\ lost \subseteq 1..queued

Held == ToSet(buffer) \cup UNION {ToSet(batch[f]) : f \in Flusher}

\* A log entry is waiting, being sent, or was handed to a socket: "put the
\* batch back so it goes out on the next successful flush after reconnect,
\* instead of silently losing entries" (node_transport.py:122-124).
NoEntryLost == 1..queued \subseteq Held \cup written

\* What does hold: an entry can only be lost by the cancellation of the flush
\* loop in the middle of its send; every other path out of flush_logs keeps it.
\* ImplementsChannel implies it, and is what the run checks.
LostByCancelOnly == 1..queued \subseteq Held \cup written \cup lost

\* No entry is held twice, so none is uploaded twice over a healthy socket:
\* two flushes in flight at once (the loop's and the final one of close) and
\* their put-backs never share an entry.
HeldOnce ==
  /\ IsInjective(buffer)
  /\ \A f \in Flusher :
       /\ IsInjective(batch[f])
       /\ ToSet(batch[f]) \cap ToSet(buffer) = {}
       /\ \A g \in Flusher \ {f} : ToSet(batch[f]) \cap ToSet(batch[g]) = {}

\* The batches that flushers hold.
Flights == {ToSet(batch[f]) : f \in Flusher} \ {{}}

Channel == INSTANCE LogChannel WITH
  accepted <- queued, waiting <- ToSet(buffer), flights <- Flights,
  out <- written, dropped <- lost

\* Seen from outside, buffer, flushers and sockets are one log channel: with
\* two flushes in flight, put-backs, teardowns and retries, a batch comes out,
\* comes back or is dropped as a whole, an entry that waits is never dropped,
\* and one that neither waits nor travels any more is never queued again.
ImplementsChannel == Channel!Spec

\* Whoever waits on the connection is never misled: the event is set exactly
\* from the ack to the end of the session ("Set only while a real
\* authenticated session is live", :61), and while the node sleeps before a
\* retry its owner has been told the connection is lost, even if the relay
\* closed it without an error (:242-248), and told it is back in a session.
StatusIsTrue ==
  /\ pc = "session" => connected /\ told # "lost"
  /\ connected => pc \in {"session", "teardown"}
  /\ pc = "backoff" => told = "lost"

\* No flush task of an old session outlives it: a leftover one would send on
\* the next session's socket beside that session's own.
NoOrphanTask == flush["loop"] # "off" => pc \in {"session", "teardown"}

\* The delay before a retry only ever shrinks by a completed handshake
\* ("reset only after a real handshake success", :197): a relay that accepts
\* connections and drops them is not hammered.
BackoffResetsOnHandshake == [][backoff' < backoff => pc = "hello" /\ connected']_vars

\* A lost session, like a failed attempt, is always followed by another one,
\* however many have failed before, unless the token is refused, the task is
\* cancelled or stop_event is set ("On any transient failure it closes
\* cleanly and retries", :175-177).
LossIsRetried ==
  (pc = "backoff" \/ (pc = "session" /\ ws = "dead"))
    ~> (pc = "dial" \/ (pc = "ended" /\ (stop \/ after \in {"auth", "cancel"})))

\* Buffered entries go out as long as a session lasts, also those that an
\* earlier connection put back, and whichever flusher holds them.
LogsGoOut ==
  \A e \in 1..MaxEntries :
    (pc = "session" /\ e <= queued)
      ~> (e \in written \cup lost \/ pc # "session" \/ ws # "open")
=============================================================================
