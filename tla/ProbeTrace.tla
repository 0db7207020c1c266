----------------------------- MODULE ProbeTrace -----------------------------
(***************************************************************************)
(* The trace of a price probe (watchdog/llm_probe.py, run): one line per   *)
(* model call, written and then flushed, and resumed after an interruption *)
(* by reading the trace and writing it anew.                               *)
(*                                                                         *)
(* A file is the set of its answered calls, and whether its last line is   *)
(* torn; failed lines are dropped by every reader.  An exception closes    *)
(* the file and so flushes it; a kill (a signal, the power) does not, and  *)
(* may fall into a write.                                                  *)
(***************************************************************************)
EXTENDS Naturals, FiniteSets

CONSTANTS
  Call,         \* the grid: price, harm, task, repeat
  StopAfter,    \* STOP_AFTER
  BufferLines   \* how many lines the file object may hold back; 8 KiB of text

ASSUME ProbeAssumption ==
  IsFiniteSet(Call) /\ StopAfter \in Nat \ {0} /\ BufferLines \in Nat \ {0}

VARIABLES
  process,   \* "none", "rewriting", "asking", "answered", "written", "stopped", "killed"
  trace,     \* the answered calls on the disk
  torn,      \* the last line on the disk is incomplete
  buffer,    \* written, not flushed
  current,   \* the answered call whose line is not flushed yet, if any
  done, todo,
  failures,  \* in a row, by which the server was out of reach
  answered,  \* history: what this process has read or been told
  recorded   \* history: it has flushed a line of its own

probeVars == <<process, trace, torn, buffer, current, done, todo, failures, answered, recorded>>
file == <<trace, torn, buffer>>

ProbeInit ==
  /\ process = "none" /\ trace = {} /\ torn = FALSE /\ buffer = {} /\ current = {}
  /\ done = {} /\ todo = {} /\ failures = 0 /\ answered = {} /\ recorded = FALSE

\* A new trace in a new file; --limit leaves some calls out.
NewTrace ==
  /\ process \in {"none", "stopped", "killed"}
  /\ todo' \in SUBSET Call
  /\ process' = "asking" /\ trace' = {} /\ torn' = FALSE /\ buffer' = {} /\ current' = {}
  /\ done' = {} /\ failures' = 0 /\ answered' = {} /\ recorded' = FALSE

\* --resume: the trace is read, which raises at a torn line, then opened for
\* writing, which empties it.
Resume ==
  /\ process \in {"stopped", "killed"}
  /\ ~torn
  /\ done' = trace /\ answered' = trace
  /\ todo' \in SUBSET (Call \ trace)
  /\ process' = "rewriting" /\ trace' = {} /\ buffer' = {} /\ current' = {}
  /\ failures' = 0 /\ recorded' = FALSE /\ UNCHANGED torn

\* fh.write: the file object holds back what fits, and puts out the rest.
Write(lines) ==
  \E held \in SUBSET (buffer \cup lines) :
    /\ Cardinality(held) <= BufferLines
    /\ trace' = trace \cup ((buffer \cup lines) \ held)
    /\ buffer' = held
    /\ UNCHANGED torn

\* One carried-over line.
Rewrite(c) ==
  /\ process = "rewriting" /\ c \in done \ (trace \cup buffer)
  /\ Write({c})
  /\ UNCHANGED <<process, current, done, todo, failures, answered, recorded>>

StartAsking ==
  /\ process = "rewriting" /\ done \subseteq trace \cup buffer
  /\ process' = "asking"
  /\ UNCHANGED <<file, current, done, todo, failures, answered, recorded>>

\* one_call returns.  Only failures to reach the server add up.
Ask(c) ==
  /\ process = "asking" /\ c \in todo /\ failures < StopAfter
  /\ todo' = todo \ {c}
  /\ process' = "answered"
  /\ UNCHANGED <<file, done, recorded>>

Answered(c) ==
  /\ Ask(c)
  /\ current' = {c} /\ answered' = answered \cup {c} /\ failures' = 0

Failed(c, transport) ==
  /\ Ask(c)
  /\ failures' = IF transport THEN failures + 1 ELSE 0
  /\ UNCHANGED <<current, answered>>

WriteLine ==
  /\ process = "answered"
  /\ process' = "written"
  /\ Write(current)
  /\ UNCHANGED <<current, done, todo, failures, answered, recorded>>

\* Mutant: no fh.flush() after the line.
FlushForgotten ==
  /\ process = "written"
  /\ process' = "asking" /\ current' = {} /\ recorded' = TRUE
  /\ UNCHANGED <<file, done, todo, failures, answered>>

\* fh.flush(): everything held back goes out with the line.
Flush ==
  /\ process = "written"
  /\ process' = "asking" /\ current' = {} /\ recorded' = TRUE
  /\ trace' = trace \cup buffer /\ buffer' = {}
  /\ UNCHANGED <<torn, done, todo, failures, answered>>

Alive == {"rewriting", "asking", "answered", "written"}

\* The with block is left: the file is closed with what was written to it.
Close ==
  /\ process' = "stopped"
  /\ trace' = trace \cup buffer /\ buffer' = {}
  /\ UNCHANGED <<torn, current, done, todo, failures, answered, recorded>>

\* Nothing left to do, or the server out of reach.
Finish ==
  /\ process = "asking" /\ (todo = {} \/ failures = StopAfter)
  /\ Close

\* An exception, Ctrl-C among them.
Interrupt ==
  /\ process \in Alive
  /\ Close

\* What is held back dies with the process; a kill in the middle of a write
\* leaves a part of it on the disk, the last line incomplete.
Kill ==
  /\ process \in Alive
  /\ process' = "killed" /\ buffer' = {}
  /\ \/ UNCHANGED <<trace, torn>>
     \/ /\ torn' = TRUE
        /\ \E out \in SUBSET buffer : out # buffer /\ trace' = trace \cup out
  /\ UNCHANGED <<current, done, todo, failures, answered, recorded>>

ProbeNext ==
  \/ NewTrace \/ Resume \/ StartAsking
  \/ WriteLine \/ Flush
  \/ Finish \/ Interrupt \/ Kill
  \/ \E c \in Call : Rewrite(c) \/ Answered(c)
  \/ \E c \in Call, transport \in BOOLEAN : Failed(c, transport)

ProbeSpec == ProbeInit /\ [][ProbeNext]_probeVars

-----------------------------------------------------------------------------
\* Once a process has recorded a call of its own (llm_probe.py:189-209), what it
\* carried over and was told is safe: the trace it leaves, even if it is killed,
\* holds answered calls and nothing else, all but the one in hand, and no
\* answered call is on the list to be asked again.
KeptOnceRecorded ==
  /\ process \in {"stopped", "killed"} /\ recorded =>
       trace \subseteq answered /\ answered \ trace \subseteq current
  /\ process = "asking" => todo \cap answered = {}

\* What --resume is for ("continue an interrupted run", llm_probe.py:349): the
\* answers of the run it continues outlast it, however it ends.  The code
\* empties the file before it has them back in it.
NoAnswerLost == process \in {"stopped", "killed"} => done \subseteq trace
=============================================================================
