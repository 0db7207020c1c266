---------------------------- MODULE LogChannel ----------------------------
(***************************************************************************)
(* What a node promises about the log entries it accepts, whatever its     *)
(* sockets, tasks and retries do: an entry waits, travels with the batch   *)
(* it was taken in, and comes out or comes back with it as a whole.  An    *)
(* entry that waits is never dropped, and one that neither waits nor       *)
(* travels never returns.  A batch may be out and come back all the same.  *)
(***************************************************************************)
EXTENDS Naturals

VARIABLES
  accepted,   \* how many entries were accepted; they are 1..accepted
  waiting,    \* the entries that wait to be taken
  flights,    \* the batches under way, as sets of entries
  out,        \* the entries that came out at the other end
  dropped     \* the entries that were given up on their way

channel == <<accepted, waiting, flights, out, dropped>>

Init ==
  /\ accepted = 0
  /\ waiting = {} /\ flights = {} /\ out = {} /\ dropped = {}

Accept ==
  /\ accepted' = accepted + 1
  /\ waiting' = waiting \cup {accepted + 1}
  /\ UNCHANGED <<flights, out, dropped>>

\* A batch is all that waits.
Take ==
  /\ waiting # {}
  /\ flights' = flights \cup {waiting}
  /\ waiting' = {}
  /\ UNCHANGED <<accepted, out, dropped>>

ComesOut(B) ==
  /\ flights' = flights \ {B}
  /\ out' = out \cup B
  /\ UNCHANGED <<accepted, waiting, dropped>>

ComesBack(B) ==
  /\ flights' = flights \ {B}
  /\ waiting' = waiting \cup B
  /\ out' \in {out, out \cup B}
  /\ UNCHANGED <<accepted, dropped>>

Drop(B) ==
  /\ flights' = flights \ {B}
  /\ dropped' = dropped \cup B
  /\ UNCHANGED <<accepted, waiting, out>>

Next ==
  \/ Accept \/ Take
  \/ \E B \in flights : ComesOut(B) \/ ComesBack(B) \/ Drop(B)

Spec == Init /\ [][Next]_channel
=============================================================================
