----------------------------- MODULE AntigenHub -----------------------------
(***************************************************************************)
(* What the relay promises to its nodes, whatever its handlers do: a hub   *)
(* with a memory.  It knows nothing of handlers, loops and awaits.  Every  *)
(* connected node sits on one socket; what the hub still owes to a socket  *)
(* is its inbox.  A node that joins is owed the whole memory, a broadcast  *)
(* is owed to every other node, and a debt is only ever paid, or dropped   *)
(* where the socket is dead or superseded, or named as lost.  A node that  *)
(* moved to a new socket is not owed what it still said on the old one.    *)
(***************************************************************************)
CONSTANTS
  Node,       \* node ids
  Sess,       \* sockets
  NoSess      \* the seat of a node that is not connected

VARIABLES
  seat,       \* the socket of each node
  alive,      \* the sockets that can carry a frame
  memory,     \* the antigens a newcomer will be sent
  inbox,      \* the antigens owed to each socket
  has,        \* the antigens that went over each socket
  lost,       \* <<socket, antigen>>: debts of broadcasts that were cut short, and
              \* what a node said on a socket that it has left for this one
  published   \* every antigen broadcast so far

hub == <<seat, alive, memory, inbox, has, lost, published>>

Init ==
  /\ seat = [n \in Node |-> NoSess]
  /\ alive = {}
  /\ memory = {}
  /\ inbox = [s \in Sess |-> {}]
  /\ has = [s \in Sess |-> {}]
  /\ lost = {}
  /\ published = {}

\* The debts to every socket but those of S stay as they are.
OwesTheSameExcept(S) == \A t \in Sess \ S : inbox'[t] = inbox[t]

\* A socket comes up, or goes down under the hub.  None comes up again while a
\* node sits on it.
Up(s) ==
  /\ \A n \in Node : seat[n] # s
  /\ alive' = alive \cup {s}
  /\ UNCHANGED <<seat, memory, has, lost, published, inbox>>

Down(s) ==
  /\ alive' = alive \ {s}
  /\ UNCHANGED <<seat, memory, has, lost, published, inbox>>

\* A node sits down, where no other node sits: it is owed the memory at least,
\* and nothing that was never broadcast.  The socket it leaves behind may be
\* owed less from now on.
Join(n, s) ==
  /\ \A m \in Node \ {n} : seat[m] # s
  /\ seat' = [seat EXCEPT ![n] = s]
  /\ UNCHANGED <<alive, memory, has, lost, published>>
  /\ memory \subseteq inbox'[s]
  /\ inbox'[s] \subseteq published
  /\ seat[n] \in Sess \ {s} => inbox'[seat[n]] \subseteq inbox[seat[n]]
  /\ OwesTheSameExcept({s, seat[n]})

\* A broadcast by node n over socket s, its seat or one it sat on before:
\* remembered, possibly in place of others, and owed to every other node.
Publish(n, s, p) ==
  /\ published' = published \cup {p}
  /\ has' = [has EXCEPT ![s] = @ \cup {p}]
  /\ lost' = lost \cup {<<t, p>> : t \in {seat[n]} \ {s, NoSess}}
  /\ UNCHANGED <<seat, alive>>
  /\ p \in memory' /\ memory' \subseteq memory \cup {p}
  /\ inbox' = [t \in Sess |->
       IF \E m \in Node \ {n} : seat[m] = t THEN inbox[t] \cup {p} ELSE inbox[t]]

\* A debt is paid.  The hub may still owe the same antigen a second time.
Deliver(s, p) ==
  /\ s \in alive
  /\ has' = [has EXCEPT ![s] = @ \cup {p}]
  /\ UNCHANGED <<seat, alive, memory, lost, published>>
  /\ p \in inbox[s]
  /\ inbox'[s] \in {inbox[s], inbox[s] \ {p}}
  /\ OwesTheSameExcept({s})

\* A dead socket is owed nothing any more.
Forget(s) ==
  /\ s \notin alive
  /\ UNCHANGED <<seat, alive, memory, has, lost, published>>
  /\ inbox'[s] \subseteq inbox[s]
  /\ OwesTheSameExcept({s})

\* A socket is given up, its seat with it.  A broadcast its node was in the
\* middle of may be cut short: whom it still had to reach is on the record.
Leave(s) ==
  /\ alive' = alive \ {s}
  /\ seat' = [n \in Node |-> IF seat[n] = s THEN NoSess ELSE seat[n]]
  /\ has' = [has EXCEPT ![s] = {}]
  /\ UNCHANGED <<memory, published>>
  /\ \A t \in Sess : inbox'[t] \subseteq inbox[t]
  /\ \A t \in Sess \ {s} : \A p \in inbox[t] \ inbox'[t] : <<t, p>> \in lost'
  /\ \A x \in lost : x \in lost' \/ x[1] = s
  /\ \A x \in lost' : x \in lost \/ x[2] \in inbox[x[1]]

\* The hub starts again with nothing.
Reset ==
  /\ seat' = [n \in Node |-> NoSess]
  /\ alive' = {} /\ memory' = {} /\ lost' = {} /\ published' = {}
  /\ inbox' = [s \in Sess |-> {}]
  /\ has' = [s \in Sess |-> {}]

Next ==
  \/ \E s \in Sess : Up(s) \/ Down(s) \/ Forget(s) \/ Leave(s)
  \/ \E s \in Sess, n \in Node : Join(n, s)
  \/ \E n \in Node, s \in Sess : \E p \in published' : Publish(n, s, p)
  \/ \E s \in Sess : \E p \in published : Deliver(s, p)
  \/ Reset

Spec == Init /\ [][Next]_hub

-----------------------------------------------------------------------------
(* Properties *)

\* What the hub is for: whoever sits on a socket that is alive has what the hub
\* remembers, or is owed it, or it is on record as lost.
Promise ==
  \A n \in Node :
    seat[n] \in alive =>
      \A p \in memory :
        p \in has[seat[n]] \cup inbox[seat[n]] \/ <<seat[n], p>> \in lost
=============================================================================
