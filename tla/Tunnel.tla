---- MODULE Tunnel ----
(***************************************************************************)
(* The way from a client to its board.  vlab.py asks the relay for a port, *)
(* which its shell takes from a counter in Redis, and connects again with  *)
(* that port: ssh forwards a local port of the client's machine to the     *)
(* port on the relay, and the shell's own ssh forwards that one to the     *)
(* board (hw_server).  Only the former ssh gives up when a port is taken;  *)
(* a client whose port is taken on the relay gets another one's board.     *)
(*                                                                         *)
(* One step is one Redis command, or one connection or its end.            *)
(***************************************************************************)
EXTENDS Naturals

CONSTANTS Clients,       \* runs of vlab.py
          Local,         \* the machine and local port of each
          First, Last,   \* the ports of the relay (30000, 35000)
          Unprivileged,  \* the least port a user may forward (1024)
          MaxAsks,       \* bound: how often a port is asked for
          Nil            \* no port

ASSUME PortAssumption == /\ First \in Nat /\ Last \in Nat /\ Unprivileged \in Nat
                         /\ 0 < Unprivileged /\ Unprivileged =< First /\ First =< Last
                         /\ MaxAsks \in Nat
                         /\ Nil \notin Nat

VARIABLES ready,    \* setupusers.py has set the counter
          counter,  \* vlab:port
          pc,       \* what the client, or a shell for it, does next
          port,     \* the port it was given
          bound,    \* its shell's ssh forwards that port on the relay
          asks,     \* how often a port was asked for
          since,    \* history: the ports given out since it got its own
          spoilt    \* history: see Spoils

vars == <<ready, counter, pc, port, bound, asks, since, spoilt>>

\* c has a port; it has its local one too; its shell has connected it to the board.
Holds(c)  == pc[c] \in {"told", "joined", "open"}
Joined(c) == pc[c] \in {"joined", "open"}

TypeOK == /\ ready \in BOOLEAN
          /\ counter \in Nat \cup {Nil}
          /\ pc \in [Clients -> {"idle", "ask", "wrap", "told", "joined", "open"}]
          /\ port \in [Clients -> Nat \cup {Nil}]
          /\ bound \in [Clients -> BOOLEAN]
          /\ asks \in 0..MaxAsks
          /\ since \in [Clients -> Nat]
          /\ spoilt \in BOOLEAN
          /\ \A c \in Clients : /\ Holds(c) <=> port[c] # Nil
                                /\ bound[c] => pc[c] = "open"

\* Redis is empty; users are let in before setupusers.py is done.
Init == /\ ready = FALSE
        /\ counter = Nil
        /\ pc = [c \in Clients |-> "idle"]
        /\ port = [c \in Clients |-> Nil]
        /\ bound = [c \in Clients |-> FALSE]
        /\ asks = 0
        /\ since = [c \in Clients |-> 0]
        /\ spoilt = FALSE

-----------------------------------------------------------------------------
\* The last write of setupusers.py.
SetPort == /\ ~ready
           /\ ready' = TRUE
           /\ counter' = First
           /\ UNCHANGED <<pc, port, bound, asks, since>>

\* INCR takes a key that is not there for 0.
Value == IF counter = Nil THEN 0 ELSE counter

LocalFree(c) == \A d \in Clients : Local[d] = Local[c] => ~Joined(d)

Goto(c, l) == pc[c] # l /\ pc' = [pc EXCEPT ![c] = l]

\* vlab.py looks whether its local port is free and asks for one on the relay.
Ask(c) == /\ pc[c] = "idle"
          /\ asks < MaxAsks
          /\ LocalFree(c)
          /\ asks' = asks + 1
          /\ Goto(c, "ask")
          /\ UNCHANGED <<ready, counter, port, bound, since>>

\* c is given the port p; everyone else has had theirs for one longer.
Given(c, p) ==
    /\ Goto(c, "told")
    /\ port' = [port EXCEPT ![c] = p]
    /\ since' = [d \in Clients |-> IF d # c /\ Holds(d) THEN since[d] + 1 ELSE 0]
    /\ UNCHANGED <<ready, bound, asks>>

\* A slip: the last port is one too far.
TooFar(n) == n > Last + 1

\* The counter is to be reset.
Over(n) == n > Last

Incr(c) == /\ pc[c] = "ask"
           /\ counter' = Value + 1
           /\ \/ ~Over(Value + 1) /\ Given(c, Value + 1)
              \/ /\ Over(Value + 1)
                 /\ Goto(c, "wrap")
                 /\ UNCHANGED <<ready, port, bound, asks, since>>

\* A slip: the counter is not set back.
WrapNot(c) == pc[c] = "wrap" /\ UNCHANGED counter /\ Given(c, First)

Wrap(c) == /\ pc[c] = "wrap"
           /\ counter' = First
           /\ Given(c, First)

\* A slip: the old tunnel stays.
DropPort(c) == /\ Goto(c, "idle")
               /\ port' = [port EXCEPT ![c] = Nil]
               /\ since' = [since EXCEPT ![c] = 0]
               /\ UNCHANGED <<ready, counter, bound, asks>>

\* c is over: it has no port any more.
Drop(c) == /\ Goto(c, "idle")
           /\ port' = [port EXCEPT ![c] = Nil]
           /\ bound' = [bound EXCEPT ![c] = FALSE]
           /\ since' = [since EXCEPT ![c] = 0]
           /\ UNCHANGED <<ready, counter, asks>>

\* The connection is lost, or the shell killed; or the session is over.
Leave(c) == pc[c] # "idle" /\ Drop(c)

\* The second connection: ssh gives up when the local port is taken meanwhile
\* (ExitOnForwardFailure).
Join(c) == /\ pc[c] = "told"
           /\ \/ /\ LocalFree(c)
                 /\ Goto(c, "joined")
                 /\ UNCHANGED <<ready, counter, port, bound, asks, since>>
              \/ ~LocalFree(c) /\ Drop(c)

\* The shell has a board and connects to it, with the port forwarded or without it.
Forward(c) ==
    /\ pc[c] = "joined"
    /\ Goto(c, "open")
    /\ bound' = [bound EXCEPT ![c] =
                    /\ port[c] >= Unprivileged
                    /\ \A d \in Clients : bound[d] => port[d] # port[c]]
    /\ UNCHANGED <<ready, counter, port, asks, since>>

-----------------------------------------------------------------------------
\* What the counter cannot cope with: two shells that reset it at the same time; a
\* client that has its port for a whole round; 30000 requests before the start is over.
Together == \E c, d \in Clients : c # d /\ pc[c] = "wrap" /\ pc[d] = "wrap"
Lapped   == \E c \in Clients : /\ Holds(c) /\ port[c] >= First
                               /\ since[c] > Last - First
Flooded  == ~ready /\ Value >= First
Spoils   == Together \/ Lapped \/ Flooded

Observe == spoilt' = (spoilt \/ Spoils')

Next == \/ SetPort /\ Observe
        \/ \E c \in Clients : /\ \/ Ask(c) \/ Incr(c) \/ Wrap(c) \/ Leave(c)
                                 \/ Join(c) \/ Forward(c)
                              /\ Observe

Spec == Init /\ [][Next]_vars

-----------------------------------------------------------------------------
\* Once the relay has started, every port that is given out is one of the range, whoever
\* resets the counter, late, twice or not at all (shell.py:37-41).
PortInRange ==
    [][ready => \A c \in Clients : Holds(c)' /\ ~Holds(c) => port'[c] \in First..Last]_vars

\* The local port of a client leads to its own board: nobody else on the machine has it,
\* and the shell's ssh has got the client's port on the relay (shell.py:168-169,
\* vlab.py:189); unless the counter could not cope, or the port was asked for before
\* setupusers.py was done, and a user may not forward it.
OwnBoard ==
    \A c \in Clients :
        pc[c] = "open" =>
            /\ \A d \in Clients \ {c} : Local[d] = Local[c] => ~Joined(d)
            /\ ~spoilt /\ port[c] >= Unprivileged => bound[c]
====
