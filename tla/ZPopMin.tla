---- MODULE ZPopMin ----
(***************************************************************************)
(* The optimistic transaction with which VLAB pops a board from a sorted   *)
(* set (_zpopmin in vlabcommon/vlabredis.py):                              *)
(*                                                                         *)
(*     WATCH zset; ZRANGE zset 0 0; MULTI; ZREM zset element; EXEC         *)
(*                                                                         *)
(* tried again for as long as EXEC reports that the set was modified after *)
(* the WATCH.  Each Redis command is one step.  redis-py keeps MULTI and   *)
(* ZREM in the pipeline until execute(), which sends the whole transaction *)
(* at once; so the commands a client issues are WATCH, ZRANGE and the      *)
(* transaction.  Other processes write the set with ZADD and ZREM at any   *)
(* time, and a client may be killed between two commands.                  *)
(***************************************************************************)
EXTENDS SortedSet

CONSTANTS Clients,     \* connections to the Redis server that pop boards
          MaxWrites    \* bound on the writes of other processes

ASSUME ZPopMinAssumption == MaxWrites \in Nat

VARIABLES zset,     \* the sorted set, shared by all
          pc,       \* what each client does next
          element,  \* the local variable "element" of each client
          dirty,    \* Redis's mark on a connection: a watched key was modified
          popped,   \* what the last _zpopmin of each client returned
          writes    \* writes other processes have made

vars == <<zset, pc, element, dirty, popped, writes>>

PC == {"idle", "watch", "range", "exec"}

\* The connections that have WATCHed the set and not yet ended their transaction.
Watching == {c \in Clients : pc[c] \in {"range", "exec"}}

TypeOK == /\ zset \in Pools
          /\ pc \in [Clients -> PC]
          /\ element \in [Clients -> Members \cup {None}]
          /\ dirty \in [Clients -> BOOLEAN]
          /\ popped \in [Clients -> Members \cup {None}]
          /\ writes \in 0..MaxWrites

Init == /\ zset \in Pools
        /\ pc = [c \in Clients |-> "idle"]
        /\ element = [c \in Clients |-> None]
        /\ dirty = [c \in Clients |-> FALSE]
        /\ popped = [c \in Clients |-> None]
        /\ writes = 0

\* What the server does to the connections when the set becomes z: every one
\* that watches it is marked, but only if z really differs.
Touch(z) == /\ zset' = z
            /\ dirty' = [c \in Clients |->
                           dirty[c] \/ (c \in Watching /\ z # zset)]

\* _zpopmin is called.
Call(c) == /\ pc[c] = "idle"
           /\ pc' = [pc EXCEPT ![c] = "watch"]
           /\ popped' = [popped EXCEPT ![c] = None]
           /\ UNCHANGED <<zset, element, dirty, writes>>

\* A slip: the connection keeps the mark of its last transaction.
StaleWatch(c) == /\ pc[c] = "watch"
                 /\ pc' = [pc EXCEPT ![c] = "range"]
                 /\ UNCHANGED <<zset, element, dirty, popped, writes>>

\* pipe.watch(zset)
Watch(c) == /\ pc[c] = "watch"
            /\ pc' = [pc EXCEPT ![c] = "range"]
            /\ dirty' = [dirty EXCEPT ![c] = FALSE]
            /\ UNCHANGED <<zset, element, popped, writes>>

\* A slip: the reply with its score is taken for the board.
ScoredRange(c) == /\ pc[c] = "range"
                  /\ pc' = [pc EXCEPT ![c] = "exec"]
                  /\ \/ /\ DOMAIN zset = {}
                        /\ element' = [element EXCEPT ![c] = None]
                     \/ \E m \in Members :
                           /\ IsFirst(zset, m)
                           /\ element' = [element EXCEPT ![c] = <<m, zset[m]>>]
                  /\ UNCHANGED <<zset, dirty, popped, writes>>

\* A slip: the last of the set is read, the board that was used last.
LastRange(c) == /\ pc[c] = "range"
                /\ pc' = [pc EXCEPT ![c] = "exec"]
                /\ \/ /\ DOMAIN zset = {}
                      /\ element' = [element EXCEPT ![c] = None]
                   \/ \E m \in DOMAIN zset :
                         /\ \A n \in DOMAIN zset : zset[n] =< zset[m]
                         /\ element' = [element EXCEPT ![c] = m]
                /\ UNCHANGED <<zset, dirty, popped, writes>>

\* elements = pipe.zrange(zset, 0, 0)
Range(c) == /\ pc[c] = "range"
            /\ pc' = [pc EXCEPT ![c] = "exec"]
            /\ \/ /\ DOMAIN zset = {}
                  /\ element' = [element EXCEPT ![c] = None]
               \/ \E m \in Members : /\ IsFirst(zset, m)
                                     /\ element' = [element EXCEPT ![c] = m]
            /\ UNCHANGED <<zset, dirty, popped, writes>>

\* A slip: EXEC sent without looking at what WATCH found.
BlindCommit(c) == /\ pc[c] = "exec"
                  /\ pc' = [pc EXCEPT ![c] = "idle"]
                  /\ popped' = [popped EXCEPT ![c] = element[c]]
                  /\ Touch(Without(zset, element[c]))
                  /\ UNCHANGED <<element, writes>>

\* pipe.execute() on an undisturbed set: the ZREM is done and element returned.
\* With no element the ZREM removes nothing, where the client sends it at all.
Commit(c) == /\ pc[c] = "exec"
             /\ ~dirty[c]
             /\ pc' = [pc EXCEPT ![c] = "idle"]
             /\ popped' = [popped EXCEPT ![c] = element[c]]
             /\ Touch(Without(zset, element[c]))
             /\ UNCHANGED <<element, writes>>

\* pipe.execute() raises WatchError: the transaction is dropped and retried.
Retry(c) == /\ pc[c] = "exec"
            /\ dirty[c]
            /\ pc' = [pc EXCEPT ![c] = "watch"]
            /\ UNCHANGED <<zset, element, dirty, popped, writes>>

\* With no element a client library may refuse to encode None and raise DataError
\* instead of sending the transaction (tests/unit/test_vlabredis.py:161-167).
Refuse(c) == /\ pc[c] = "exec"
             /\ element[c] = None
             /\ pc' = [pc EXCEPT ![c] = "idle"]
             /\ UNCHANGED <<zset, element, dirty, popped, writes>>

\* The relay shell is killed between two commands.
Kill(c) == /\ pc[c] # "idle"
           /\ pc' = [pc EXCEPT ![c] = "idle"]
           /\ UNCHANGED <<zset, element, dirty, popped, writes>>

\* ZADD by unlock_board and end_session of another process.
ZAdd(m, s) == /\ writes < MaxWrites
              /\ writes' = writes + 1
              /\ Touch(With(zset, m, s))
              /\ UNCHANGED <<pc, element, popped>>

\* ZREM by lock_board, start_session and remove_board of another process.
ZRem(m) == /\ writes < MaxWrites
           /\ writes' = writes + 1
           /\ Touch(Without(zset, m))
           /\ UNCHANGED <<pc, element, popped>>

Step(c) == Watch(c) \/ Range(c) \/ Commit(c) \/ Retry(c) \/ Refuse(c)

Next == \/ \E c \in Clients : Call(c) \/ Step(c) \/ Kill(c)
        \/ \E m \in Members, s \in Scores : ZAdd(m, s)
        \/ \E m \in Members : ZRem(m)

\* A client that runs goes on running: nothing blocks in _zpopmin.
Spec == Init /\ [][Next]_vars /\ \A c \in Clients : WF_vars(Step(c))

-----------------------------------------------------------------------------
\* The pool this mechanism shows its callers.
Atomic == INSTANCE AtomicPool WITH pool   <- zset,
                                   asked  <- {c \in Clients : pc[c] # "idle"},
                                   answer <- popped

\* A call of _zpopmin is one indivisible step for its callers, although the set
\* may change between its ZRANGE and its ZREM (vlabredis.py:148-166).
AtomicSpec == Atomic!PoolSpec

\* The argument for it: as long as the server has not marked the connection,
\* what ZRANGE answered is still the head of the set when EXEC arrives.
ReadStillFirst ==
    \A c \in Clients :
        pc[c] = "exec" /\ ~dirty[c] =>
            \/ element[c] = None /\ DOMAIN zset = {}
            \/ IsFirst(zset, element[c])

\* No board is handed out twice: a board that some call returns was in the set
\* until that very step and is not in it after the step, so that no other call
\* can return it until it is put back.
HandedOutOnce ==
    [][\A c \in Clients :
          popped'[c] \notin {popped[c], None} =>
              popped'[c] \in DOMAIN zset \ DOMAIN zset']_vars

\* The retry loop ends: once the other processes stop writing the set, every
\* call returns, although calls make each other retry.
CallReturns == \A c \in Clients : pc[c] = "watch" ~> pc[c] = "idle"
====
