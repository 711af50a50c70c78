---- MODULE Shell ----
(***************************************************************************)
(* relay/shell.py: the program that serves one connection of a user.  It   *)
(* finds a board, locks it and starts a session on it, restarts the        *)
(* board's container, opens a connection to it, keeps the session alive    *)
(* while the connection lasts, and gives the board back.                   *)
(*                                                                         *)
(* A shell is a slot for such a process: it is idle, or runs one           *)
(* connection of its user at the program point pc.                         *)
(***************************************************************************)
EXTENDS VlabStore

CONSTANTS Shells,       \* connections that can be open at the same time
          UserOf,       \* the user each of them belongs to
          Overlords,    \* the users who may request a board by its serial
          Droppable,    \* bound: the connections that may drop
          Horizon       \* bound: no connection is opened or drops after this time

ASSUME ShellAssumption == /\ Shells \subseteq Procs
                          /\ UserOf \in [Shells -> Users]
                          /\ Overlords \subseteq Users
                          /\ Droppable \subseteq Shells
                          /\ Horizon \in Nat

VARIABLES pc,         \* the Redis command each shell issues next
          requested,  \* requested_serial
          look,       \* the board whose holder is looked up
          todo,       \* boards of the class whose holder is still to be looked up
          board,      \* the board taken, Nil before
          start,      \* session_start_time
          locked,     \* the flag "locked" of the main loop
          conn        \* the ssh connection to the board's container is open

localVars == <<pc, requested, look, todo, board, start, locked>>
shellVars == <<localVars, conn>>

Acquiring == {"locking", "session", "lock", "claim", "popAvailable",
              "popUnlocked", "giveUp"}
Serving   == {"restart", "open", "expTime", "expUser", "pingTime", "pingUser", "wait"}
Leaving   == {"relTime", "relUser", "endTime", "endUser"}

ShellTypeOK ==
    /\ pc \in [Shells -> {"idle"} \cup Acquiring \cup Serving \cup Leaving]
    /\ requested \in [Shells -> Boards \cup {Nil}]
    /\ look \in [Shells -> Boards \cup {Nil}]
    /\ todo \in [Shells -> SUBSET Boards]
    /\ board \in [Shells -> Boards \cup {Nil}]
    /\ start \in [Shells -> Nat]
    /\ locked \in [Shells -> BOOLEAN]
    /\ conn \in [Shells -> BOOLEAN]
    /\ \A s \in Shells :
          /\ pc[s] \in {"session", "lock"} => look[s] # Nil
          /\ pc[s] = "claim" => requested[s] # Nil
          /\ pc[s] \in Serving \cup Leaving => board[s] # Nil

ShellInit ==
    /\ pc = [s \in Shells |-> "idle"]
    /\ requested = [s \in Shells |-> Nil]
    /\ look = [s \in Shells |-> Nil]
    /\ todo = [s \in Shells |-> {}]
    /\ board = [s \in Shells |-> Nil]
    /\ start = [s \in Shells |-> 0]
    /\ locked = [s \in Shells |-> FALSE]
    /\ conn = [s \in Shells |-> FALSE]

-----------------------------------------------------------------------------
\* s has nothing left to write and is at point l.
At(s, l) == pc[s] = l /\ Ready(s)

Goto(s, l) == pc' = [pc EXCEPT ![s] = l]

\* A step that only moves s on.
Move(s, l) == /\ Goto(s, l)
              /\ UNCHANGED <<requested, look, todo, board, start, locked, conn>>

\* The process of s ends once it has made the writes in seq.
End(s, seq) ==
           /\ Goto(s, "idle")
           /\ requested' = [requested EXCEPT ![s] = Nil]
           /\ look' = [look EXCEPT ![s] = Nil]
           /\ todo' = [todo EXCEPT ![s] = {}]
           /\ board' = [board EXCEPT ![s] = Nil]
           /\ start' = [start EXCEPT ![s] = 0]
           /\ locked' = [locked EXCEPT ![s] = FALSE]
           /\ conn' = [conn EXCEPT ![s] = FALSE]
           /\ Run(s, seq)

\* s has found board b: it reads the clock and calls start_session.
Take(s, b) == /\ board' = [board EXCEPT ![s] = b]
              /\ start' = [start EXCEPT ![s] = now]
              /\ Run(s, start_session(b, UserOf[s], now))
              /\ Goto(s, "restart")
              /\ look' = [look EXCEPT ![s] = Nil]
              /\ todo' = [todo EXCEPT ![s] = {}]
              /\ UNCHANGED <<requested, locked, conn>>

\* s looks at board b next.
Look(s, b, rest) == /\ look' = [look EXCEPT ![s] = b]
                    /\ todo' = [todo EXCEPT ![s] = rest]
                    /\ Goto(s, "session")
                    /\ UNCHANGED <<requested, board, start, locked, conn>>

\* A slip: anybody's lock or session will do.
Anyones(s, k, b) == db[k][b] # Nil

Mine(s, k, b) == db[k][b] = UserOf[s]

-----------------------------------------------------------------------------
\* Acquiring a board.

\* The user connects, the arguments and rights are checked, and the class is
\* marked as being locked by a plain SET.
Connect(s) == /\ At(s, "idle")
              /\ now =< Horizon
              /\ \E r \in Boards \cup {Nil} :
                    /\ r # Nil => UserOf[s] \in Overlords
                    /\ requested' = [requested EXCEPT ![s] = r]
              /\ SetLocking
              /\ Goto(s, "locking")
              /\ UNCHANGED <<db, script, now, look, todo, board, start, locked, conn>>

\* EXPIRE, and for a user who asked for no particular board the SMEMBERS whose
\* reply the loop goes through.
LimitLocking(s) ==
    /\ At(s, "locking")
    /\ TimeLocking
    /\ \/ requested[s] # Nil /\ Look(s, requested[s], {})
       \/ requested[s] = Nil /\ \E b \in Boards : Look(s, b, Boards \ {b})
    /\ UNCHANGED <<db, script, now>>

\* The board is in use by this user already.
LookSession(s) ==
    /\ At(s, "session")
    /\ \/ Mine(s, "sessUser", look[s]) /\ Take(s, look[s])
       \/ ~Mine(s, "sessUser", look[s]) /\ Move(s, "lock") /\ UNCHANGED script
    /\ UNCHANGED <<db, locking, now>>

\* The board is locked by this user already; otherwise on to the next board.
LookLock(s) ==
    /\ At(s, "lock")
    /\ \/ Mine(s, "lockUser", look[s]) /\ Take(s, look[s])
       \/ /\ ~Mine(s, "lockUser", look[s])
          /\ UNCHANGED script
          /\ \/ requested[s] # Nil /\ Move(s, "claim")
             \/ requested[s] = Nil /\ todo[s] = {} /\ Move(s, "popAvailable")
             \/ requested[s] = Nil /\ \E b \in todo[s] : Look(s, b, todo[s] \ {b})
    /\ UNCHANGED <<db, locking, now>>

\* ZREM of board b from a pool; the reply says whether it was there.
Removes(k, b) == /\ db[k][b] = In
                 /\ db' = [db EXCEPT ![k][b] = Nil]

\* A requested board is taken if it can be removed from the unlocked pool.
Claim(s) ==
    /\ At(s, "claim")
    /\ \/ Removes("unlocked", requested[s]) /\ Take(s, requested[s])
       \/ /\ db["unlocked"][requested[s]] = Nil
          /\ Move(s, "giveUp")
          /\ UNCHANGED <<db, script>>
    /\ UNCHANGED <<locking, now>>

\* allocate_available_board_of_class, allocate_unlocked_board_of_class.  On an
\* empty pool the call returns None, or the shell dies of a DataError (Refuse
\* in ZPopMin.tla).
Pop(s, k, l) ==
    \/ \E b \in Boards : Removes(k, b) /\ Take(s, b)
    \/ /\ \A b \in Boards : db[k][b] = Nil
       /\ \/ Move(s, l) /\ UNCHANGED script
          \/ End(s, <<>>)
       /\ UNCHANGED db

PopAvailable(s) == /\ At(s, "popAvailable")
                   /\ Pop(s, "available", "popUnlocked")
                   /\ UNCHANGED <<locking, now>>

PopUnlocked(s) == /\ At(s, "popUnlocked")
                  /\ Pop(s, "unlocked", "giveUp")
                  /\ UNCHANGED <<locking, now>>

\* No board: the mark is removed and the user told to try again.
GiveUp(s) == /\ At(s, "giveUp")
             /\ DeleteLocking
             /\ End(s, <<>>)
             /\ UNCHANGED <<db, now>>

-----------------------------------------------------------------------------
\* Serving the user.

\* The restart of a board's container ends the connections to it, if the
\* host can be reached at all: the result of the ssh command is not looked at.
RestartContainer(b) ==
    \/ conn' = [s \in Shells |-> conn[s] /\ board[s] # b]
    \/ UNCHANGED conn

\* The board's details are read, and its container restarted.
Restart(s) == /\ At(s, "restart")
              /\ RestartContainer(board[s])
              /\ Goto(s, "open")
              /\ UNCHANGED <<storeVars, requested, look, todo, board, start, locked>>

\* A slip: the lock is given up one unit early.
LoopHeadEarly(s, l) == IF l /\ now - start[s] >= MaxLockTime THEN "expTime" ELSE "pingTime"

\* The head of the main loop: is the lock older than it may be?
LoopHead(s, l) == IF l /\ now - start[s] > MaxLockTime THEN "expTime" ELSE "pingTime"

\* The details are read again, the connection to the container is opened, and
\* the loop entered.
Open(s) == /\ At(s, "open")
           /\ conn' = [conn EXCEPT ![s] = TRUE]
           /\ locked' = [locked EXCEPT ![s] = TRUE]
           /\ Goto(s, LoopHead(s, TRUE))
           /\ UNCHANGED <<storeVars, requested, look, todo, board, start>>

\* The two reads of the ..._if_user_time functions.
CheckTime(s, l, k, yes, no) ==
    /\ At(s, l)
    /\ IF db[k][board[s]] = start[s] THEN Move(s, yes) ELSE Move(s, no)
    /\ UNCHANGED storeVars

CheckUser(s, l, k, seq, yes, no) ==
    /\ At(s, l)
    /\ \/ Mine(s, k, board[s]) /\ Run(s, seq) /\ Goto(s, yes)
       \/ ~Mine(s, k, board[s]) /\ UNCHANGED script /\ Goto(s, no)
    /\ UNCHANGED <<db, locking, now, requested, look, todo, board, start, conn>>

\* unlock_board_if_user_time in the loop.
ExpireTime(s) == CheckTime(s, "expTime", "lockTime", "expUser", "pingTime")
ExpireUser(s) ==
    /\ CheckUser(s, "expUser", "lockUser", unlock_board(board[s]),
                 "pingTime", "pingTime")
    /\ locked' = [locked EXCEPT ![s] = ~Mine(s, "lockUser", board[s])]

\* The loop is left: the connection is ended, if it is still open.
Leave(s) == /\ Goto(s, "relTime")
            /\ conn' = [conn EXCEPT ![s] = FALSE]
            /\ UNCHANGED <<requested, look, todo, board, start, locked>>

\* A slip: the result of ping_session_if_user_time is not looked at.
PingTimeDeaf(s) == /\ At(s, "pingTime")
                   /\ IF db["sessStart"][board[s]] = start[s]
                      THEN Move(s, "pingUser")
                      ELSE Move(s, "wait")
                   /\ UNCHANGED storeVars

\* ping_session_if_user_time: the session must still be ours.
PingTime(s) == /\ At(s, "pingTime")
               /\ IF db["sessStart"][board[s]] = start[s]
                  THEN Move(s, "pingUser")
                  ELSE Leave(s)
               /\ UNCHANGED storeVars

PingUser(s) ==
    /\ At(s, "pingUser")
    /\ \/ /\ Mine(s, "sessUser", board[s])
          /\ Run(s, ping_session(board[s], now))
          /\ Move(s, "wait")
       \/ ~Mine(s, "sessUser", board[s]) /\ Leave(s) /\ UNCHANGED script
    /\ UNCHANGED <<db, locking, now>>

\* proc.wait(10): the time is up, or the connection has been ended by a restart
\* of the container.
Wait(s) == /\ At(s, "wait")
           /\ IF conn[s] THEN Move(s, LoopHead(s, locked[s])) ELSE Leave(s)
           /\ UNCHANGED storeVars

\* The user closes the connection; the shell notices in proc.wait.
Disconnect(s) == /\ At(s, "wait")
                 /\ Leave(s)
                 /\ UNCHANGED storeVars

-----------------------------------------------------------------------------
\* Giving the board back: unlock_board_if_user_time, end_session_if_user_time.
ReleaseTime(s) == CheckTime(s, "relTime", "lockTime", "relUser", "endTime")
ReleaseUser(s) ==
    /\ CheckUser(s, "relUser", "lockUser", unlock_board(board[s]),
                 "endTime", "endTime")
    /\ UNCHANGED locked

EndTime(s) ==
    /\ At(s, "endTime")
    /\ \/ db["sessStart"][board[s]] = start[s] /\ Move(s, "endUser") /\ UNCHANGED script
       \/ db["sessStart"][board[s]] # start[s] /\ End(s, <<>>)
    /\ UNCHANGED <<db, locking, now>>

EndUser(s) ==
    /\ At(s, "endUser")
    /\ IF Mine(s, "sessUser", board[s])
       THEN End(s, end_session(board[s]))
       ELSE End(s, <<>>)
    /\ UNCHANGED <<db, locking, now>>

\* The user's connection to the relay drops: the shell is killed wherever it
\* is, and what it was going to write is never written.
Kill(s) == /\ s \in Droppable
           /\ pc[s] # "idle" \/ ~Ready(s)
           /\ now =< Horizon
           /\ End(s, <<>>)
           /\ UNCHANGED <<db, locking, now>>

\* The steps a running shell takes by itself.
ShellStep(s) ==
    \/ LimitLocking(s) \/ LookSession(s) \/ LookLock(s) \/ Claim(s)
    \/ PopAvailable(s) \/ PopUnlocked(s) \/ GiveUp(s)
    \/ Restart(s) \/ Open(s)
    \/ ExpireTime(s) \/ ExpireUser(s) \/ PingTime(s) \/ PingUser(s) \/ Wait(s)
    \/ ReleaseTime(s) \/ ReleaseUser(s) \/ EndTime(s) \/ EndUser(s)
    \/ Exec(s) /\ UNCHANGED shellVars
====
