---- MODULE UsageLog ----
(***************************************************************************)
(* The usage log: the lines the shells of the relay append to access.log,  *)
(* each by itself and some time after the Redis command it tells of, and   *)
(* the statistics web/logparser.py makes of them.                          *)
(***************************************************************************)
EXTENDS Relay

CONSTANT MaxLog   \* bound: no connection is opened when the log has that many lines

ASSUME LogAssumption == MaxLog \in Nat

VARIABLES log,      \* the lines of access.log
          line,     \* the line each shell is about to append, or NoLine
          counted,  \* the shell has told of its lock
          began,    \* history: when its line START was written
          ended     \* history: the sessions whose end was told, from start to end

logVars  == <<log, line, counted, began, ended>>
usageVars == <<vars, logVars>>

Events == {"START", "LOCK", "RELEASE", "END", "NOFREEBOARDS"}

Line(e, u, b) == [event |-> e, user |-> u, board |-> b]
Stamped(l, t) == [event |-> l.event, user |-> l.user, board |-> l.board, time |-> t]
NoLine == Line("NONE", Nil, Nil)
Lines  == [event : Events, user : Users, board : Boards \cup {Nil}]
Stamps == [event : Events, user : Users, board : Boards \cup {Nil}, time : Nat]

Sessions == [user : Users, board : Boards \cup {Nil}, start : Nat \cup {Nil}, end : Nat]

LogTypeOK == /\ log \in Seq(Stamps)
             /\ line \in [Shells -> Lines \cup {NoLine}]
             /\ counted \in [Shells -> BOOLEAN]
             /\ began \in [Shells -> Nat \cup {Nil}]
             /\ ended \in Seq(Sessions)

UsageTypeOK == TypeOK /\ LogTypeOK

LogInit == /\ log = <<>>
           /\ line = [s \in Shells |-> NoLine]
           /\ counted = [s \in Shells |-> FALSE]
           /\ began = [s \in Shells |-> Nil]
           /\ ended = <<>>

-----------------------------------------------------------------------------
\* What shell.py logs (shell.py:131, 136, 138, 200, 226, 228).

\* s has no line to append, so it may go on with its program.
Written(s) == line[s] = NoLine

\* The slot is in use: its program still has something to do.
Alive(s) == pc[s] # "idle" \/ ~Ready(s) \/ ~Written(s)

\* The line s appends after its next Redis command.  A command that is the last
\* of start_session, unlock_board or end_session is known by its write.
Says(s) ==
    LET w == Head(script[s])
        Last(k) == Len(script[s]) = 1 /\ pc[s] # "restart" /\ w = Put(k, w.board, In)
    IN CASE Len(script[s]) = 1 /\ pc[s] = "restart" -> Line("START", UserOf[s], w.board)
         [] Last("unlocked") -> Line("RELEASE", UserOf[s], w.board)
         [] Last("available") -> Line("END", UserOf[s], w.board)
         [] At(s, "giveUp") /\ requested[s] = Nil -> Line("NOFREEBOARDS", UserOf[s], Nil)
         [] OTHER -> NoLine

\* What a shell that is over leaves behind.
Cleared == /\ counted' = [s \in Shells |-> counted[s] /\ Alive(s)']
           /\ began' = [s \in Shells |-> IF Alive(s)' THEN began[s] ELSE Nil]

\* A step of the relay's programs by s; the board's details are read only when
\* the lock has been told of.
Command(s) == /\ Written(s)
              /\ At(s, "restart") => counted[s]
              /\ ShellRuns(s)
              /\ line' = [line EXCEPT ![s] = Says(s)]
              /\ Cleared
              /\ UNCHANGED <<log, ended>>

\* ZCARD: the number of boards left is told with the lock.
CountLock(s) == /\ Written(s)
                /\ At(s, "restart")
                /\ ~counted[s]
                /\ counted' = [counted EXCEPT ![s] = TRUE]
                /\ line' = [line EXCEPT ![s] = Line("LOCK", UserOf[s], board[s])]
                /\ UNCHANGED <<vars, log, began, ended>>

\* The line goes to the end of the file.
WriteLine(s) ==
    /\ ~Written(s)
    /\ UNCHANGED vars
    /\ log' = Append(log, Stamped(line[s], now))
    /\ line' = [line EXCEPT ![s] = NoLine]
    /\ counted' = [counted EXCEPT ![s] = @ /\ Alive(s)']
    /\ began' = [began EXCEPT ![s] = IF line[s].event = "START" THEN now
                                     ELSE IF Alive(s)' THEN @ ELSE Nil]
    /\ ended' = IF line[s].event = "END"
                THEN Append(ended, [user |-> UserOf[s], board |-> line[s].board,
                                    start |-> began[s], end |-> now])
                ELSE ended

\* The user connects or closes the connection.
Come(s) == /\ Written(s)
           /\ \/ Connect(s) /\ Len(log) < MaxLog
              \/ Disconnect(s)
           /\ UNCHANGED <<checkVars, testVars, logVars>>

\* The shell is killed.
Die(s) == /\ Kill(s)
          /\ line' = [line EXCEPT ![s] = NoLine]
          /\ Cleared
          /\ UNCHANGED <<checkVars, testVars, log, ended>>

\* It is killed after its last command, before its last line.
DieUntold(s) == /\ s \in Droppable
                /\ now =< Horizon
                /\ pc[s] = "idle" /\ Ready(s) /\ ~Written(s)
                /\ UNCHANGED <<vars, log, ended>>
                /\ line' = [line EXCEPT ![s] = NoLine]
                /\ Cleared

Elsewhere == /\ \/ Tick
                \/ Expiry
                \/ \E k \in Checkers : CheckRuns(k) \/ CronActs(k)
                \/ \E t \in Testers : TestRuns(t) \/ AdminActs(t)
             /\ UNCHANGED logVars

UsageInit == Init /\ LogInit

UsageNext == \/ /\ \/ Elsewhere
                   \/ \E s \in Shells : Command(s) \/ Come(s) \/ Die(s)
                /\ Observe
             \/ \E s \in Shells : CountLock(s) \/ WriteLine(s) \/ DieUntold(s)

UsageSpec == UsageInit /\ [][UsageNext]_usageVars

-----------------------------------------------------------------------------
\* _do_parse of web/logparser.py, a fold over the lines: the sessions that are
\* open (by user, and by class, of which there is one here), those that are
\* completed, and the denials.
NoStats == [open |-> [u \in Users |-> Nil], completed |-> <<>>, locks |-> 0, denials |-> 0]

Completed(st, l) ==
    [st EXCEPT !.open[l.user] = Nil,
               !.completed = Append(@, [user |-> l.user, board |-> l.board,
                                        start |-> st.open[l.user], end |-> l.time])]

\* A slip: a session that is open stays so when the next one starts.
ParseOpen(st, l) == IF l.event = "START" /\ st.open[l.user] = Nil
                    THEN [st EXCEPT !.open[l.user] = l.time]
                    ELSE IF l.event = "END" THEN Completed(st, l) ELSE st

ParseLine(st, l) ==
    CASE l.event = "START" -> [st EXCEPT !.open[l.user] = l.time]
      [] l.event = "LOCK" -> [st EXCEPT !.locks = @ + 1]
      [] l.event = "END" /\ st.open[l.user] # Nil -> Completed(st, l)
      [] l.event = "NOFREEBOARDS" -> [st EXCEPT !.denials = @ + 1]
      [] OTHER -> st

Parse(lines) ==
    LET st[n \in 0..Len(lines)] ==
            IF n = 0 THEN NoStats ELSE ParseLine(st[n - 1], lines[n])
    IN  st[Len(lines)]

-----------------------------------------------------------------------------
OneEach == \A s, t \in Shells : UserOf[s] = UserOf[t] => s = t

\* The sessions logparser.py reports are those that took place, with their user,
\* board, start and end, whatever shells lost their board or were killed, and in
\* whatever order the shells' lines came (logparser.py:119-159), provided that
\* no user has two connections to the class at a time.
SessionsReported == OneEach => Parse(log).completed = ended
====
