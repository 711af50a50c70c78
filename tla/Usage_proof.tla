---- MODULE Usage_proof ----
(***************************************************************************)
(* The usage log: what logparser.py makes of the lines of the shells.  The *)
(* log does not disturb the relay; what a parse returns is computed line   *)
(* by line, by induction over the log; and between two lines the parse and *)
(* the shells agree on the sessions that are open.                         *)
(***************************************************************************)
EXTENDS UsageLog, Lease_proof, WellFoundedInduction

-----------------------------------------------------------------------------
(* The relay under the log *)

LEMMA UsageSteps == ASSUME UsageNext PROVE [Next]_vars
<1>1. ASSUME Elsewhere, Observe PROVE Next
  BY <1>1 DEF Elsewhere, Next
<1>2. ASSUME NEW s \in Shells, Command(s) \/ Come(s) \/ Die(s), Observe PROVE Next
  BY <1>2 DEF Command, Come, Die, UserActs, Next
<1>3. ASSUME NEW s \in Shells, CountLock(s) \/ WriteLine(s) \/ DieUntold(s) PROVE UNCHANGED vars
  BY <1>3 DEF CountLock, WriteLine, DieUntold
<1> QED
  BY <1>1, <1>2, <1>3 DEF UsageNext

-----------------------------------------------------------------------------
(* Types of the log *)

LEMMA SaysType ==
    ASSUME TypeOK, NEW s \in Shells
    PROVE  Says(s) \in Lines \cup {NoLine}
<1>1. s \in Procs /\ UserOf[s] \in Users /\ script[s] \in Seq(Writes)
  BY ShellAssumption DEF TypeOK, StoreTypeOK
<1>2. ASSUME Len(script[s]) = 1 PROVE Head(script[s]).board \in Boards
  BY <1>1, <1>2 DEF Writes
<1>3. \A b \in Boards : \A e \in Events : Line(e, UserOf[s], b) \in Lines
  BY <1>1 DEF Line, Lines
<1>4. Line("NOFREEBOARDS", UserOf[s], Nil) \in Lines
  BY <1>1 DEF Line, Lines, Events
<1>5. {"START", "RELEASE", "END"} \subseteq Events
  BY DEF Events
<1> QED
  BY <1>2, <1>3, <1>4, <1>5 DEF Says

LEMMA ClearedType ==
    ASSUME LogTypeOK, Cleared
    PROVE  counted' \in [Shells -> BOOLEAN] /\ began' \in [Shells -> Nat \cup {Nil}]
BY DEF LogTypeOK, Cleared

LEMMA WrittenType ==
    ASSUME TypeOK, LogTypeOK, NEW s \in Shells, WriteLine(s)
    PROVE  LogTypeOK'
<1>1. line[s] \in Lines /\ now \in Nat
  BY DEF WriteLine, Written, LogTypeOK, TypeOK, StoreTypeOK
<1>2. Stamped(line[s], now) \in Stamps
  BY <1>1 DEF Stamped, Lines, Stamps
<1>3. log' \in Seq(Stamps)
  BY <1>2 DEF WriteLine, LogTypeOK
<1>4. line' \in [Shells -> Lines \cup {NoLine}]
  BY DEF WriteLine, LogTypeOK
<1>5. counted' \in [Shells -> BOOLEAN]
  BY DEF WriteLine, LogTypeOK
<1>6. began' \in [Shells -> Nat \cup {Nil}]
  BY <1>1 DEF WriteLine, LogTypeOK
<1>7. ended' \in Seq(Sessions)
  <2>1. [user |-> UserOf[s], board |-> line[s].board, start |-> began[s], end |-> now]
            \in Sessions
    BY <1>1, ShellAssumption DEF LogTypeOK, Lines, Sessions
  <2> QED
    BY <2>1 DEF WriteLine, LogTypeOK
<1> QED
  BY <1>3, <1>4, <1>5, <1>6, <1>7 DEF LogTypeOK

LEMMA LogTypes ==
    ASSUME TypeOK, LogTypeOK, UsageNext
    PROVE  LogTypeOK'
<1>1. ASSUME UNCHANGED logVars PROVE LogTypeOK'
  BY <1>1 DEF logVars, LogTypeOK
<1>2. ASSUME NEW s \in Shells, Command(s) \/ Die(s) \/ DieUntold(s) PROVE LogTypeOK'
  <2>1. Cleared /\ UNCHANGED <<log, ended>>
    BY <1>2 DEF Command, Die, DieUntold
  <2>2. line' \in [Shells -> Lines \cup {NoLine}]
    BY <1>2, SaysType DEF Command, Die, DieUntold, LogTypeOK
  <2> QED
    BY <2>1, <2>2, ClearedType DEF LogTypeOK
<1>3. ASSUME NEW s \in Shells, CountLock(s) PROVE LogTypeOK'
  <2>1. Line("LOCK", UserOf[s], board[s]) \in Lines
    BY ShellAssumption DEF Line, Lines, Events, TypeOK, ShellTypeOK
  <2> QED
    BY <1>3, <2>1 DEF CountLock, LogTypeOK
<1> QED
  BY <1>1, <1>2, <1>3, WrittenType DEF UsageNext, Elsewhere, Come

LEMMA InitLogType == LogInit => LogTypeOK
BY DEF LogInit, LogTypeOK

-----------------------------------------------------------------------------
(* Induction over the log *)

\* Induction over the natural numbers, for sets: if one number were missing from
\* S there would be a least one.
LEMMA NatSet ==
    ASSUME NEW S \in SUBSET Nat, 0 \in S, \A n \in S : n + 1 \in S
    PROVE  S = Nat
<1> DEFINE T == Nat \ S
           R == {p \in Nat \X Nat : p[1] < p[2]}
<1>1. SUFFICES ASSUME T # {} PROVE FALSE
  OBVIOUS
<1>2. R = OpToRel(<, Nat)
  BY Zenon DEF OpToRel
<1>3. IsWellFoundedOn(R, Nat)
  <2> HIDE DEF R
  <2> QED
    BY <1>2, NatLessThanWellFounded, Zenon
<1>4. \E x \in T : \A y \in T : <<y, x>> \notin R
  <2> HIDE DEF T, R
  <2>1. T \subseteq Nat
    BY DEF T
  <2> QED
    BY <1>1, <1>3, <2>1, WFMin
<1>5. PICK x \in T : \A y \in T : <<y, x>> \notin R
  BY <1>4
<1>6. x \in Nat /\ x # 0 /\ x - 1 \in Nat /\ x - 1 < x /\ x - 1 + 1 = x
  OBVIOUS
<1>7. x - 1 \in S
  BY <1>5, <1>6
<1> QED
  BY <1>5, <1>6, <1>7

\* f[n] is what has been made of the first n lines, for n up to m.
IsParse(f, lines, m) ==
    f = [n \in 0..m |-> IF n = 0 THEN NoStats ELSE ParseLine(f[n - 1], lines[n])]

LEMMA ParseExists == ASSUME NEW lines, NEW m \in Nat PROVE \E f : IsParse(f, lines, m)
<1> DEFINE S == {k \in Nat : \E f : IsParse(f, lines, k)}
<1>1. 0 \in S
  <2> DEFINE f == [n \in 0..0 |-> NoStats]
  <2>1. IsParse(f, lines, 0)
    BY DEF IsParse
  <2> QED
    BY <2>1
<1>2. ASSUME NEW k \in S PROVE k + 1 \in S
  <2>1. PICK f : IsParse(f, lines, k)
    OBVIOUS
  <2> DEFINE g == [n \in 0..(k + 1) |->
                       IF n = k + 1 THEN ParseLine(f[k], lines[k + 1]) ELSE f[n]]
  <2>2. ASSUME NEW n \in 0..(k + 1)
        PROVE  g[n] = IF n = 0 THEN NoStats ELSE ParseLine(g[n - 1], lines[n])
    <3>1. CASE n = k + 1
      BY <3>1
    <3>2. CASE n # k + 1
      <4>1. n \in 0..k /\ (n # 0 => n - 1 \in 0..k)
        BY <3>2
      <4> QED
        BY <2>1, <4>1 DEF IsParse
    <3> QED
      BY <3>1, <3>2
  <2>3. IsParse(g, lines, k + 1)
    BY <2>2 DEF IsParse
  <2> HIDE DEF g
  <2> QED
    BY <2>3
<1>3. S = Nat
  <2> HIDE DEF S
  <2>1. S \subseteq Nat
    BY DEF S
  <2> QED
    BY <1>1, <1>2, <2>1, NatSet
<1> QED
  BY <1>3

LEMMA ParseValue ==
    ASSUME NEW lines, Len(lines) \in Nat
    PROVE  \E f : IsParse(f, lines, Len(lines)) /\ Parse(lines) = f[Len(lines)]
<1> DEFINE f == CHOOSE st : IsParse(st, lines, Len(lines))
<1>1. IsParse(f, lines, Len(lines))
  BY ParseExists, Zenon
<1>2. Parse(lines) = f[Len(lines)]
  BY Zenon DEF Parse, IsParse
<1> HIDE DEF f
<1> QED
  BY <1>1, <1>2

\* The first n lines are the same.
Agree(lines, more, n) == \A i \in 1..n : more[i] = lines[i]

LEMMA ParseSteps ==
    ASSUME NEW lines, NEW m \in Nat, NEW f, IsParse(f, lines, m)
    PROVE  /\ f[0] = NoStats
           /\ \A n \in Nat : n + 1 =< m => f[n + 1] = ParseLine(f[n], lines[n + 1])
<1>1. 0 \in 0..m
  OBVIOUS
<1>2. ASSUME NEW n \in Nat, n + 1 =< m PROVE f[n + 1] = ParseLine(f[n], lines[n + 1])
  <2>1. n + 1 \in 0..m /\ n + 1 # 0 /\ n + 1 - 1 = n
    BY <1>2
  <2> QED
    BY <2>1 DEF IsParse
<1> QED
  BY <1>1, <1>2 DEF IsParse

\* A line that comes later changes nothing of what was made of the lines before.
LEMMA ParseMore ==
    ASSUME NEW lines, NEW more, NEW k \in Nat, Agree(lines, more, k),
           NEW f, NEW g, IsParse(f, lines, k), IsParse(g, more, k + 1)
    PROVE  g[k + 1] = ParseLine(f[k], more[k + 1])
<1> DEFINE S == {n \in Nat : n =< k => g[n] = f[n]}
<1>1. /\ f[0] = NoStats /\ g[0] = NoStats
      /\ \A n \in Nat : n + 1 =< k => f[n + 1] = ParseLine(f[n], lines[n + 1])
      /\ \A n \in Nat : n + 1 =< k + 1 => g[n + 1] = ParseLine(g[n], more[n + 1])
  <2>1. /\ f[0] = NoStats
        /\ \A n \in Nat : n + 1 =< k => f[n + 1] = ParseLine(f[n], lines[n + 1])
    BY ParseSteps
  <2> DEFINE m == k + 1
  <2>2. m \in Nat /\ IsParse(g, more, m)
    OBVIOUS
  <2> HIDE DEF m
  <2>3. /\ g[0] = NoStats
        /\ \A n \in Nat : n + 1 =< m => g[n + 1] = ParseLine(g[n], more[n + 1])
    BY <2>2, ParseSteps
  <2> QED
    BY <2>1, <2>3 DEF m
<1>2. 0 \in S
  BY <1>1
<1>3. ASSUME NEW n \in S PROVE n + 1 \in S
  <2> SUFFICES ASSUME n + 1 =< k PROVE g[n + 1] = f[n + 1]
    OBVIOUS
  <2>1. n \in Nat /\ n =< k /\ n + 1 =< k + 1 /\ n + 1 \in 1..k
    OBVIOUS
  <2>2. more[n + 1] = lines[n + 1]
    BY <2>1 DEF Agree
  <2> QED
    BY <1>1, <2>1, <2>2
<1>4. S = Nat
  <2> HIDE DEF S
  <2>1. S \subseteq Nat
    BY DEF S
  <2> QED
    BY <1>2, <1>3, <2>1, NatSet
<1>5. g[k] = f[k]
  BY <1>4
<1> QED
  BY <1>1, <1>5

LEMMA ParseEmpty == Parse(<<>>) = NoStats
<1>1. PICK f : IsParse(f, <<>>, Len(<<>>)) /\ Parse(<<>>) = f[Len(<<>>)]
  BY ParseValue
<1>2. Len(<<>>) = 0 /\ 0 \in 0..0
  OBVIOUS
<1> QED
  BY <1>1, <1>2 DEF IsParse

\* A parse goes line by line.
LEMMA ParseAppend ==
    ASSUME NEW T, NEW lines \in Seq(T), NEW l \in T
    PROVE  Parse(Append(lines, l)) = ParseLine(Parse(lines), l)
<1> DEFINE k == Len(lines)
           more == Append(lines, l)
<1>1. k \in Nat /\ Len(more) = k + 1 /\ more[k + 1] = l /\ Agree(lines, more, k)
  BY DEF Agree
<1> HIDE DEF more
<1>2. PICK f : IsParse(f, lines, k) /\ Parse(lines) = f[k]
  BY <1>1, ParseValue
<1>3. PICK g : IsParse(g, more, k + 1) /\ Parse(more) = g[k + 1]
  BY <1>1, ParseValue
<1> HIDE DEF k
<1>4. g[k + 1] = ParseLine(f[k], more[k + 1])
  BY <1>1, <1>2, <1>3, ParseMore
<1> QED
  BY <1>1, <1>2, <1>3, <1>4 DEF more, k

-----------------------------------------------------------------------------
(* What is written is what is parsed *)

\* What a parse is made of.
Stats == [open : [Users -> Nat \cup {Nil}], completed : Seq(Sessions), locks : Nat, denials : Nat]

LEMMA LineParsed ==
    ASSUME NEW st \in Stats, NEW l \in Stamps
    PROVE  LET more == ParseLine(st, l)
           IN  /\ more \in Stats
               /\ \A u \in Users \ {l.user} : more.open[u] = st.open[u]
               /\ l.event = "START" => more.open[l.user] = l.time
               /\ l.event \notin {"START", "END"} => more.open = st.open
               /\ l.event # "END" => more.completed = st.completed
               /\ l.event = "END" /\ st.open[l.user] # Nil =>
                      more.completed = Append(st.completed,
                                              [user |-> l.user, board |-> l.board,
                                               start |-> st.open[l.user], end |-> l.time])
<1> USE DEF Stats
<1>1. l.user \in Users /\ l.board \in Boards \cup {Nil} /\ l.time \in Nat
  BY DEF Stamps
<1>2. CASE l.event = "START"
  <2>1. ParseLine(st, l) = [st EXCEPT !.open[l.user] = l.time]
    BY <1>2 DEF ParseLine
  <2> QED
    BY <1>1, <1>2, <2>1
<1>3. CASE l.event = "LOCK"
  <2>1. ParseLine(st, l) = [st EXCEPT !.locks = @ + 1]
    BY <1>3 DEF ParseLine
  <2> QED
    BY <1>1, <1>3, <2>1
<1>4. CASE l.event = "END" /\ st.open[l.user] # Nil
  <2> DEFINE new == [user |-> l.user, board |-> l.board, start |-> st.open[l.user], end |-> l.time]
  <2>1. ParseLine(st, l) = [st EXCEPT !.open[l.user] = Nil, !.completed = Append(@, new)]
    BY <1>4 DEF ParseLine, Completed
  <2>2. new \in Sessions
    BY <1>1 DEF Sessions
  <2> HIDE DEF new
  <2>3. Append(st.completed, new) \in Seq(Sessions)
    BY <2>2
  <2>4. /\ ParseLine(st, l).open = [st.open EXCEPT ![l.user] = Nil]
        /\ ParseLine(st, l).completed = Append(st.completed, new)
        /\ ParseLine(st, l) \in Stats
    BY <2>1, <2>3
  <2> QED
    BY <1>1, <1>4, <2>4 DEF new
<1>5. CASE l.event = "NOFREEBOARDS"
  <2>1. ParseLine(st, l) = [st EXCEPT !.denials = @ + 1]
    BY <1>5 DEF ParseLine
  <2> QED
    BY <1>1, <1>5, <2>1
<1>6. CASE l.event \notin {"START", "LOCK", "NOFREEBOARDS"} /\ ~(l.event = "END" /\ st.open[l.user] # Nil)
  <2>1. ParseLine(st, l) = st
    BY <1>6 DEF ParseLine
  <2> QED
    BY <1>6, <2>1
<1> QED
  BY <1>2, <1>3, <1>4, <1>5, <1>6

\* s has told of the start of its session, or is about to.
Begun(s) == began[s] # Nil \/ line[s].event = "START"

\* A write of end_session, after which s tells of the end of its session.
Returns(w) == w.key = "available" /\ w.val = In
Finishes(s) == \E i \in DOMAIN script[s] : Returns(script[s][i])

\* What the shell s knows of its session, the log will tell.
ShellLogged(s) ==
    /\ line[s] # NoLine => line[s].user = UserOf[s]
    /\ began[s] # Nil => Parse(log).open[UserOf[s]] = began[s]
    /\ pc[s] \in Serving \cup Leaving /\ ~Starting(s) => Begun(s)
    /\ Finishes(s) => pc[s] = "idle" /\ began[s] # Nil
    /\ line[s].event = "END" => pc[s] = "idle" /\ Ready(s) /\ began[s] # Nil

ReportInv == /\ Parse(log) \in Stats
             /\ Parse(log).completed = ended
             /\ \A s \in Shells : ShellLogged(s)

-----------------------------------------------------------------------------
(* The shells and their lines *)

LEMMA WhatReturns ==
    ASSUME NEW b, NEW u, NEW t
    PROVE  /\ \A i \in DOMAIN start_session(b, u, t) : ~Returns(start_session(b, u, t)[i])
           /\ \A i \in DOMAIN unlock_board(b) : ~Returns(unlock_board(b)[i])
           /\ \A i \in DOMAIN ping_session(b, t) : ~Returns(ping_session(b, t)[i])
<1>1. \A w \in StartWrites(b, u, t) : ~Returns(w)
  BY StoreAssumption DEF StartWrites, Returns, Put, Del
<1>2. \A i \in DOMAIN unlock_board(b) : unlock_board(b)[i].key # "available"
  BY DEF unlock_board, Put, Del
<1>3. \A i \in DOMAIN ping_session(b, t) : ping_session(b, t)[i].key # "available"
  BY DEF ping_session, Put
<1> QED
  BY <1>1, <1>2, <1>3, StartSession DEF Returns

\* s goes on, and what it writes does not return the board.
Continues(s) ==
    /\ Ready(s)
    /\ pc'[s] # "restart"
    /\ pc'[s] \in Serving \cup Leaving => pc[s] \in Serving \cup Leaving
    /\ ~Finishes(s)'

\* A step of a shell, as far as its lines are concerned.
LEMMA LoggedForms ==
    ASSUME TypeOK, NEW s \in Shells, ShellActs(s)
    PROVE  \/ Exec(s) /\ UNCHANGED shellVars
           \/ Ready(s) /\ Starting(s)' /\ ~Finishes(s)'
           \/ Continues(s)
           \/ pc[s] = "endUser" /\ Ready(s) /\ pc'[s] = "idle" /\ ~Ready(s)'
           \/ pc'[s] = "idle" /\ Ready(s)'
<1>1. pc \in [Shells -> {"idle"} \cup Acquiring \cup Serving \cup Leaving]
      /\ s \in Procs /\ script \in [Procs -> Seq(Writes)]
  BY ShellAssumption DEF TypeOK, ShellTypeOK, StoreTypeOK
<1>2. ASSUME NEW l, Goto(s, l) PROVE pc'[s] = l
  BY <1>1, <1>2 DEF Goto
<1>3. ASSUME NEW seq, Run(s, seq) PROVE script'[s] = seq
  BY <1>1, <1>3 DEF Run
<1>4. ASSUME UNCHANGED script, Ready(s) PROVE ~Finishes(s)'
  BY <1>4 DEF Ready, Finishes
<1>5. ASSUME NEW b, Take(s, b), Ready(s) PROVE Ready(s) /\ Starting(s)' /\ ~Finishes(s)'
  BY <1>2, <1>3, <1>5, WhatReturns, StartSession DEF Take, Starting, Ready, Finishes
<1>6. ASSUME End(s, <<>>) PROVE pc'[s] = "idle" /\ Ready(s)'
  BY <1>2, <1>3, <1>6 DEF End, Ready
<1>7. CASE Connect(s) \/ LimitLocking(s)
  BY <1>2, <1>4, <1>7 DEF Connect, LimitLocking, At, Look, Continues, Serving, Leaving
<1>8. CASE LookSession(s)
  BY <1>2, <1>4, <1>5, <1>8 DEF LookSession, At, Move, Continues, Serving, Leaving
<1>9. CASE LookLock(s)
  BY <1>2, <1>4, <1>5, <1>9 DEF LookLock, At, Move, Look, Continues, Serving, Leaving
<1>10. CASE Claim(s)
  BY <1>2, <1>4, <1>5, <1>10 DEF Claim, At, Move, Continues, Serving, Leaving
<1>11. CASE PopAvailable(s)
  BY <1>2, <1>4, <1>5, <1>6, <1>11 DEF PopAvailable, Pop, At, Move, Continues, Serving, Leaving
<1>12. CASE PopUnlocked(s)
  BY <1>2, <1>4, <1>5, <1>6, <1>12 DEF PopUnlocked, Pop, At, Move, Continues, Serving, Leaving
<1>13. CASE GiveUp(s) \/ Kill(s)
  BY <1>6, <1>13 DEF GiveUp, Kill
<1>14. \A l : LoopHead(s, l) \in {"expTime", "pingTime"}
  BY DEF LoopHead
<1>15. CASE Restart(s) \/ Open(s) \/ Wait(s) \/ Disconnect(s)
  BY <1>2, <1>4, <1>14, <1>15
     DEF Restart, Open, Wait, Disconnect, At, Move, Leave, storeVars, Continues, Serving, Leaving
<1>16. CASE ExpireTime(s) \/ ReleaseTime(s)
  BY <1>2, <1>4, <1>16
     DEF ExpireTime, ReleaseTime, CheckTime, At, Move, storeVars, Continues, Serving, Leaving
<1>17. CASE ExpireUser(s) \/ ReleaseUser(s)
  BY <1>2, <1>3, <1>4, <1>17, WhatReturns
     DEF ExpireUser, ReleaseUser, CheckUser, At, Finishes, Continues, Serving, Leaving
<1>18. CASE PingTime(s) \/ PingUser(s)
  BY <1>2, <1>3, <1>4, <1>18, WhatReturns
     DEF PingTime, PingUser, At, Move, Leave, storeVars, Finishes, Continues, Serving, Leaving
<1>19. CASE EndTime(s)
  BY <1>2, <1>4, <1>6, <1>19 DEF EndTime, At, Move, Continues, Serving, Leaving
<1>20. CASE EndUser(s)
  <2>1. end_session(board[s]) # <<>>
    BY DEF end_session
  <2> QED
    BY <1>2, <1>3, <1>6, <1>20, <2>1 DEF EndUser, At, End, Ready
<1> QED
  BY <1>7, <1>8, <1>9, <1>10, <1>11, <1>12, <1>13, <1>15, <1>16, <1>17, <1>18, <1>19, <1>20
     DEF ShellActs, ShellStep

\* The line that goes with a command.
LEMMA WhatSays ==
    ASSUME TypeOK, NEW s \in Shells
    PROVE  /\ Says(s) # NoLine => Says(s).user = UserOf[s]
           /\ Says(s).event = "END" => Len(script[s]) = 1 /\ Finishes(s)
           /\ pc[s] = "restart" /\ Len(script[s]) = 1 => Says(s).event = "START"
<1>1. s \in Procs /\ script[s] \in Seq(Writes)
  BY ShellAssumption DEF TypeOK, StoreTypeOK
<1> DEFINE w == Head(script[s])
           Last(k) == Len(script[s]) = 1 /\ pc[s] # "restart" /\ w = Put(k, w.board, In)
<1>2. CASE Len(script[s]) = 1 /\ pc[s] = "restart"
  <2>1. Says(s) = Line("START", UserOf[s], w.board)
    BY <1>2 DEF Says, At, Ready
  <2> QED
    BY <2>1 DEF Line
<1>3. CASE Last("unlocked")
  <2>1. ~Last("available")
    BY <1>3 DEF Put
  <2>2. Says(s) = Line("RELEASE", UserOf[s], w.board)
    BY <1>3, <2>1 DEF Says, At, Ready
  <2> QED
    BY <1>3, <2>2 DEF Line
<1>4. CASE Last("available")
  <2>1. ~Last("unlocked")
    BY <1>4 DEF Put
  <2>2. Says(s) = Line("END", UserOf[s], w.board)
    BY <1>4, <2>1 DEF Says, At, Ready
  <2>3. 1 \in DOMAIN script[s] /\ w = script[s][1]
    BY <1>1, <1>4
  <2>4. Finishes(s)
    BY <1>4, <2>3 DEF Finishes, Returns, Put
  <2> QED
    BY <1>4, <2>2, <2>4 DEF Line
<1>5. CASE ~(Len(script[s]) = 1 /\ pc[s] = "restart") /\ ~Last("unlocked") /\ ~Last("available")
  <2>1. Says(s) \in {Line("NOFREEBOARDS", UserOf[s], Nil), NoLine}
    BY <1>5 DEF Says
  <2> QED
    BY <1>5, <2>1 DEF NoLine, Line
<1> QED
  BY <1>2, <1>3, <1>4, <1>5

-----------------------------------------------------------------------------
(* The invariant is kept *)

\* A shell to which nothing happens.
LEMMA LoggedSame ==
    ASSUME NEW s \in Shells, ShellLogged(s),
           pc'[s] = pc[s], script'[s] = script[s], line'[s] = line[s],
           began'[s] = began[s] \/ began'[s] = IF Alive(s)' THEN began[s] ELSE Nil,
           Parse(log').open[UserOf[s]] = Parse(log).open[UserOf[s]]
    PROVE  ShellLogged(s)'
<1>1. began'[s] = began[s] \/ began'[s] = Nil
  OBVIOUS
<1>2. ~Alive(s)' => pc[s] = "idle" /\ script[s] = <<>> /\ line[s] = NoLine
  BY DEF Alive, Ready, Written
<1>3. ASSUME ~Alive(s)' PROVE ~Finishes(s) /\ line[s].event = "NONE" /\ pc[s] \notin Serving \cup Leaving
  BY <1>2, <1>3 DEF Finishes, NoLine, Line, Serving, Leaving
<1> QED
  BY <1>1, <1>3 DEF ShellLogged, Begun, Starting, Ready, Finishes

\* A shell that is over and has told so.
LEMMA LoggedOver ==
    ASSUME NEW s \in Shells, pc'[s] = "idle", Ready(s)', line'[s] = NoLine, began'[s] = Nil
    PROVE  ShellLogged(s)'
BY DEF ShellLogged, Ready, Finishes, NoLine, Line, Serving, Leaving

\* A shell after its next command, of which it is going to tell.
LEMMA CommandLogged ==
    ASSUME TypeOK, LogTypeOK, NEW s \in Shells, ShellLogged(s), Command(s)
    PROVE  ShellLogged(s)'
<1>1. /\ line[s] = NoLine /\ line[s].event = "NONE" /\ line'[s] = Says(s)
      /\ began'[s] = IF Alive(s)' THEN began[s] ELSE Nil
      /\ log' = log /\ ShellActs(s)
  BY DEF Command, Written, Cleared, NoLine, Line, ShellRuns, ShellActs, LogTypeOK
<1>2. ASSUME pc'[s] \in Serving \cup Leaving PROVE Alive(s)'
  BY <1>2 DEF Alive, Serving, Leaving
<1>3. ASSUME Finishes(s)' PROVE Alive(s)'
  BY <1>3 DEF Alive, Ready, Finishes
<1>12. ASSUME Exec(s), UNCHANGED shellVars
       PROVE  /\ pc' = pc
              /\ Finishes(s)' => Finishes(s)
              /\ Ready(s)' <=> Len(script[s]) = 1
  <2>1. s \in Procs /\ StoreTypeOK /\ script[s] \in Seq(Writes) /\ script \in [Procs -> Seq(Writes)]
    BY ShellAssumption DEF TypeOK, StoreTypeOK
  <2>2. pc' = pc
    BY <1>12 DEF shellVars, localVars
  <2>3. Finishes(s)' => Finishes(s)
    BY <1>12, <2>1, ExecEffect DEF Finishes
  <2>4. /\ Len(script[s]) \in Nat \ {0} /\ script'[s] = Tail(script[s])
        /\ Tail(script[s]) \in Seq(Writes) /\ Len(Tail(script[s])) = Len(script[s]) - 1
    BY <1>12, <2>1, ExecEffect, HeadTail DEF Exec
  <2>5. script'[s] = <<>> <=> Len(script[s]) = 1
    <3> DEFINE rest == Tail(script[s])
    <3>1. rest \in Seq(Writes) /\ (Len(script[s]) = 1 <=> Len(rest) = 0)
      BY <2>4
    <3> HIDE DEF rest
    <3>2. rest = <<>> <=> Len(rest) = 0
      BY <3>1
    <3> QED
      BY <2>4, <3>1, <3>2 DEF rest
  <2> QED
    BY <2>2, <2>3, <2>5 DEF Ready
<1>4. ASSUME line'[s].event = "END"
      PROVE  Alive(s)' /\ began[s] # Nil /\ pc'[s] = "idle" /\ Ready(s)'
  <2>1. Len(script[s]) = 1 /\ pc[s] = "idle" /\ began[s] # Nil
    BY <1>1, <1>4, WhatSays DEF ShellLogged
  <2>2. ~Ready(s)
    <3>1. \A w : w = <<>> => Len(w) # 1
      OBVIOUS
    <3> QED
      BY <2>1, <3>1 DEF Ready
  <2>3. pc'[s] = "idle" /\ Ready(s)'
    BY <1>1, <1>12, <2>1, <2>2, LoggedForms DEF Continues
  <2>4. Alive(s)'
    BY <1>4 DEF Alive, Written, NoLine, Line
  <2> QED
    BY <2>1, <2>3, <2>4
<1>5. ASSUME \/ pc'[s] \notin Serving \cup Leaving
             \/ Starting(s)'
             \/ began[s] # Nil
             \/ Says(s).event = "START",
             Finishes(s)' => pc'[s] = "idle" /\ began[s] # Nil
      PROVE  ShellLogged(s)'
  <2>1. line'[s] # NoLine => line'[s].user = UserOf[s]
    BY <1>1, WhatSays
  <2>2. began'[s] # Nil => Parse(log').open[UserOf[s]] = began'[s]
    BY <1>1 DEF ShellLogged
  <2>3. pc'[s] \in Serving \cup Leaving /\ ~Starting(s)' => Begun(s)'
    BY <1>1, <1>2, <1>5 DEF Begun
  <2>4. Finishes(s)' => pc'[s] = "idle" /\ began'[s] # Nil
    BY <1>1, <1>3, <1>5
  <2>5. line'[s].event = "END" => pc'[s] = "idle" /\ Ready(s)' /\ began'[s] # Nil
    BY <1>1, <1>4
  <2> QED
    BY <2>1, <2>2, <2>3, <2>4, <2>5 DEF ShellLogged
<1>6. pc[s] \in Serving \cup Leaving /\ ~Starting(s) => began[s] # Nil
  BY <1>1 DEF ShellLogged, Begun
<1>7. CASE Exec(s) /\ UNCHANGED shellVars
  <2>1. ASSUME Starting(s), ~Starting(s)' PROVE Says(s).event = "START"
    BY <1>7, <1>12, <2>1, WhatSays DEF Starting
  <2> QED
    BY <1>5, <1>6, <1>7, <1>12, <2>1 DEF ShellLogged
<1>8. CASE Ready(s) /\ Starting(s)' /\ ~Finishes(s)'
  BY <1>5, <1>8
<1>9. CASE Continues(s)
  <2>1. ~Starting(s)
    BY <1>9 DEF Continues, Starting
  <2> QED
    BY <1>5, <1>6, <1>9, <2>1 DEF Continues
<1>10. CASE pc[s] = "endUser" /\ Ready(s) /\ pc'[s] = "idle" /\ ~Ready(s)'
  <2>1. began[s] # Nil
    BY <1>6, <1>10 DEF Starting, Leaving
  <2> QED
    BY <1>5, <1>10, <2>1 DEF Serving, Leaving
<1>11. CASE pc'[s] = "idle" /\ Ready(s)'
  <2>1. ~Finishes(s)'
    BY <1>11 DEF Ready, Finishes
  <2> QED
    BY <1>5, <1>11, <2>1 DEF Serving, Leaving
<1> QED
  BY <1>1, <1>7, <1>8, <1>9, <1>10, <1>11, LoggedForms

\* A line goes to the log: the parse follows.
LEMMA WriteLogged ==
    ASSUME TypeOK, LogTypeOK, ReportInv, OneEach, NEW s \in Shells, WriteLine(s)
    PROVE  ReportInv'
<1> DEFINE l == Stamped(line[s], now)
           u == UserOf[s]
<1>1. /\ line[s] \in Lines /\ line[s].user = u /\ u \in Users /\ now \in Nat /\ Nil \notin Nat
      /\ ShellLogged(s)
  BY ShellAssumption, StoreAssumption
     DEF WriteLine, Written, LogTypeOK, TypeOK, StoreTypeOK, ReportInv, ShellLogged
<1>2. l \in Stamps /\ l.event = line[s].event /\ l.user = u /\ l.board = line[s].board /\ l.time = now
  BY <1>1 DEF Stamped, Lines, Stamps
<1>3. log' = Append(log, l) /\ log \in Seq(Stamps) /\ UNCHANGED vars
  BY DEF WriteLine, LogTypeOK
<1>4. Parse(log') = ParseLine(Parse(log), l)
  BY <1>2, <1>3, ParseAppend
<1>5. /\ Parse(log') \in Stats
      /\ \A v \in Users \ {u} : Parse(log').open[v] = Parse(log).open[v]
      /\ l.event = "START" => Parse(log').open[u] = now
      /\ l.event \notin {"START", "END"} => Parse(log').open = Parse(log).open
      /\ l.event # "END" => Parse(log').completed = Parse(log).completed
      /\ l.event = "END" /\ Parse(log).open[u] # Nil =>
             Parse(log').completed = Append(Parse(log).completed,
                 [user |-> u, board |-> line[s].board, start |-> Parse(log).open[u], end |-> now])
  <2> HIDE DEF l
  <2> QED
    BY <1>2, <1>4, LineParsed DEF ReportInv
<1>6. began'[s] = IF line[s].event = "START" THEN now ELSE IF Alive(s)' THEN began[s] ELSE Nil
  BY DEF WriteLine, LogTypeOK
<1>7. UNCHANGED <<pc, script>> /\ line'[s] = NoLine /\ NoLine.event = "NONE"
  BY <1>3 DEF vars, storeVars, shellVars, localVars, WriteLine, LogTypeOK, NoLine, Line
<1>8. ASSUME line[s].event # "START", ~Alive(s)' PROVE ShellLogged(s)'
  <2>1. pc'[s] = "idle" /\ Ready(s)'
    BY <1>8 DEF Alive
  <2> QED
    BY <1>6, <1>7, <1>8, <2>1, LoggedOver
<1>10. ASSUME NEW t \in Shells, t # s PROVE ShellLogged(t)'
  <2>1. UserOf[t] \in Users \ {u}
    BY <1>10, ShellAssumption DEF OneEach
  <2>2. line'[t] = line[t] /\ began'[t] = began[t]
    BY <1>10 DEF WriteLine, LogTypeOK
  <2>3. pc'[t] = pc[t] /\ script'[t] = script[t] /\ ShellLogged(t)
    BY <1>7 DEF ReportInv
  <2> QED
    BY <1>5, <2>1, <2>2, <2>3, LoggedSame
<1>9. CASE line[s].event = "START"
  <2>1. ShellLogged(s)'
    BY <1>1, <1>2, <1>5, <1>6, <1>7, <1>9 DEF ShellLogged, Begun, Starting, Ready, Finishes
  <2>2. Parse(log').completed = ended'
    BY <1>2, <1>5, <1>9 DEF WriteLine, ReportInv
  <2> QED
    BY <1>5, <1>10, <2>1, <2>2 DEF ReportInv
<1>11. CASE line[s].event = "END"
  <2>1. pc[s] = "idle" /\ Ready(s) /\ began[s] # Nil /\ Parse(log).open[u] = began[s]
    BY <1>1, <1>11 DEF ShellLogged
  <2>2. ~Alive(s)'
    BY <1>7, <2>1 DEF Alive, Ready, Written
  <2>3. Parse(log').completed = ended'
    BY <1>2, <1>5, <1>11, <2>1 DEF WriteLine, ReportInv
  <2> QED
    BY <1>5, <1>8, <1>10, <1>11, <2>2, <2>3 DEF ReportInv
<1>12. CASE line[s].event \notin {"START", "END"}
  <2>1. Parse(log').open = Parse(log).open
    BY <1>2, <1>5, <1>12
  <2>2. ASSUME Alive(s)' PROVE ShellLogged(s)'
    BY <1>1, <1>6, <1>7, <1>12, <2>1, <2>2 DEF ShellLogged, Begun, Starting, Ready, Finishes
  <2>3. Parse(log').completed = ended'
    BY <1>2, <1>5, <1>12 DEF WriteLine, ReportInv
  <2> QED
    BY <1>5, <1>8, <1>10, <1>12, <2>2, <2>3 DEF ReportInv
<1> QED
  BY <1>9, <1>11, <1>12

\* What is not a step of a shell leaves the shells where they are.
LEMMA ElsewhereSame ==
    ASSUME TypeOK, NEW s \in Shells,
           \/ Tick \/ Expiry
           \/ \E k \in Checkers : CheckRuns(k) \/ CronActs(k)
           \/ \E t \in Testers : TestRuns(t) \/ AdminActs(t)
    PROVE  SameShell(s)
<1>1. ASSUME UNCHANGED localVars, script'[s] = script[s] PROVE SameShell(s)
  BY <1>1 DEF SameShell, localVars
<1>2. CASE Tick \/ Expiry
  BY <1>1, <1>2 DEF Tick, Expiry, LockingExpires, shellVars
<1>3. ASSUME NEW k \in Checkers, CheckRuns(k) \/ CronActs(k) PROVE SameShell(s)
  <2>1. CheckStep(k) \/ Recover(k) \/ CronStart(k)
    BY <1>3 DEF CheckRuns, CronActs
  <2>2. k \in Procs /\ k # s
    BY CheckAssumption, RelayAssumption
  <2>3. script'[s] = script[s]
    BY <2>1, <2>2, CheckForms, ExecEffect, ShellAssumption DEF Decides, Run, TypeOK, StoreTypeOK
  <2> QED
    BY <1>1, <1>3, <2>3 DEF CheckRuns, CronActs, shellVars
<1>4. ASSUME NEW t \in Testers, TestRuns(t) \/ AdminActs(t) PROVE SameShell(s)
  <2>1. TestStep(t) \/ StartRun(t) \/ KillRun(t)
    BY <1>4 DEF TestRuns, AdminActs
  <2>2. t \in Procs /\ t # s
    BY TestAssumption, RelayAssumption
  <2>3. script'[s] = script[s]
    BY <2>1, <2>2, TestForms, ExecEffect, ShellAssumption DEF Tries, Run, TypeOK, StoreTypeOK
  <2> QED
    BY <1>1, <1>4, <2>3 DEF TestRuns, AdminActs, shellVars
<1> QED
  BY <1>2, <1>3, <1>4

\* s alone acts, and no line is written.
LEMMA OthersLogged ==
    ASSUME TypeOK, LogTypeOK, ReportInv, NEW s \in Shells, ShellActs(s), Cleared \/ UNCHANGED began,
           UNCHANGED log, \A t \in Shells \ {s} : line'[t] = line[t]
    PROVE  \A t \in Shells \ {s} : ShellLogged(t)'
<1> SUFFICES ASSUME NEW t \in Shells \ {s} PROVE ShellLogged(t)'
  OBVIOUS
<1>1. pc'[t] = pc[t] /\ script'[t] = script[t]
  BY OtherShell DEF SameShell
<1>2. began'[t] = began[t] \/ began'[t] = IF Alive(t)' THEN began[t] ELSE Nil
  BY DEF Cleared
<1> QED
  BY <1>1, <1>2, LoggedSame DEF ReportInv

LEMMA ComeLogged ==
    ASSUME TypeOK, LogTypeOK, NEW s \in Shells, ShellLogged(s), Come(s)
    PROVE  ShellLogged(s)'
<1>1. UNCHANGED <<log, line, began>> /\ line[s] = NoLine /\ NoLine.event = "NONE"
  BY DEF Come, Written, logVars, NoLine, Line
<1>2. pc \in [Shells -> {"idle"} \cup Acquiring \cup Serving \cup Leaving]
  BY DEF TypeOK, ShellTypeOK
<1>3. CASE Connect(s)
  <2>1. pc'[s] = "locking" /\ script'[s] = <<>>
    BY <1>2, <1>3 DEF Connect, At, Goto, Ready
  <2> QED
    BY <1>1, <2>1 DEF ShellLogged, Finishes, Serving, Leaving
<1>4. CASE Disconnect(s)
  <2>1. pc[s] = "wait" /\ script'[s] = <<>>
    BY <1>4 DEF Disconnect, At, Ready, storeVars
  <2>2. Begun(s)
    BY <2>1 DEF ShellLogged, Serving, Starting
  <2> QED
    BY <1>1, <2>1, <2>2 DEF ShellLogged, Begun, Finishes
<1> QED
  BY <1>3, <1>4 DEF Come

LEMMA ReportStep ==
    ASSUME TypeOK, LogTypeOK, OneEach, ReportInv, UsageNext
    PROVE  ReportInv'
<1>1. ASSUME UNCHANGED <<log, ended>>, \A t \in Shells : ShellLogged(t)' PROVE ReportInv'
  BY <1>1 DEF ReportInv
<1>2. CASE Elsewhere
  <2>1. UNCHANGED <<log, line, began, ended>>
    BY <1>2 DEF Elsewhere, logVars
  <2>2. ASSUME NEW t \in Shells PROVE ShellLogged(t)'
    <3>1. pc'[t] = pc[t] /\ script'[t] = script[t]
      BY <1>2, ElsewhereSame DEF Elsewhere, SameShell
    <3> QED
      BY <2>1, <3>1, LoggedSame DEF ReportInv
  <2> QED
    BY <1>1, <2>1, <2>2
<1>3. ASSUME NEW s \in Shells, Command(s) PROVE ReportInv'
  <2>1. /\ ShellActs(s) /\ Cleared /\ UNCHANGED <<log, ended>>
        /\ \A t \in Shells \ {s} : line'[t] = line[t]
    BY <1>3 DEF Command, ShellRuns, ShellActs, LogTypeOK
  <2>2. ShellLogged(s)'
    BY <1>3, CommandLogged DEF ReportInv
  <2> QED
    BY <1>1, <2>1, <2>2, OthersLogged
<1>4. ASSUME NEW s \in Shells, Come(s) PROVE ReportInv'
  <2>1. ShellActs(s) /\ UNCHANGED <<log, ended, line, began>>
    BY <1>4 DEF Come, ShellActs, logVars
  <2>2. ShellLogged(s)'
    BY <1>4, ComeLogged DEF ReportInv
  <2> QED
    BY <1>1, <2>1, <2>2, OthersLogged
<1>5. ASSUME NEW s \in Shells, Die(s) PROVE ReportInv'
  <2>1. /\ ShellActs(s) /\ Cleared /\ UNCHANGED <<log, ended>> /\ line'[s] = NoLine
        /\ \A t \in Shells \ {s} : line'[t] = line[t]
    BY <1>5 DEF Die, ShellActs, LogTypeOK
  <2>2. pc'[s] = "idle" /\ Ready(s)'
    BY <1>5, ShellAssumption
       DEF Die, Kill, End, Goto, Run, Ready, TypeOK, ShellTypeOK, StoreTypeOK
  <2>3. began'[s] = Nil
    BY <2>1, <2>2 DEF Cleared, Alive, Written
  <2> QED
    BY <1>1, <2>1, <2>2, <2>3, LoggedOver, OthersLogged
<1>6. ASSUME NEW s \in Shells, CountLock(s) PROVE ReportInv'
  <2>1. /\ UNCHANGED <<vars, log, began, ended>> /\ line'[s] = Line("LOCK", UserOf[s], board[s])
        /\ \A t \in Shells \ {s} : line'[t] = line[t]
        /\ pc[s] = "restart" /\ Ready(s) /\ line[s] = NoLine
    BY <1>6 DEF CountLock, At, Written, LogTypeOK
  <2>2. UNCHANGED <<pc, script>>
    BY <2>1 DEF vars, storeVars, shellVars, localVars
  <2>3. ShellLogged(s)'
    BY <2>1, <2>2 DEF ReportInv, ShellLogged, Begun, Starting, Ready, Finishes, Line, NoLine
  <2>4. \A t \in Shells \ {s} : ShellLogged(t)'
    BY <2>1, <2>2, LoggedSame DEF ReportInv
  <2> QED
    BY <1>1, <2>1, <2>3, <2>4
<1>7. ASSUME NEW s \in Shells, DieUntold(s) PROVE ReportInv'
  <2>1. /\ UNCHANGED <<vars, log, ended>> /\ Cleared /\ line'[s] = NoLine
        /\ \A t \in Shells \ {s} : line'[t] = line[t]
        /\ pc[s] = "idle" /\ Ready(s)
    BY <1>7 DEF DieUntold, LogTypeOK
  <2>2. UNCHANGED <<pc, script>>
    BY <2>1 DEF vars, storeVars, shellVars, localVars
  <2>3. pc'[s] = "idle" /\ Ready(s)' /\ began'[s] = Nil
    BY <2>1, <2>2 DEF Cleared, Alive, Written, Ready
  <2>4. ShellLogged(s)'
    BY <2>1, <2>3, LoggedOver
  <2>5. ASSUME NEW t \in Shells \ {s} PROVE ShellLogged(t)'
    BY <2>1, <2>2, LoggedSame DEF ReportInv, Cleared
  <2> QED
    BY <1>1, <2>1, <2>4, <2>5
<1>8. ASSUME NEW s \in Shells, WriteLine(s) PROVE ReportInv'
  BY <1>8, WriteLogged
<1> QED
  BY <1>2, <1>3, <1>4, <1>5, <1>6, <1>7, <1>8 DEF UsageNext

LEMMA ReportStart == UsageInit => ReportInv
<1> SUFFICES ASSUME UsageInit PROVE ReportInv
  OBVIOUS
<1>1. log = <<>> /\ ended = <<>> /\ Parse(log) = NoStats
  BY ParseEmpty DEF UsageInit, LogInit
<1>2. Parse(log) \in Stats /\ Parse(log).completed = ended
  <2>1. [u \in Users |-> Nil] \in [Users -> Nat \cup {Nil}] /\ <<>> \in Seq(Sessions)
    OBVIOUS
  <2>2. NoStats \in Stats /\ NoStats.completed = <<>>
    BY <2>1 DEF NoStats, Stats
  <2> QED
    BY <1>1, <2>2
<1>3. ASSUME NEW s \in Shells PROVE ShellLogged(s)
  <2>1. pc[s] = "idle" /\ script[s] = <<>>
    BY ShellAssumption DEF UsageInit, Init, ShellInit, StoreInit
  <2>2. line[s] = NoLine /\ began[s] = Nil /\ NoLine.event = "NONE"
    BY DEF UsageInit, LogInit, NoLine, Line
  <2> QED
    BY <2>1, <2>2 DEF ShellLogged, Finishes, Serving, Leaving
<1> QED
  BY <1>2, <1>3 DEF ReportInv

-----------------------------------------------------------------------------
(* The sessions are reported *)

UsageInv == UsageTypeOK /\ (OneEach => ReportInv)

LEMMA UsageStep == UsageInv /\ [UsageNext]_usageVars => UsageInv'
<1> SUFFICES ASSUME UsageInv, [UsageNext]_usageVars PROVE UsageInv'
  OBVIOUS
<1>1. TypeOK /\ LogTypeOK /\ (OneEach => ReportInv) /\ OneEach' = OneEach
  BY DEF UsageInv, UsageTypeOK, OneEach
<1>2. CASE UNCHANGED usageVars
  <2>1. UNCHANGED <<vars, log, line, began, ended, logVars, pc, script>>
    BY <1>2 DEF usageVars, logVars, vars, storeVars, shellVars, localVars
  <2>2. TypeOK'
    BY <1>1, <2>1, TypeStep
  <2>3. LogTypeOK'
    BY <1>1, <2>1 DEF logVars, LogTypeOK
  <2>4. ReportInv => ReportInv'
    BY <2>1 DEF ReportInv, ShellLogged, Begun, Starting, Ready, Finishes
  <2> QED
    BY <1>1, <2>2, <2>3, <2>4 DEF UsageInv, UsageTypeOK
<1>3. CASE UsageNext
  <2>1. TypeOK'
    BY <1>1, <1>3, UsageSteps, TypeStep
  <2> QED
    BY <1>1, <1>3, <2>1, LogTypes, ReportStep DEF UsageInv, UsageTypeOK
<1> QED
  BY <1>2, <1>3

\* Whatever the shells and everybody else do, for all numbers of users and boards:
\* the sessions the statistics tell of are those that took place.
THEOREM SessionsAreReported == UsageSpec => []SessionsReported
<1>1. UsageInit => UsageInv
  BY InitTypeOK, InitLogType, ReportStart DEF UsageInit, UsageInv, UsageTypeOK
<1>2. UsageInv => SessionsReported
  BY DEF UsageInv, ReportInv, SessionsReported
<1> QED
  BY <1>1, <1>2, UsageStep, PTL DEF UsageSpec
====
