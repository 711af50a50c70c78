---- MODULE Dashboard_proof ----
(***************************************************************************)
(* What the dashboard tells, whatever the relay does while it reads: the   *)
(* usage log and the dashboard do not disturb the relay, so that its       *)
(* invariants hold here too, CalmInv above all.                            *)
(***************************************************************************)
EXTENDS Dashboard, Usage_proof

-----------------------------------------------------------------------------
(* The relay under the log and the dashboard *)

LEMMA WebSteps == ASSUME WebStep PROVE UNCHANGED <<page, usageVars>>
BY DEF WebStep, BoardsRequest, ReadStatus, ReadAvailable, ReadSessStart, ReadUnlocked, Read,
       SumAvailable, SumUnlocked, SumFailed, SumWithdrawn, BoardsRespond, StatsRequest,
       Stat, ParseLog, StatsAnswer, WAt, SAt

LEMMA DashSteps == ASSUME [DashNext]_dashVars PROVE [Next]_vars
<1>1. CASE UNCHANGED dashVars
  BY <1>1 DEF dashVars, usageVars
<1>2. CASE RelayStep
  BY <1>2, UsageSteps DEF RelayStep
<1>3. CASE WebStep
  BY <1>3, WebSteps DEF usageVars
<1> QED
  BY <1>1, <1>2, <1>3 DEF DashNext

\* What runs under the usage log and the dashboard is the relay of Relay.tla, no more:
\* they only read its keys and note its steps, so that what is proved of the relay,
\* the leases and the tests among it, holds beside them too.
THEOREM DashboardIsRelay == DashSpec => Spec
<1>1. DashInit => Init
  BY DEF DashInit, UsageInit
<1>2. [DashNext]_dashVars => [Next]_vars
  BY DashSteps
<1> QED
  BY <1>1, <1>2, PTL DEF DashSpec, Spec

\* The relay's invariants.
LEMMA RelayInvariants == DashSpec => [](TypeOK /\ CalmInv)
BY DashboardIsRelay, TypeCorrect, Calm, PTL

-----------------------------------------------------------------------------
(* Types of the dashboard *)

Summing == {"sumAvailable", "sumUnlocked", "failStatus", "failPool", "respond"}
Parsing == {"stat", "parse", "answer"}

PlaceOK == /\ wpc \in {"idle"} \cup StatusKeys \cup Summing \cup Parsing
           /\ wboard \in Boards \cup {Nil}
           /\ wtodo \in SUBSET Boards
           /\ wpc \in StatusKeys \cup {"failStatus", "failPool"} => wboard # Nil

SeenOK == /\ seen \in [StatusKeys -> Values]
          /\ \A k \in StatusKeys : seen[k] \in KeyType(k)

Reports == [status : Statuses, user : Users \cup {Nil}, start : Nat \cup {Nil}]

ToldOK == /\ report \in [Boards -> {Nil} \cup Reports]
          /\ counts \in [{"available", "unlocked", "failed"} -> SUBSET Boards]

StatsOK == /\ cache \in [size : Nat, parsed : Nat \cup {Nil}]
           /\ stat \in Nat
           /\ parsed \in Nat \cup {Nil}
           /\ since \in Nat

LEMMA WebTypeParts ==
    WebTypeOK <=> /\ page \in {"boards", "stats"} /\ PlaceOK /\ SeenOK /\ ToldOK /\ StatsOK
                  /\ steady \in SUBSET Boards /\ kept \in SUBSET Shells
BY DEF WebTypeOK, PlaceOK, SeenOK, ToldOK, StatsOK, Summing, Parsing, Reports

LEMMA StatusKeyTypes ==
    /\ StatusKeys \subseteq Keys
    /\ KeyType("sessUser") = {Nil} \cup Users
    /\ KeyType("sessStart") = {Nil} \cup Nat
    /\ \A k \in StatusKeys : Nil \in KeyType(k) /\ Nil \in Values
<1>1. StatusKeys \subseteq Keys
  BY DEF StatusKeys, Keys, PoolKeys, UserKeys, TimeKeys
<1> QED
  BY <1>1, KeyTypes DEF UserKeys, TimeKeys, Values

LEMMA NextOneType ==
    ASSUME NEW rest \in SUBSET Boards, NEW l, NEW m, NextOne(rest, l, m), l # m,
           l \in {"hwStatus", "failStatus"}, m \in Summing \ {"failStatus", "failPool"}
    PROVE  PlaceOK' /\ SeenOK'
<1>1. SeenOK'
  BY StatusKeyTypes DEF NextOne, Unread, SeenOK
<1>2. \A b \in rest : b \in Boards /\ b # Nil
  BY RelayAssumption
<1>3. /\ m \in Summing /\ m \notin StatusKeys \cup {"failStatus", "failPool"}
      /\ l \in StatusKeys \cup Summing
  BY DEF StatusKeys, Summing
<1>4. ASSUME rest = {}, wpc' = m, wboard' = Nil, wtodo' = {} PROVE PlaceOK'
  BY <1>3, <1>4 DEF PlaceOK
<1>5. ASSUME NEW b \in rest, wpc' = l, wboard' = b, wtodo' = rest \ {b} PROVE PlaceOK'
  BY <1>2, <1>3, <1>5 DEF PlaceOK
<1> QED
  BY <1>1, <1>4, <1>5 DEF NextOne

LEMMA ReadType ==
    ASSUME StoreTypeOK, PlaceOK, SeenOK, NEW k \in StatusKeys, NEW next \in StatusKeys,
           Read(k, next)
    PROVE  PlaceOK' /\ SeenOK'
<1>1. k \in Keys /\ wboard \in Boards /\ wboard # Nil
  BY StatusKeyTypes DEF Read, WAt, PlaceOK
<1>2. db[k][wboard] \in Values /\ db[k][wboard] \in KeyType(k)
  BY <1>1 DEF StoreTypeOK
<1>3. SeenOK'
  BY <1>2 DEF Read, SeenOK
<1> QED
  BY <1>1, <1>3 DEF Read, PlaceOK

LEMMA ReportType ==
    ASSUME PlaceOK, ToldOK, NEW st \in Statuses, NEW u \in Users \cup {Nil},
           NEW t \in Nat \cup {Nil}, Report(st, u, t)
    PROVE  PlaceOK' /\ SeenOK' /\ ToldOK'
<1>1. Status(st, u, t) \in Reports
  BY DEF Status, Reports
<1>2. ToldOK'
  BY <1>1 DEF Report, ToldOK
<1>3. NextOne(wtodo, "hwStatus", "sumAvailable") /\ wtodo \in SUBSET Boards
  BY DEF Report, PlaceOK
<1> QED
  BY <1>2, <1>3, NextOneType DEF Summing

LEMMA StatusType ==
    ASSUME StoreTypeOK, WebTypeOK, ReadStatus
    PROVE  PlaceOK' /\ SeenOK' /\ ToldOK' /\ UNCHANGED <<page, statsVars, steady, kept>>
<1>1. PlaceOK /\ SeenOK /\ ToldOK
  BY WebTypeParts
<1>2. ASSUME NEW k \in StatusKeys, NEW next \in StatusKeys, Read(k, next)
      PROVE  PlaceOK' /\ SeenOK' /\ ToldOK'
  BY <1>1, <1>2, ReadType DEF Read, ToldOK
<1>3. StatusKeys = {"hwStatus", "available", "sessUser", "sessStart", "lockUser", "lockTime",
                    "unlocked"}
  BY DEF StatusKeys
<1>4. seen["sessUser"] \in Users \cup {Nil} /\ seen["sessStart"] \in Nat \cup {Nil}
  BY <1>1, <1>3, StatusKeyTypes DEF SeenOK
<1>5. ASSUME NEW st \in {"available", "hwtest_failed"}, Report(st, Nil, Nil)
      PROVE  PlaceOK' /\ SeenOK' /\ ToldOK'
  <2>1. st \in Statuses /\ Nil \in Users \cup {Nil} /\ Nil \in Nat \cup {Nil}
    BY DEF Statuses
  <2> QED
    BY <1>1, <1>5, <2>1, ReportType
<1>6. ASSUME ReadSessStart PROVE PlaceOK' /\ SeenOK' /\ ToldOK'
  <2>1. (IF seen["hwStatus"] = Fail THEN "hwtest_failed" ELSE "available")
            \in {"available", "hwtest_failed"}
    OBVIOUS
  <2> QED
    BY <1>2, <1>3, <1>5, <1>6, <2>1 DEF ReadSessStart
<1>7. ASSUME ReadUnlocked PROVE PlaceOK' /\ SeenOK' /\ ToldOK'
  <2>1. (IF Unlocked THEN "in_use_unlocked" ELSE "in_use_locked") \in Statuses
    BY DEF Statuses
  <2> QED
    BY <1>1, <1>4, <1>7, <2>1, ReportType DEF ReadUnlocked
<1>8. PlaceOK' /\ SeenOK' /\ ToldOK'
  BY <1>2, <1>3, <1>5, <1>6, <1>7 DEF ReadStatus, ReadAvailable
<1>9. UNCHANGED <<page, statsVars, steady, kept>>
  BY DEF ReadStatus, ReadAvailable, ReadSessStart, ReadUnlocked, Read, Report, WAt
<1> QED
  BY <1>8, <1>9

LEMMA SummaryType ==
    ASSUME WebTypeOK,
           BoardsRequest \/ SumAvailable \/ SumUnlocked \/ SumFailed \/ SumWithdrawn \/ BoardsRespond
    PROVE  PlaceOK' /\ SeenOK' /\ ToldOK' /\ UNCHANGED <<page, statsVars>>
<1>1. PlaceOK /\ SeenOK /\ ToldOK
  BY WebTypeParts
<1>2. ASSUME UNCHANGED report, counts' \in [{"available", "unlocked", "failed"} -> SUBSET Boards]
      PROVE  ToldOK'
  BY <1>1, <1>2 DEF ToldOK
<1>3. /\ UNCHANGED <<wboard, wtodo, seen>>
      /\ wpc' \in {"idle", "sumUnlocked", "failPool"}
      /\ wpc' = "failPool" => wboard # Nil
      => PlaceOK' /\ SeenOK'
  <2> HAVE /\ UNCHANGED <<wboard, wtodo, seen>>
           /\ wpc' \in {"idle", "sumUnlocked", "failPool"}
           /\ wpc' = "failPool" => wboard # Nil
  <2>1. SeenOK'
    BY <1>1 DEF SeenOK
  <2> QED
    BY <1>1, <2>1 DEF PlaceOK, Summing, StatusKeys
<1>4. ASSUME NEW rest \in SUBSET Boards, NextOne(rest, "failStatus", "respond")
      PROVE  PlaceOK' /\ SeenOK'
  BY <1>4, NextOneType DEF Summing
<1>5. ASSUME BoardsRequest PROVE PlaceOK' /\ SeenOK' /\ ToldOK'
  <2>1. NextOne(Boards, "hwStatus", "respond") /\ UNCHANGED <<report, counts>>
    BY <1>5 DEF BoardsRequest
  <2>2. PlaceOK' /\ SeenOK'
    BY <2>1, NextOneType DEF Summing
  <2> QED
    BY <1>1, <2>1, <2>2 DEF ToldOK
<1>6. ASSUME SumAvailable PROVE PlaceOK' /\ SeenOK' /\ ToldOK'
  <2>1. counts' \in [{"available", "unlocked", "failed"} -> SUBSET Boards]
    BY <1>1, <1>6 DEF SumAvailable, Pool, ToldOK
  <2>2. UNCHANGED <<wboard, wtodo, seen, report>> /\ wpc' = "sumUnlocked"
    BY <1>6 DEF SumAvailable
  <2>3. PlaceOK' /\ SeenOK'
    BY <1>3, <2>2
  <2> QED
    BY <1>2, <2>1, <2>2, <2>3
<1>7. ASSUME SumUnlocked PROVE PlaceOK' /\ SeenOK' /\ ToldOK'
  <2>1. counts' \in [{"available", "unlocked", "failed"} -> SUBSET Boards]
    BY <1>1, <1>7 DEF SumUnlocked, Pool, ToldOK
  <2> QED
    BY <1>2, <1>4, <1>7, <2>1 DEF SumUnlocked
<1>8. ASSUME SumFailed \/ SumWithdrawn PROVE PlaceOK' /\ SeenOK' /\ ToldOK'
  <2>1. wboard \in Boards /\ wboard # Nil /\ wtodo \in SUBSET Boards
    BY <1>1, <1>8 DEF SumFailed, SumWithdrawn, WAt, PlaceOK
  <2>2. counts' \in [{"available", "unlocked", "failed"} -> SUBSET Boards]
    <3>1. counts.failed \cup {wboard} \in SUBSET Boards
      BY <1>1, <2>1 DEF ToldOK
    <3> QED
      BY <1>1, <1>8, <3>1 DEF SumFailed, SumWithdrawn, ToldOK
  <2>3. UNCHANGED report
    BY <1>8 DEF SumFailed, SumWithdrawn
  <2>4. \/ UNCHANGED <<wboard, wtodo, seen>> /\ wpc' = "failPool"
        \/ NextOne(wtodo, "failStatus", "respond")
    BY <1>8 DEF SumFailed, SumWithdrawn
  <2>5. PlaceOK' /\ SeenOK'
    BY <1>3, <1>4, <2>1, <2>4
  <2> QED
    BY <1>2, <2>2, <2>3, <2>5
<1>9. ASSUME BoardsRespond PROVE PlaceOK' /\ SeenOK' /\ ToldOK'
  <2>1. ToldOK'
    BY <1>9 DEF BoardsRespond, NoCounts, ToldOK
  <2>2. UNCHANGED <<wboard, wtodo, seen>> /\ wpc' = "idle"
    BY <1>9 DEF BoardsRespond
  <2>3. PlaceOK' /\ SeenOK'
    BY <1>3, <2>2
  <2> QED
    BY <2>1, <2>3
<1>10. UNCHANGED <<page, statsVars>>
  BY DEF BoardsRequest, SumAvailable, SumUnlocked, SumFailed, SumWithdrawn, BoardsRespond, WAt
<1> QED
  BY <1>5, <1>6, <1>7, <1>8, <1>9, <1>10

LEMMA StatsType ==
    ASSUME LogTypeOK, WebTypeOK, StatsRequest \/ Stat \/ ParseLog \/ StatsAnswer
    PROVE  PlaceOK' /\ StatsOK' /\ UNCHANGED <<page, boardsVars>>
<1>1. PlaceOK /\ StatsOK /\ Len(log) \in Nat
  BY WebTypeParts DEF LogTypeOK
<1>2. UNCHANGED <<page, boardsVars>>
  BY DEF StatsRequest, Stat, ParseLog, StatsAnswer, SAt
<1>3. wpc' \in {"idle"} \cup Parsing
  BY DEF StatsRequest, Stat, ParseLog, StatsAnswer, Parsing
<1>4. PlaceOK'
  BY <1>1, <1>2, <1>3 DEF PlaceOK, boardsVars, Parsing, StatusKeys
<1>5. StatsOK'
  BY <1>1 DEF StatsRequest, Stat, ParseLog, StatsAnswer, StatsOK
<1> QED
  BY <1>2, <1>4, <1>5

LEMMA WebTypes ==
    ASSUME TypeOK, LogTypeOK, WebTypeOK, WebStep
    PROVE  WebTypeOK'
<1>1. StoreTypeOK /\ calm \in SUBSET Shells
  BY DEF TypeOK
<1>2. ASSUME UNCHANGED <<page, statsVars>>, PlaceOK', SeenOK', ToldOK',
             steady' \in SUBSET Boards, kept' \in SUBSET Shells
      PROVE  WebTypeOK'
  <2>1. StatsOK'
    BY <1>2, WebTypeParts DEF statsVars, StatsOK
  <2>2. page' \in {"boards", "stats"}
    BY <1>2, WebTypeParts
  <2> QED
    BY <1>2, <2>1, <2>2 DEF WebTypeOK, PlaceOK, SeenOK, ToldOK, StatsOK, Summing, Parsing, Reports
<1>3. CASE ReadStatus
  BY <1>1, <1>2, <1>3, StatusType, WebTypeParts
<1>4. CASE BoardsRequest \/ SumAvailable \/ SumUnlocked \/ SumFailed \/ SumWithdrawn \/ BoardsRespond
  <2>1. steady' \in SUBSET Boards /\ kept' \in SUBSET Shells
    BY <1>1, <1>4, WebTypeParts
       DEF BoardsRequest, SumAvailable, SumUnlocked, SumFailed, SumWithdrawn, BoardsRespond
  <2> QED
    BY <1>2, <1>4, <2>1, SummaryType
<1>5. CASE StatsRequest \/ Stat \/ ParseLog \/ StatsAnswer
  <2>1. PlaceOK' /\ StatsOK' /\ UNCHANGED <<page, boardsVars>>
    BY <1>5, StatsType
  <2>2. SeenOK' /\ ToldOK'
    BY <2>1, WebTypeParts DEF boardsVars, SeenOK, ToldOK
  <2> QED
    BY <2>1, <2>2, WebTypeParts
       DEF WebTypeOK, PlaceOK, SeenOK, ToldOK, StatsOK, Summing, Parsing, Reports, boardsVars
<1> QED
  BY <1>3, <1>4, <1>5 DEF WebStep

LEMMA InitWebType == DashInit => DashTypeOK
<1> SUFFICES ASSUME DashInit PROVE DashTypeOK
  OBVIOUS
<1>1. UsageTypeOK
  BY InitTypeOK, InitLogType DEF DashInit, UsageInit, UsageTypeOK
<1>2. WebTypeOK
  BY StatusKeyTypes DEF DashInit, WebInit, WebTypeOK, Unread, NoCounts, StatusKeys
<1> QED
  BY <1>1, <1>2 DEF DashTypeOK

LEMMA DashTypeStep == DashTypeOK /\ [DashNext]_dashVars => DashTypeOK'
<1> SUFFICES ASSUME DashTypeOK, [DashNext]_dashVars PROVE DashTypeOK'
  OBVIOUS
<1>1. TypeOK /\ LogTypeOK /\ WebTypeOK
  BY DEF DashTypeOK, UsageTypeOK
<1>2. TypeOK'
  BY <1>1, DashSteps, TypeStep
<1>3. ASSUME UNCHANGED logVars PROVE LogTypeOK'
  BY <1>1, <1>3 DEF logVars, LogTypeOK
<1>4. ASSUME UNCHANGED <<page, wpc, wboard, wtodo, seen, report, counts, statsVars>>,
             steady' \in SUBSET Boards, kept' \in SUBSET Shells
      PROVE  WebTypeOK'
  BY <1>1, <1>4 DEF WebTypeOK, statsVars
<1>5. CASE UNCHANGED dashVars
  BY <1>1, <1>2, <1>3, <1>4, <1>5
     DEF dashVars, usageVars, webVars, boardsVars, DashTypeOK, UsageTypeOK, WebTypeOK
<1>6. CASE RelayStep
  <2>1. LogTypeOK'
    BY <1>1, <1>3, <1>6, LogTypes DEF RelayStep
  <2>2. WebTypeOK'
    BY <1>1, <1>4, <1>6 DEF RelayStep, WebTypeOK
  <2> QED
    BY <1>2, <2>1, <2>2 DEF DashTypeOK, UsageTypeOK
<1>7. CASE WebStep
  <2>1. UNCHANGED logVars
    BY <1>7, WebSteps DEF usageVars
  <2> QED
    BY <1>1, <1>2, <1>3, <1>7, <2>1, WebTypes DEF DashTypeOK, UsageTypeOK
<1> QED
  BY <1>5, <1>6, <1>7 DEF DashNext

\* The types of the usage log and of the dashboard hold for all numbers of users and boards.
THEOREM DashTypeCorrect == DashSpec => []DashTypeOK
BY InitWebType, DashTypeStep, PTL DEF DashSpec

-----------------------------------------------------------------------------
(* The statistics are current *)

LEMMA LogGrows ==
    ASSUME TypeOK, LogTypeOK, [DashNext]_dashVars
    PROVE  Len(log) \in Nat /\ Len(log') \in Nat /\ Len(log') >= Len(log)
<1>1. Len(log) \in Nat
  BY DEF LogTypeOK
<1>2. ASSUME UNCHANGED log PROVE Len(log') \in Nat /\ Len(log') >= Len(log)
  BY <1>1, <1>2
<1>3. ASSUME NEW s \in Shells, WriteLine(s) PROVE Len(log') \in Nat /\ Len(log') >= Len(log)
  <2>1. Stamped(line[s], now) \in Stamps
    BY <1>3 DEF WriteLine, Written, LogTypeOK, TypeOK, StoreTypeOK, Stamped, Lines, Stamps
  <2> QED
    BY <1>3, <2>1 DEF WriteLine, LogTypeOK
<1>4. ASSUME UsageNext PROVE UNCHANGED log \/ \E s \in Shells : WriteLine(s)
  BY <1>4 DEF UsageNext, Elsewhere, Command, Come, Die, CountLock, DieUntold, logVars
<1>5. UNCHANGED log \/ \E s \in Shells : WriteLine(s)
  BY <1>4, WebSteps DEF DashNext, RelayStep, dashVars, usageVars, logVars
<1> QED
  BY <1>1, <1>2, <1>3, <1>5

\* What is cached was read no sooner than its size was taken, and the log does
\* not shrink.
CacheInv == /\ cache.parsed # Nil => cache.parsed >= cache.size
            /\ wpc \in Parsing => since =< Len(log)
            /\ wpc = "parse" => stat =< Len(log)
            /\ wpc = "answer" => parsed # Nil /\ parsed >= since

LEMMA CacheStep == DashTypeOK /\ CacheInv /\ [DashNext]_dashVars => CacheInv'
<1> SUFFICES ASSUME DashTypeOK, CacheInv, [DashNext]_dashVars PROVE CacheInv'
  OBVIOUS
<1>1. TypeOK /\ LogTypeOK /\ StatsOK /\ Nil \notin Nat
  BY WebTypeParts, StoreAssumption DEF DashTypeOK, UsageTypeOK
<1>2. Len(log) \in Nat /\ Len(log') \in Nat /\ Len(log') >= Len(log)
  BY <1>1, LogGrows
<1>3. ASSUME UNCHANGED <<cache, stat, parsed, since>>, wpc' = wpc \/ wpc' \notin Parsing
      PROVE  CacheInv'
  BY <1>1, <1>2, <1>3 DEF CacheInv, StatsOK, Parsing
<1>4. ASSUME StatsRequest PROVE CacheInv'
  BY <1>1, <1>2, <1>4 DEF StatsRequest, CacheInv, StatsOK, SAt, usageVars, logVars
<1>5. ASSUME Stat PROVE CacheInv'
  <2>1. log' = log /\ cache' = cache /\ since' = since /\ since =< Len(log)
    BY <1>5 DEF Stat, SAt, usageVars, logVars, CacheInv, Parsing
  <2>2. ASSUME Fresh(Len(log)), parsed' = cache.parsed, wpc' = "answer" PROVE CacheInv'
    BY <1>1, <1>2, <2>1, <2>2 DEF Fresh, CacheInv, StatsOK
  <2>3. ASSUME stat' = Len(log), wpc' = "parse" PROVE CacheInv'
    BY <1>1, <1>2, <2>1, <2>3 DEF CacheInv, StatsOK
  <2> QED
    BY <1>5, <2>2, <2>3 DEF Stat
<1>6. ASSUME ParseLog PROVE CacheInv'
  BY <1>1, <1>2, <1>6 DEF ParseLog, CacheInv, StatsOK, SAt, usageVars, logVars, Parsing
<1>7. ASSUME StatsAnswer PROVE CacheInv'
  BY <1>7 DEF StatsAnswer, CacheInv, Parsing
<1>8. ASSUME ReadStatus PROVE CacheInv'
  <2>1. wpc' \notin Parsing
    BY <1>8 DEF ReadStatus, ReadAvailable, ReadSessStart, ReadUnlocked, Read, Report, NextOne,
                Parsing
  <2>2. UNCHANGED statsVars
    BY <1>8 DEF ReadStatus, ReadAvailable, ReadSessStart, ReadUnlocked, Read, Report, WAt
  <2> QED
    BY <1>3, <2>1, <2>2 DEF statsVars
<1>9. ASSUME BoardsRequest \/ SumAvailable \/ SumUnlocked \/ SumFailed \/ SumWithdrawn
             \/ BoardsRespond
      PROVE  CacheInv'
  <2>1. wpc' \notin Parsing /\ UNCHANGED statsVars
    BY <1>9 DEF BoardsRequest, SumAvailable, SumUnlocked, SumFailed, SumWithdrawn,
                BoardsRespond, NextOne, WAt, Parsing
  <2> QED
    BY <1>3, <2>1 DEF statsVars
<1>10. ASSUME RelayStep \/ UNCHANGED dashVars PROVE CacheInv'
  BY <1>3, <1>10 DEF RelayStep, statsVars, dashVars, webVars
<1> QED
  BY <1>4, <1>5, <1>6, <1>7, <1>8, <1>9, <1>10 DEF DashNext, WebStep

\* The cache of logparser.py never hides a line written before the request.
THEOREM StatsAreCurrent == DashSpec => []StatsCurrent
<1>1. DashInit => CacheInv
  BY DEF DashInit, WebInit, CacheInv, Parsing
<1>2. CacheInv => StatsCurrent
  BY DEF CacheInv, StatsCurrent
<1> QED
  BY <1>1, <1>2, CacheStep, DashTypeCorrect, PTL DEF DashSpec

-----------------------------------------------------------------------------
(* What the statistics are made of *)

\* Where nobody asks for statistics there is no log.
LoggedInv == IF page = "stats" THEN OneEach => ReportInv ELSE log = <<>> /\ ended = <<>>

LEMMA LoggedStep ==
    ASSUME DashTypeOK, LoggedInv, [DashNext]_dashVars
    PROVE  LoggedInv'
<1>1. OneEach' = OneEach /\ page' = page
  BY WebSteps DEF OneEach, DashNext, RelayStep, dashVars, webVars
<1>2. TypeOK /\ LogTypeOK
  BY DEF DashTypeOK, UsageTypeOK
<1>3. CASE UNCHANGED usageVars
  <2>1. UNCHANGED <<log, line, began, ended, pc, script>>
    BY <1>3 DEF usageVars, logVars, vars, storeVars, shellVars, localVars
  <2> QED
    BY <1>1, <2>1 DEF LoggedInv, ReportInv, ShellLogged, Begun, Starting, Ready, Finishes
<1>4. CASE page = "stats" /\ UsageNext
  BY <1>1, <1>2, <1>4, ReportStep DEF LoggedInv
<1>5. CASE page = "boards" /\ UNCHANGED logVars
  BY <1>1, <1>5 DEF LoggedInv, logVars
<1> QED
  BY <1>3, <1>4, <1>5, WebSteps DEF DashNext, RelayStep, dashVars

\* What the dashboard tells of the sessions is what took place.
THEOREM StatsAreTrue == DashSpec => []SessionsReported
<1>1. DashInit => LoggedInv
  BY ReportStart DEF DashInit, UsageInit, LogInit, LoggedInv
<1>2. DashTypeOK /\ LoggedInv => SessionsReported
  <2> SUFFICES ASSUME DashTypeOK, LoggedInv PROVE SessionsReported
    OBVIOUS
  <2>1. CASE page = "stats"
    BY <2>1 DEF LoggedInv, ReportInv, SessionsReported
  <2>2. CASE page # "stats"
    BY <2>2, ParseEmpty DEF LoggedInv, NoStats, SessionsReported
  <2> QED
    BY <2>1, <2>2
<1>3. DashTypeOK /\ LoggedInv /\ [DashNext]_dashVars => LoggedInv'
  BY LoggedStep
<1> QED
  BY <1>1, <1>2, <1>3, DashTypeCorrect, PTL DEF DashSpec

-----------------------------------------------------------------------------
(* Users are shown with their sessions *)

\* A shell that serves its user stays at its board until it stops serving.
LEMMA ServingStep ==
    ASSUME TypeOK, NEW s \in Shells, ShellActs(s), pc[s] \in Serving, pc'[s] \in Serving
    PROVE  \/ Exec(s) /\ UNCHANGED shellVars
           \/ UNCHANGED <<board, start>> /\ pc'[s] # "restart"
<1>1. pc \in [Shells -> {"idle"} \cup Acquiring \cup Serving \cup Leaving]
  BY DEF TypeOK, ShellTypeOK
<1>2. ASSUME NEW l, Goto(s, l) PROVE pc'[s] = l
  BY <1>1, <1>2 DEF Goto
<1>3. CASE Exec(s) /\ UNCHANGED shellVars
  BY <1>3
<1>4. ASSUME Connect(s) \/ LimitLocking(s) \/ LookSession(s) \/ LookLock(s) \/ Claim(s)
             \/ PopAvailable(s) \/ PopUnlocked(s) \/ GiveUp(s)
      PROVE  FALSE
  BY <1>4 DEF Connect, LimitLocking, LookSession, LookLock, Claim, PopAvailable, PopUnlocked,
              GiveUp, At, Serving
<1>5. ASSUME ReleaseTime(s) \/ ReleaseUser(s) \/ EndTime(s) \/ EndUser(s) PROVE FALSE
  BY <1>5 DEF ReleaseTime, ReleaseUser, CheckTime, CheckUser, EndTime, EndUser, At, Serving
<1>6. ASSUME Kill(s) \/ Disconnect(s) PROVE FALSE
  BY <1>2, <1>6 DEF Kill, End, Disconnect, Leave, Serving
<1>7. \A l : LoopHead(s, l) # "restart"
  BY DEF LoopHead
<1>8. CASE Restart(s) \/ Open(s)
  BY <1>2, <1>7, <1>8 DEF Restart, Open
<1>9. CASE ExpireTime(s) \/ ExpireUser(s)
  BY <1>2, <1>9 DEF ExpireTime, ExpireUser, CheckTime, CheckUser, Move
<1>10. CASE PingTime(s) \/ PingUser(s) \/ Wait(s)
  BY <1>2, <1>7, <1>10 DEF PingTime, PingUser, Wait, Move, Leave
<1> QED
  BY <1>3, <1>4, <1>5, <1>6, <1>8, <1>9, <1>10 DEF ShellActs, ShellStep

\* So an undisturbed session is the same one as long as it is undisturbed.
LEMMA SessionStays ==
    ASSUME TypeOK, CalmInv, [Next]_vars, NEW s \in calm, ~Starting(s), s \in calm'
    PROVE  board'[s] = board[s] /\ start'[s] = start[s] /\ ~Starting(s)'
<1>1. s \in Shells /\ Undisturbed(s) /\ pc[s] \in Serving
  BY DEF TypeOK, CalmInv, Undisturbed, Current
<1>2. ASSUME SameShell(s) PROVE board'[s] = board[s] /\ start'[s] = start[s] /\ ~Starting(s)'
  BY <1>2 DEF SameShell, Starting, Ready
<1>3. CASE UNCHANGED vars
  BY <1>2, <1>3 DEF vars, storeVars, shellVars, localVars, SameShell
<1>4. CASE Next
  <2>1. pc'[s] \in Serving
    BY <1>4 DEF Next, Observe, Current
  <2>2. ASSUME NEW t \in Shells, ShellActs(t)
        PROVE  board'[s] = board[s] /\ start'[s] = start[s] /\ ~Starting(s)'
    <3>1. CASE t # s
      BY <1>1, <1>2, <2>2, <3>1, OtherShell
    <3>2. CASE t = s /\ Exec(s) /\ UNCHANGED shellVars
      <4>1. pc[s] # "restart"
        BY <3>2 DEF Starting, Exec
      <4> QED
        BY <3>2, <4>1 DEF Starting, shellVars, localVars
    <3>3. CASE t = s /\ UNCHANGED <<board, start>> /\ pc'[s] # "restart"
      BY <3>3 DEF Starting
    <3> QED
      BY <1>1, <2>1, <2>2, <3>1, <3>2, <3>3, ServingStep
  <2>3. CASE \/ Tick \/ Expiry
             \/ \E k \in Checkers : CheckRuns(k) \/ CronActs(k)
             \/ \E t \in Testers : TestRuns(t) \/ AdminActs(t)
    BY <1>1, <1>2, <2>3, ElsewhereSame
  <2>4. ASSUME NEW t \in Shells, ShellRuns(t) \/ UserActs(t) PROVE ShellActs(t)
    BY <2>4 DEF ShellRuns, UserActs, ShellActs
  <2> QED
    BY <1>2, <1>4, <2>2, <2>3, <2>4 DEF Next
<1> QED
  BY <1>3, <1>4

\* s is in the answer with its session.
Shown(s) == report[board[s]] = Status("in_use_locked", UserOf[s], start[s])

\* What has been read of the board of s, when the worker is at it, is its session.
Halfway(s) ==
    /\ wpc \in {"sessStart", "lockUser", "lockTime", "unlocked"} => seen["sessUser"] = UserOf[s]
    /\ wpc \in {"lockUser", "lockTime", "unlocked"} => seen["sessStart"] = start[s]
    /\ wpc \in {"lockTime", "unlocked"} => seen["lockUser"] = UserOf[s]
    /\ wpc = "unlocked" => seen["lockTime"] = start[s]

\* The worker has still to come to the board of s, or is at it, or has been there.
Progress(s) ==
    /\ wpc \in StatusKeys => \/ board[s] \in wtodo
                             \/ board[s] = wboard /\ Halfway(s)
                             \/ board[s] # wboard /\ Shown(s)
    /\ wpc \in Summing => Shown(s)

KeptInv == /\ kept \subseteq {s \in calm : ~Starting(s)}
           /\ wpc \in {"idle"} \cup Parsing => kept = {}
           /\ wpc \in StatusKeys => wboard \notin wtodo
           /\ \A s \in kept : Progress(s)

LEMMA KeptRecorded ==
    ASSUME TypeOK, CalmInv, KeptInv, NEW s \in kept
    PROVE  Recorded(s) /\ board[s] \in Boards /\ UserOf[s] # Nil /\ start[s] # Nil
<1>1. s \in calm /\ ~Starting(s) /\ s \in Shells
  BY DEF KeptInv, TypeOK
<1>2. Undisturbed(s) /\ Recorded(s)
  BY <1>1 DEF CalmInv, Undisturbed
<1>3. board[s] \in Boards
  BY <1>1, <1>2 DEF Undisturbed, Current, TypeOK, ShellTypeOK
<1>4. UserOf[s] \in Users /\ start[s] \in Nat
  BY <1>1, ShellAssumption DEF TypeOK, ShellTypeOK
<1> QED
  BY <1>2, <1>3, <1>4, StoreAssumption

\* The relay goes on while the worker reads.
LEMMA KeptRelay ==
    ASSUME TypeOK, CalmInv, KeptInv, RelayStep
    PROVE  KeptInv'
<1>1. [Next]_vars
  BY UsageSteps DEF RelayStep
<1>2. UNCHANGED <<wpc, wboard, wtodo, seen, report>> /\ kept' = kept \cap calm'
  BY DEF RelayStep
<1>3. ASSUME NEW s \in kept'
      PROVE  s \in kept /\ board'[s] = board[s] /\ start'[s] = start[s] /\ ~Starting(s)'
  BY <1>1, <1>2, <1>3, SessionStays DEF KeptInv
<1>4. ASSUME NEW s \in kept' PROVE Progress(s)'
  BY <1>2, <1>3 DEF KeptInv, Progress, Halfway, Shown
<1>5. kept' \subseteq {s \in calm' : ~Starting(s)'}
  BY <1>2, <1>3
<1> QED
  BY <1>2, <1>4, <1>5 DEF KeptInv

\* Nothing of the relay changes while the worker reads.
LEMMA StillKept ==
    ASSUME UNCHANGED <<usageVars, kept>>, KeptInv
    PROVE  kept' \subseteq {s \in calm' : ~Starting(s)'}
BY DEF usageVars, vars, storeVars, shellVars, localVars, KeptInv, Starting, Ready

LEMMA KeptRequest ==
    ASSUME TypeOK, CalmInv, BoardsRequest
    PROVE  KeptInv'
<1>1. /\ NextOne(Boards, "hwStatus", "respond")
      /\ kept' = {s \in calm : ~Starting(s)}
      /\ UNCHANGED usageVars
  BY DEF BoardsRequest, WAt
<1>2. UNCHANGED <<board, calm, pc, script>>
  BY <1>1 DEF usageVars, vars, storeVars, shellVars, localVars
<1>3. \A s \in calm : board[s] \in Boards
  BY DEF CalmInv, Undisturbed, Current, TypeOK, ShellTypeOK
<1>4. kept' \subseteq {s \in calm' : ~Starting(s)'}
  BY <1>1, <1>2 DEF Starting, Ready
<1>5. CASE Boards = {}
  BY <1>1, <1>3, <1>4, <1>5 DEF KeptInv, NextOne, Parsing, StatusKeys
<1>6. ASSUME NEW b \in Boards, wpc' = "hwStatus", wboard' = b, wtodo' = Boards \ {b}
      PROVE  KeptInv'
  <2>1. \A s \in kept' : board'[s] \in wtodo' \/ board'[s] = wboard'
    BY <1>1, <1>2, <1>3, <1>6
  <2>2. ASSUME NEW s \in kept' PROVE Progress(s)'
    <3>1. wpc' \notin Summing /\ Halfway(s)'
      BY <1>6 DEF Summing, Halfway
    <3> QED
      BY <2>1, <3>1 DEF Progress
  <2> QED
    BY <1>4, <1>6, <2>2 DEF KeptInv, Parsing
<1> QED
  BY <1>1, <1>5, <1>6 DEF NextOne

\* One of the reads.
LEMMA KeptRead ==
    ASSUME TypeOK, CalmInv, WebTypeOK, KeptInv, ReadStatus,
           NEW k \in StatusKeys, NEW next \in StatusKeys, Read(k, next),
           next = "sessStart" => k = "sessUser",
           next = "lockUser" => k = "sessStart",
           next = "lockTime" => k = "lockUser",
           next = "unlocked" => k = "lockTime"
    PROVE  KeptInv'
<1>1. /\ wpc = k /\ wpc' = next /\ seen' = [seen EXCEPT ![k] = db[k][wboard]]
      /\ UNCHANGED <<wboard, wtodo, report, kept, usageVars>>
  BY DEF Read, WAt
<1>2. UNCHANGED <<board, start>>
  BY <1>1 DEF usageVars, vars, shellVars, localVars
<1>3. k \notin Summing /\ next \notin Summing /\ next \notin {"idle"} \cup Parsing
  BY DEF StatusKeys, Summing, Parsing
<1>4. seen \in [StatusKeys -> Values]
  BY DEF WebTypeOK
<1>5. ASSUME NEW s \in kept, board[s] = wboard, Halfway(s) PROVE Halfway(s)'
  <2>1. /\ db["sessUser"][wboard] = UserOf[s] /\ db["sessStart"][wboard] = start[s]
        /\ db["lockUser"][wboard] = UserOf[s] /\ db["lockTime"][wboard] = start[s]
    BY <1>5, KeptRecorded DEF Recorded
  <2>2. \A j \in StatusKeys : seen'[j] = IF j = k THEN db[k][wboard] ELSE seen[j]
    BY <1>1, <1>4
  <2>3. {"sessUser", "sessStart", "lockUser", "lockTime"} \subseteq StatusKeys
    BY DEF StatusKeys
  <2>4. CASE next \in {"hwStatus", "available", "sessUser"}
    BY <1>1, <2>4 DEF Halfway
  <2>5. CASE next = "sessStart"
    BY <1>1, <2>1, <2>2, <2>3, <2>5 DEF Halfway
  <2>6. CASE next = "lockUser"
    BY <1>1, <1>2, <1>5, <2>1, <2>2, <2>3, <2>6 DEF Halfway
  <2>7. CASE next = "lockTime"
    BY <1>1, <1>2, <1>5, <2>1, <2>2, <2>3, <2>7 DEF Halfway
  <2>8. CASE next = "unlocked"
    BY <1>1, <1>2, <1>5, <2>1, <2>2, <2>3, <2>8 DEF Halfway
  <2> QED
    BY <2>4, <2>5, <2>6, <2>7, <2>8 DEF StatusKeys
<1>6. ASSUME NEW s \in kept PROVE Progress(s)'
  <2>1. Progress(s)
    BY DEF KeptInv
  <2>2. Shown(s) => Shown(s)'
    BY <1>1, <1>2 DEF Shown
  <2> QED
    BY <1>1, <1>2, <1>3, <1>5, <2>1, <2>2 DEF Progress
<1>7. kept' \subseteq {s \in calm' : ~Starting(s)'}
  BY <1>1, StillKept
<1> QED
  BY <1>1, <1>3, <1>6, <1>7 DEF KeptInv

\* The worker reports the status of its board: if an undisturbed session is on
\* it, that is what it reports.
LEMMA KeptReport ==
    ASSUME TypeOK, CalmInv, WebTypeOK, KeptInv, wpc \in StatusKeys,
           NEW st, NEW u, NEW t, Report(st, u, t), UNCHANGED usageVars,
           \A s \in kept : board[s] = wboard /\ Halfway(s) =>
               st = "in_use_locked" /\ u = UserOf[s] /\ t = start[s]
    PROVE  KeptInv'
<1>1. /\ report' = [report EXCEPT ![wboard] = Status(st, u, t)]
      /\ NextOne(wtodo, "hwStatus", "sumAvailable")
      /\ UNCHANGED kept
  BY DEF Report
<1>2. UNCHANGED <<board, start>> /\ wboard \notin wtodo
  BY DEF usageVars, vars, shellVars, localVars, KeptInv
<1>3. kept' \subseteq {s \in calm' : ~Starting(s)'}
  BY <1>1, StillKept
<1>4. DOMAIN report = Boards
  BY DEF WebTypeOK
<1>5. ASSUME NEW s \in kept PROVE board[s] \in wtodo \/ Shown(s)'
  <2>1. Progress(s) /\ board[s] \in Boards
    BY KeptRecorded DEF KeptInv
  <2>2. CASE board[s] = wboard /\ Halfway(s)
    BY <1>1, <1>2, <1>4, <2>1, <2>2 DEF Shown
  <2>3. CASE board[s] # wboard /\ Shown(s)
    BY <1>1, <1>2, <1>4, <2>1, <2>3 DEF Shown
  <2> QED
    BY <2>1, <2>2, <2>3 DEF Progress
<1>6. CASE wtodo = {} /\ wpc' = "sumAvailable" /\ wboard' = Nil /\ wtodo' = {}
  <2>1. wpc' \notin StatusKeys /\ wpc' \notin {"idle"} \cup Parsing
    BY <1>6 DEF StatusKeys, Parsing
  <2>2. \A s \in kept' : Shown(s)'
    BY <1>1, <1>5, <1>6
  <2> QED
    BY <1>3, <2>1, <2>2 DEF KeptInv, Progress
<1>7. ASSUME NEW b \in wtodo, wpc' = "hwStatus", wboard' = b, wtodo' = wtodo \ {b}
      PROVE  KeptInv'
  <2>1. wpc' \notin Summing /\ wpc' \notin {"idle"} \cup Parsing /\ wboard' \notin wtodo'
    BY <1>7 DEF Summing, Parsing
  <2>2. ASSUME NEW s \in kept' PROVE Progress(s)'
    <3>1. Halfway(s)'
      BY <1>7 DEF Halfway
    <3>2. board[s] \in wtodo \/ Shown(s)'
      BY <1>1, <1>5
    <3> QED
      BY <1>2, <1>7, <2>1, <3>1, <3>2 DEF Progress
  <2> QED
    BY <1>3, <2>1, <2>2 DEF KeptInv
<1> QED
  BY <1>1, <1>6, <1>7 DEF NextOne

LEMMA KeptStatus ==
    ASSUME TypeOK, CalmInv, WebTypeOK, KeptInv, ReadStatus
    PROVE  KeptInv'
<1>1. {"hwStatus", "available", "sessUser", "sessStart", "lockUser", "lockTime", "unlocked"}
          = StatusKeys
  BY DEF StatusKeys
<1>2. CASE \/ Read("hwStatus", "available") \/ Read("available", "sessUser")
           \/ Read("sessUser", "sessStart") \/ Read("sessStart", "lockUser")
           \/ Read("lockUser", "lockTime") \/ Read("lockTime", "unlocked")
  BY <1>1, <1>2, KeptRead
<1>3. ASSUME WAt("available"), db["available"][wboard] = In, Report("available", Nil, Nil)
      PROVE  KeptInv'
  <2>1. \A s \in kept : board[s] # wboard
    BY <1>3, KeptRecorded, StoreAssumption DEF Recorded
  <2> QED
    BY <1>1, <1>3, <2>1, KeptReport DEF WAt
<1>4. ASSUME WAt("sessStart"), ~Session, NEW st, Report(st, Nil, Nil) PROVE KeptInv'
  <2>1. \A s \in kept : ~(board[s] = wboard /\ Halfway(s))
    BY <1>4, KeptRecorded DEF Recorded, Halfway, WAt, Session
  <2> QED
    BY <1>1, <1>4, <2>1, KeptReport DEF WAt
<1>5. ASSUME WAt("unlocked"), NEW st, st = IF Unlocked THEN "in_use_unlocked" ELSE "in_use_locked",
             Report(st, seen["sessUser"], seen["sessStart"])
      PROVE  KeptInv'
  <2>1. \A s \in kept : board[s] = wboard /\ Halfway(s) =>
            st = "in_use_locked" /\ seen["sessUser"] = UserOf[s] /\ seen["sessStart"] = start[s]
    BY <1>5, KeptRecorded DEF Halfway, WAt, Unlocked
  <2> QED
    BY <1>1, <1>5, <2>1, KeptReport DEF WAt
<1> QED
  BY <1>2, <1>3, <1>4, <1>5 DEF ReadStatus, ReadAvailable, ReadSessStart, ReadUnlocked

\* The summary and the statistics leave the report alone until it is sent.
LEMMA KeptSummary ==
    ASSUME KeptInv, SumAvailable \/ SumUnlocked \/ SumFailed \/ SumWithdrawn
    PROVE  KeptInv'
<1>1. wpc \in Summing /\ wpc' \in Summing /\ UNCHANGED <<report, kept, usageVars>>
  BY DEF SumAvailable, SumUnlocked, SumFailed, SumWithdrawn, WAt, NextOne, Summing
<1>2. UNCHANGED <<board, start>>
  BY <1>1 DEF usageVars, vars, shellVars, localVars
<1>3. \A l \in Summing : l \notin StatusKeys /\ l \notin {"idle"} \cup Parsing
  BY DEF Summing, StatusKeys, Parsing
<1>4. \A s \in kept' : Progress(s)'
  BY <1>1, <1>2, <1>3 DEF KeptInv, Progress, Shown
<1>5. kept' \subseteq {s \in calm' : ~Starting(s)'}
  BY <1>1, StillKept
<1> QED
  BY <1>1, <1>3, <1>4, <1>5 DEF KeptInv

LEMMA KeptStep ==
    ASSUME TypeOK, CalmInv, WebTypeOK, KeptInv, [DashNext]_dashVars
    PROVE  KeptInv'
<1>1. CASE RelayStep
  BY <1>1, KeptRelay
<1>2. CASE ReadStatus
  BY <1>2, KeptStatus
<1>3. CASE BoardsRequest
  BY <1>3, KeptRequest
<1>4. CASE SumAvailable \/ SumUnlocked \/ SumFailed \/ SumWithdrawn
  BY <1>4, KeptSummary
<1>5. ASSUME kept' = {}, wpc' \notin StatusKeys PROVE KeptInv'
  BY <1>5 DEF KeptInv
<1>6. CASE BoardsRespond
  BY <1>5, <1>6 DEF BoardsRespond, StatusKeys
<1>7. CASE StatsRequest \/ Stat \/ ParseLog \/ StatsAnswer
  <2>1. wpc \in {"idle"} \cup Parsing /\ UNCHANGED kept
    BY <1>7 DEF StatsRequest, Stat, ParseLog, StatsAnswer, SAt, Parsing, boardsVars
  <2>2. wpc' \notin StatusKeys
    BY <1>7 DEF StatsRequest, Stat, ParseLog, StatsAnswer, StatusKeys
  <2> QED
    BY <1>5, <2>1, <2>2 DEF KeptInv
<1>8. CASE UNCHANGED dashVars
  <2>1. UNCHANGED <<wpc, wboard, wtodo, seen, report, kept, board, start, usageVars>>
    BY <1>8 DEF dashVars, webVars, boardsVars, usageVars, vars, shellVars, localVars
  <2>2. kept' \subseteq {s \in calm' : ~Starting(s)'}
    BY <2>1, StillKept
  <2>3. \A s \in kept' : Progress(s)'
    BY <2>1 DEF KeptInv, Progress, Halfway, Shown
  <2> QED
    BY <2>1, <2>2, <2>3 DEF KeptInv
<1> QED
  BY <1>1, <1>2, <1>3, <1>4, <1>6, <1>7, <1>8 DEF DashNext, WebStep

\* Whatever the relay does while the dashboard asks, for all numbers of users and
\* boards: a user whose session nothing disturbs is shown with it.
THEOREM UsersAreShown == DashSpec => []UsersShown
<1>1. DashInit => KeptInv
  BY DEF DashInit, WebInit, KeptInv, Parsing, StatusKeys
<1>2. TypeOK /\ CalmInv /\ DashTypeOK /\ KeptInv /\ [DashNext]_dashVars => KeptInv'
  BY KeptStep DEF DashTypeOK
<1>3. KeptInv => UsersShown
  BY DEF KeptInv, Progress, Shown, UsersShown, Summing
<1> QED
  BY <1>1, <1>2, <1>3, RelayInvariants, DashTypeCorrect, PTL DEF DashSpec

-----------------------------------------------------------------------------
(* Boards are shown as they are *)

\* The answer tells what board b is, if it is free or failed its test.
ShownRight(b) ==
    /\ Pooled(b) => report[b].status = "available"
    /\ db["hwStatus"][b] = Fail /\ Vacant(b) => report[b].status = "hwtest_failed"

\* What has been read of b so far is still so.
SeenRight(b) ==
    /\ wpc # "hwStatus" => seen["hwStatus"] = db["hwStatus"][b]
    /\ wpc \notin {"hwStatus", "available"} => db["available"][b] = Nil
    /\ wpc = "sessStart" => seen["sessUser"] = db["sessUser"][b]
    /\ wpc \in {"lockUser", "lockTime", "unlocked"} => db["sessUser"][b] # Nil

\* b belongs to the card of the failed boards.
Counted(b) == db["hwStatus"][b] = Fail /\ db["available"][b] = Nil

Counting == {"failStatus", "failPool", "respond"}

Noted(b) ==
    /\ wpc \in StatusKeys => \/ b \in wtodo
                             \/ b = wboard /\ SeenRight(b)
                             \/ b # wboard /\ ShownRight(b)
    /\ wpc \in Summing => ShownRight(b)
    /\ wpc \in Counting => (b \in counts.failed <=> Counted(b) /\ b \notin wtodo /\ b # wboard)
    /\ wpc = "failPool" /\ b = wboard => db["hwStatus"][b] = Fail

SteadyInv ==
    /\ wpc \in StatusKeys \cup {"failStatus", "failPool"} => wboard \notin wtodo
    /\ wpc = "respond" => wtodo = {} /\ wboard = Nil
    /\ wpc \notin Counting => counts.failed = {}
    /\ wpc \in {"idle"} \cup Parsing => steady = {}
    /\ \A b \in steady : Noted(b)

LEMMA SteadyRelay ==
    ASSUME SteadyInv, RelayStep
    PROVE  SteadyInv'
<1>1. /\ UNCHANGED <<wpc, wboard, wtodo, seen, report, counts>>
      /\ steady' = {b \in steady : Same(b)}
  BY DEF RelayStep
<1>2. ASSUME NEW b \in steady'
      PROVE  /\ b \in steady
             /\ \A k \in {"hwStatus", "available", "unlocked", "lockUser", "sessUser"} :
                    db'[k][b] = db[k][b]
  BY <1>1, <1>2 DEF Same, StatusKeys
<1>3. ASSUME NEW b \in steady' PROVE Noted(b)'
  BY <1>1, <1>2 DEF SteadyInv, Noted, ShownRight, SeenRight, Counted, Pooled, Vacant,
                    PoolKeys, UserKeys
<1> QED
  BY <1>1, <1>3 DEF SteadyInv

LEMMA SteadyRequest ==
    ASSUME WebTypeOK, SteadyInv, BoardsRequest
    PROVE  SteadyInv'
<1>1. /\ NextOne(Boards, "hwStatus", "respond") /\ counts' = counts /\ counts.failed = {}
      /\ steady' = Boards
  BY DEF BoardsRequest, WAt, SteadyInv, Counting
<1>2. CASE Boards = {}
  BY <1>1, <1>2 DEF SteadyInv, NextOne, Counting, Parsing, StatusKeys
<1>3. ASSUME NEW b \in Boards, wpc' = "hwStatus", wboard' = b, wtodo' = Boards \ {b}
      PROVE  SteadyInv'
  <2>1. wpc' \in StatusKeys /\ wpc' \notin Summing \cup Counting /\ wpc' \notin {"idle"} \cup Parsing
    BY <1>3 DEF Summing, Counting, Parsing, StatusKeys
  <2>2. ASSUME NEW c \in steady' PROVE Noted(c)'
    <3>1. c \in wtodo' \/ c = wboard'
      BY <1>1, <1>3
    <3> QED
      BY <1>3, <2>1, <3>1 DEF Noted, SeenRight
  <2> QED
    BY <1>1, <1>3, <2>1, <2>2 DEF SteadyInv
<1> QED
  BY <1>1, <1>2, <1>3 DEF NextOne

\* The keys are as they were, so what is right stays so.
LEMMA SteadySame ==
    ASSUME UNCHANGED <<usageVars, report>>, NEW b
    PROVE  (ShownRight(b)' <=> ShownRight(b)) /\ (Counted(b)' <=> Counted(b)) /\ db' = db
BY DEF usageVars, vars, storeVars, ShownRight, Counted, Pooled, Vacant

LEMMA SteadyRead ==
    ASSUME WebTypeOK, SteadyInv, NEW k \in StatusKeys, NEW next \in StatusKeys, Read(k, next),
           next = "available" => k = "hwStatus",
           next = "sessUser" => k = "available" /\ db["available"][wboard] = Nil,
           next = "sessStart" => k = "sessUser",
           next = "lockUser" => k = "sessStart" /\ seen["sessUser"] # Nil,
           next = "lockTime" => k = "lockUser",
           next = "unlocked" => k = "lockTime",
           next # "hwStatus"
    PROVE  SteadyInv'
<1>1. /\ wpc = k /\ wpc' = next /\ seen' = [seen EXCEPT ![k] = db[k][wboard]]
      /\ UNCHANGED <<wboard, wtodo, report, counts, steady, usageVars>>
  BY DEF Read, WAt
<1>2. /\ k \notin Summing \cup Counting /\ next \notin Summing \cup Counting
      /\ next \notin {"idle"} \cup Parsing
  BY DEF StatusKeys, Summing, Counting, Parsing
<1>3. \A j \in StatusKeys : seen'[j] = IF j = k THEN db[k][wboard] ELSE seen[j]
  BY <1>1 DEF WebTypeOK
<1>4. {"hwStatus", "available", "sessUser", "sessStart", "lockUser", "lockTime", "unlocked"}
          = StatusKeys
  BY DEF StatusKeys
<1>5. db' = db
  BY <1>1, SteadySame
<1>6. ASSUME SeenRight(wboard) PROVE SeenRight(wboard)'
  <2>1. next # "hwStatus" => seen'["hwStatus"] = db["hwStatus"][wboard]
    BY <1>1, <1>3, <1>4, <1>6 DEF SeenRight
  <2>2. next \notin {"hwStatus", "available"} => db["available"][wboard] = Nil
    BY <1>1, <1>4, <1>6 DEF SeenRight
  <2>3. next = "sessStart" => seen'["sessUser"] = db["sessUser"][wboard]
    BY <1>1, <1>3, <1>4
  <2>4. next \in {"lockUser", "lockTime", "unlocked"} => db["sessUser"][wboard] # Nil
    BY <1>1, <1>4, <1>6 DEF SeenRight
  <2> QED
    BY <1>1, <1>5, <2>1, <2>2, <2>3, <2>4 DEF SeenRight
<1>7. ASSUME NEW b \in steady PROVE Noted(b)'
  <2>1. Noted(b) /\ (ShownRight(b)' <=> ShownRight(b))
    BY <1>1, SteadySame DEF SteadyInv
  <2> QED
    BY <1>1, <1>2, <1>6, <2>1 DEF Noted, Counting
<1> QED
  BY <1>1, <1>2, <1>7 DEF SteadyInv, Counting

\* The worker reports the status of its board.
LEMMA SteadyReport ==
    ASSUME WebTypeOK, SteadyInv, wpc \in StatusKeys,
           NEW st, NEW u, NEW t, Report(st, u, t), UNCHANGED usageVars,
           SeenRight(wboard) => /\ Pooled(wboard) => st = "available"
                                /\ db["hwStatus"][wboard] = Fail /\ Vacant(wboard)
                                       => st = "hwtest_failed"
    PROVE  SteadyInv'
<1>1. /\ report' = [report EXCEPT ![wboard] = Status(st, u, t)]
      /\ NextOne(wtodo, "hwStatus", "sumAvailable")
      /\ UNCHANGED <<counts, steady>>
  BY DEF Report
<1>2. wboard \notin wtodo /\ wpc \notin Counting /\ counts.failed = {}
  BY DEF SteadyInv, StatusKeys, Counting
<1>3. /\ DOMAIN report = Boards /\ steady \subseteq Boards /\ Status(st, u, t).status = st
      /\ db' = db
  BY SteadySame DEF WebTypeOK, Status, usageVars, vars, storeVars
<1>4. ASSUME NEW b \in steady PROVE b \in wtodo \/ ShownRight(b)'
  <2>1. Noted(b) /\ b \in Boards
    BY <1>3 DEF SteadyInv
  <2>2. CASE b = wboard /\ SeenRight(b)
    BY <1>1, <1>3, <2>1, <2>2 DEF ShownRight, Pooled, Vacant
  <2>3. CASE b # wboard /\ ShownRight(b)
    BY <1>1, <1>3, <2>1, <2>3 DEF ShownRight, Pooled, Vacant
  <2> QED
    BY <2>1, <2>2, <2>3 DEF Noted
<1>5. CASE wtodo = {} /\ wpc' = "sumAvailable" /\ wboard' = Nil /\ wtodo' = {}
  <2>1. wpc' \notin StatusKeys \cup Counting /\ wpc' \notin {"idle"} \cup Parsing
    BY <1>5 DEF StatusKeys, Counting, Parsing
  <2>2. \A b \in steady' : Noted(b)'
    BY <1>1, <1>4, <1>5, <2>1 DEF Noted, Counting
  <2> QED
    BY <1>1, <1>2, <2>1, <2>2 DEF SteadyInv, Counting
<1>6. ASSUME NEW c \in wtodo, wpc' = "hwStatus", wboard' = c, wtodo' = wtodo \ {c}
      PROVE  SteadyInv'
  <2>1. wpc' \notin Summing \cup Counting /\ wpc' \notin {"idle"} \cup Parsing /\ wboard' \notin wtodo'
    BY <1>6 DEF Summing, Counting, Parsing
  <2>2. ASSUME NEW b \in steady' PROVE Noted(b)'
    <3>1. SeenRight(wboard)'
      BY <1>6 DEF SeenRight
    <3>2. b \in wtodo \/ ShownRight(b)'
      BY <1>1, <1>4
    <3> QED
      BY <1>6, <2>1, <3>1, <3>2 DEF Noted, Counting
  <2> QED
    BY <1>1, <1>2, <2>1, <2>2 DEF SteadyInv, Counting
<1> QED
  BY <1>1, <1>5, <1>6 DEF NextOne

LEMMA SteadyStatus ==
    ASSUME TypeOK, WebTypeOK, SteadyInv, ReadStatus
    PROVE  SteadyInv'
<1>1. {"hwStatus", "available", "sessUser", "sessStart", "lockUser", "lockTime", "unlocked"}
          = StatusKeys
  BY DEF StatusKeys
<1>2. In # Nil /\ Fail # Nil
  BY StoreAssumption
<1>3. CASE \/ Read("hwStatus", "available")
           \/ Read("available", "sessUser") /\ db["available"][wboard] = Nil
           \/ Read("sessUser", "sessStart")
           \/ Read("sessStart", "lockUser") /\ Session
           \/ Read("lockUser", "lockTime") \/ Read("lockTime", "unlocked")
  BY <1>1, <1>3, SteadyRead DEF Session
<1>4. ASSUME WAt("available"), db["available"][wboard] = In, Report("available", Nil, Nil)
      PROVE  SteadyInv'
  <2>1. ~Vacant(wboard)
    BY <1>2, <1>4 DEF Vacant, PoolKeys
  <2> QED
    BY <1>1, <1>4, <2>1, SteadyReport DEF WAt
<1>5. ASSUME WAt("sessStart"), ~Session, NEW st, Report(st, Nil, Nil),
             st = IF seen["hwStatus"] = Fail THEN "hwtest_failed" ELSE "available"
      PROVE  SteadyInv'
  <2>1. wpc = "sessStart"
    BY <1>5 DEF WAt
  <2>2. SeenRight(wboard) => /\ ~Pooled(wboard)
                             /\ db["hwStatus"][wboard] = Fail => st = "hwtest_failed"
    BY <1>2, <1>5, <2>1 DEF SeenRight, Pooled
  <2> QED
    BY <1>1, <1>5, <2>1, <2>2, SteadyReport DEF WAt
<1>6. ASSUME WAt("unlocked"), NEW st, Report(st, seen["sessUser"], seen["sessStart"])
      PROVE  SteadyInv'
  <2>1. wpc = "unlocked"
    BY <1>6 DEF WAt
  <2>2. SeenRight(wboard) => ~Pooled(wboard) /\ ~Vacant(wboard)
    BY <1>2, <2>1 DEF SeenRight, Pooled, Vacant, UserKeys
  <2> QED
    BY <1>1, <1>6, <2>1, <2>2, SteadyReport DEF WAt
<1> QED
  BY <1>3, <1>4, <1>5, <1>6 DEF ReadStatus, ReadAvailable, ReadSessStart, ReadUnlocked

\* The worker goes on to count the next failed board, or is done: board b has
\* been counted if it belongs there.
LEMMA SteadyNext ==
    ASSUME NEW rest, NextOne(rest, "failStatus", "respond"), Nil \notin Boards, steady' \subseteq Boards,
           \A b \in steady' : /\ ShownRight(b)'
                              /\ b \in counts.failed' <=> Counted(b)' /\ b \notin rest
    PROVE  SteadyInv'
<1>1. /\ wpc' \in Summing \cap Counting /\ wpc' \notin StatusKeys /\ wpc' # "failPool"
      /\ wpc' \notin {"idle"} \cup Parsing
  BY DEF NextOne, Summing, Counting, StatusKeys, Parsing
<1>2. ASSUME rest = {}, wpc' = "respond", wboard' = Nil, wtodo' = {} PROVE SteadyInv'
  BY <1>1, <1>2 DEF SteadyInv, Noted
<1>3. ASSUME NEW c \in rest, wpc' = "failStatus", wboard' = c, wtodo' = rest \ {c}
      PROVE  SteadyInv'
  BY <1>1, <1>3 DEF SteadyInv, Noted
<1> QED
  BY <1>2, <1>3 DEF NextOne

LEMMA SteadySummary ==
    ASSUME WebTypeOK, SteadyInv, SumAvailable \/ SumUnlocked \/ SumFailed \/ SumWithdrawn
    PROVE  SteadyInv'
<1>1. Nil \notin Boards /\ steady \subseteq Boards /\ wtodo \subseteq Boards
      /\ counts \in [{"available", "unlocked", "failed"} -> SUBSET Boards]
  BY RelayAssumption DEF WebTypeOK
<1>2. UNCHANGED <<usageVars, report, steady>> /\ wpc \in Summing
  BY DEF SumAvailable, SumUnlocked, SumFailed, SumWithdrawn, WAt, Summing
<1>3. \A b \in steady : /\ ShownRight(b) /\ ShownRight(b)'
                        /\ Counted(b)' <=> Counted(b)
                        /\ Noted(b)
  BY <1>2, SteadySame DEF SteadyInv, Noted
<1>4. CASE SumAvailable
  <2>1. wpc' = "sumUnlocked" /\ counts'.failed = {}
    BY <1>1, <1>4 DEF SumAvailable, WAt, SteadyInv, Counting
  <2>2. wpc' \in Summing /\ wpc' \notin StatusKeys \cup Counting /\ wpc' \notin {"idle"} \cup Parsing
    BY <2>1 DEF Summing, StatusKeys, Counting, Parsing
  <2> QED
    BY <1>2, <1>3, <2>1, <2>2 DEF SteadyInv, Noted, Counting
<1>5. CASE SumUnlocked
  <2>1. counts'.failed = {} /\ NextOne(Boards, "failStatus", "respond")
    BY <1>1, <1>5 DEF SumUnlocked, WAt, SteadyInv, Counting
  <2> QED
    BY <1>1, <1>2, <1>3, <2>1, SteadyNext
<1>6. CASE SumFailed
  <2>1. wpc = "failStatus" /\ counts' = counts /\ wpc \in Counting /\ wboard \notin wtodo
    BY <1>6 DEF SumFailed, WAt, Counting, SteadyInv
  <2>2. CASE db["hwStatus"][wboard] = Fail /\ wpc' = "failPool" /\ UNCHANGED <<wboard, wtodo, seen>>
    <3>1. wpc' \in Summing \cap Counting /\ wpc' \notin StatusKeys /\ wpc' \notin {"idle"} \cup Parsing
      BY <2>2 DEF Summing, Counting, StatusKeys, Parsing
    <3>2. db' = db
      BY <1>2, SteadySame
    <3>3. \A b \in steady' : Noted(b)'
      BY <1>2, <1>3, <2>1, <2>2, <3>1, <3>2 DEF Noted
    <3> QED
      BY <2>1, <2>2, <3>1, <3>3 DEF SteadyInv
  <2>3. CASE db["hwStatus"][wboard] # Fail /\ NextOne(wtodo, "failStatus", "respond")
    <3>1. ASSUME NEW b \in steady' PROVE b \in counts.failed' <=> Counted(b)' /\ b \notin wtodo
      BY <1>2, <1>3, <2>1, <2>3, <3>1 DEF Noted, Counted
    <3> QED
      BY <1>1, <1>2, <1>3, <2>3, <3>1, SteadyNext
  <2> QED
    BY <1>6, <2>2, <2>3 DEF SumFailed
<1>7. CASE SumWithdrawn
  <2>1. /\ wpc = "failPool" /\ wpc \in Counting /\ wboard \notin wtodo
        /\ NextOne(wtodo, "failStatus", "respond")
        /\ counts'.failed = IF db["available"][wboard] = Nil THEN counts.failed \cup {wboard}
                            ELSE counts.failed
    BY <1>1, <1>7 DEF SumWithdrawn, WAt, Counting, SteadyInv
  <2>2. ASSUME NEW b \in steady' PROVE b \in counts.failed' <=> Counted(b)' /\ b \notin wtodo
    BY <1>2, <1>3, <2>1, <2>2 DEF Noted, Counted
  <2> QED
    BY <1>1, <1>2, <1>3, <2>1, <2>2, SteadyNext
<1> QED
  BY <1>4, <1>5, <1>6, <1>7

LEMMA SteadyStep ==
    ASSUME TypeOK, WebTypeOK, SteadyInv, [DashNext]_dashVars
    PROVE  SteadyInv'
<1>1. CASE RelayStep
  BY <1>1, SteadyRelay
<1>2. CASE ReadStatus
  BY <1>2, SteadyStatus
<1>3. CASE BoardsRequest
  BY <1>3, SteadyRequest
<1>4. CASE SumAvailable \/ SumUnlocked \/ SumFailed \/ SumWithdrawn
  BY <1>4, SteadySummary
<1>5. CASE BoardsRespond
  <2>1. wpc' = "idle" /\ counts'.failed = {} /\ steady' = {}
    BY <1>5 DEF BoardsRespond, NoCounts
  <2> QED
    BY <2>1 DEF SteadyInv, StatusKeys, Counting
<1>6. CASE StatsRequest \/ Stat \/ ParseLog \/ StatsAnswer
  <2>1. /\ wpc \in {"idle"} \cup Parsing /\ UNCHANGED <<steady, counts>>
        /\ wpc' \in {"idle"} \cup Parsing
    BY <1>6 DEF StatsRequest, Stat, ParseLog, StatsAnswer, SAt, Parsing, boardsVars
  <2>2. wpc \notin Counting /\ wpc' \notin Counting \cup StatusKeys
    BY <2>1 DEF Parsing, Counting, StatusKeys
  <2> QED
    BY <2>1, <2>2 DEF SteadyInv, Counting
<1>7. CASE UNCHANGED dashVars
  <2>1. UNCHANGED <<wpc, wboard, wtodo, seen, report, counts, steady, usageVars>>
    BY <1>7 DEF dashVars, webVars, boardsVars
  <2>2. ASSUME NEW b \in steady PROVE Noted(b)'
    <3>1. Noted(b) /\ (ShownRight(b)' <=> ShownRight(b)) /\ (Counted(b)' <=> Counted(b)) /\ db' = db
      BY <2>1, SteadySame DEF SteadyInv
    <3> QED
      BY <2>1, <3>1 DEF Noted, SeenRight
  <2> QED
    BY <2>1, <2>2 DEF SteadyInv
<1> QED
  BY <1>1, <1>2, <1>3, <1>4, <1>5, <1>6, <1>7 DEF DashNext, WebStep

\* However the relay goes on with the other boards: a board nothing has happened
\* to is shown as what it is, and counted.
THEOREM BoardsAreShown == DashSpec => []BoardsShown
<1>1. DashInit => SteadyInv
  BY DEF DashInit, WebInit, NoCounts, SteadyInv, StatusKeys, Counting
<1>2. DashTypeOK /\ SteadyInv /\ [DashNext]_dashVars => SteadyInv'
  BY SteadyStep DEF DashTypeOK, UsageTypeOK
<1>3. DashTypeOK /\ SteadyInv => BoardsShown
  <2> SUFFICES ASSUME DashTypeOK, SteadyInv, wpc = "respond" PROVE BoardsShown
    BY DEF BoardsShown
  <2>1. wpc \in Summing \cap Counting /\ wtodo = {} /\ wboard = Nil
    BY DEF Summing, Counting, SteadyInv
  <2>2. \A b \in steady : ShownRight(b) /\ (b \in counts.failed <=> Counted(b) /\ b # wboard)
    BY <2>1 DEF SteadyInv, Noted
  <2>3. counts.failed \subseteq Boards /\ Nil \notin Boards
    BY RelayAssumption DEF DashTypeOK, WebTypeOK
  <2>4. steady = Boards => counts.failed = {b \in Boards : Counted(b)}
    BY <2>1, <2>2, <2>3
  <2> QED
    BY <2>2, <2>4 DEF BoardsShown, ShownRight, Counted
<1> QED
  BY <1>1, <1>2, <1>3, DashTypeCorrect, PTL DEF DashSpec
====
