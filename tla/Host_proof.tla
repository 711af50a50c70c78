---- MODULE Host_proof ----
(***************************************************************************)
(* Proofs about the board hosts, for any number of hosts, ports, restarts  *)
(* and moves: the types, that an attach event never costs a running        *)
(* container, and that a board that was pulled out leaves nothing behind,  *)
(* not even when the relay is restarted again and again.                   *)
(***************************************************************************)
EXTENDS Outage, TLAPS

\* The keys that make up the registration of a board.
Listed == {"member", "server", "port"}

Restarting(h) == \E r \in Restarts : rpc[r] = "start" /\ rhost[r] = h

\* w has still to write that, and to delete the key k.
Ahead(w, write) == \E i \in DOMAIN script[w] : script[w][i] = write
Adds(w) == \E i \in DOMAIN script[w] : script[w][i].val # Nil

\* A detach event of h that will be looked at.
Pending(h) == \/ events[h]["detach"] > 0
              \/ \E i \in DOMAIN spool[h] : spool[h][i] = "detach"
              \/ job[h] \in {"devices", "kill"}

\* What holds whatever happens: a clash is remembered, the relay only deletes, and
\* register.py lives in a container that runs.
ClashInv == Clashes => clash
BasicInv == /\ ~Adds(Checker)
            /\ \A h \in Hosts :
                 /\ job[h] = "run" => cont[h] = "none"
                 /\ script[Register(h)] # <<>> => cont[h] = "running"

\* boardattach.py has seen that no container runs, and only a restart starts one.
KeptInv == \A h \in Hosts : job[h] \in {"nodes", "rm"} => cont[h] # "running"

\* The container is there for whoever has started it and for whoever registers it.
WorkInv == \A h \in Hosts :
    /\ job[h] \in {"port", "cron", "reset"} => cont[h] = "running"
    /\ Adds(Worker(h)) => job[h] = "writing" /\ cont[h] = "running"
RestInv == \A r \in Restarts :
    /\ rpc[r] = "start" => cont[rhost[r]] = "stopped"
    /\ rpc[r] \in {"port", "cron", "set"} => cont[rhost[r]] = "running"

\* A container that has lost a device has a detach event coming; a registration
\* has a container, or is about to be deleted.
LeaveInv == \A h \in Hosts : cont[h] = "running" /\ nodes[h] # Both => Pending(h)
Behind(h, k) == \/ cont[h] = "running"
                \/ Restarting(h)
                \/ Ahead(Worker(h), Del(k))
ListInv == \A k \in Listed : db[k] # Nil => \E h \in Hosts : Behind(h, k)

Undisturbed == ~clash /\ reloads = Reloadable

HostInv == /\ TypeOK
           /\ ClashInv
           /\ BasicInv
           /\ ~clash => KeptInv
           /\ Undisturbed => WorkInv /\ RestInv /\ LeaveInv /\ ListInv

-----------------------------------------------------------------------------
(* Type correctness. *)

LEMMA KeyTypes ==
    /\ KeyType("server") = {Nil} \cup Hosts
    /\ KeyType("port") = {Nil} \cup Ports
    /\ \A k \in Keys \ {"server", "port"} : KeyType(k) = {Nil, In}
    /\ \A k \in Keys : Nil \in KeyType(k) /\ KeyType(k) \subseteq Values
BY DEF KeyType, Keys, Values

LEMMA PutType ==
    ASSUME NEW k \in Keys, NEW v \in KeyType(k)
    PROVE  Put(k, v) \in Writes
BY KeyTypes DEF Put, Writes

\* What the programs write.
LEMMA ScriptTypes ==
    ASSUME NEW h \in Hosts, NEW p \in Ports \cup {Nil}
    PROVE  /\ Attached(h, p) \in Seq(Writes)
           /\ Registered(h, p) \in Seq(Writes)
           /\ Detached \in Seq(Writes)
           /\ Removed \in Seq(Writes)
           /\ RemovedLost \in Seq(Writes)
<1>1. \A k \in Keys : Del(k) \in Writes
  BY KeyTypes, PutType DEF Del
<1>2. \A k \in Keys \ {"server", "port"} : Put(k, In) \in Writes
  BY KeyTypes, PutType
<1>3. Put("server", h) \in Writes /\ Put("port", p) \in Writes
  BY KeyTypes, PutType DEF Keys
<1>4. Detached \in Seq(Writes) /\ Removed \in Seq(Writes) /\ RemovedLost \in Seq(Writes)
  BY <1>1 DEF Detached, Removed, RemovedLost, Keys
<1>5. Attached(h, p) \in Seq(Writes) /\ Registered(h, p) \in Seq(Writes)
  BY <1>1, <1>2, <1>3 DEF Attached, Registered, Keys
<1> QED
  BY <1>4, <1>5

LEMMA WriterTypes ==
    /\ Checker \in Writers
    /\ \A h \in Hosts : /\ Worker(h) \in Writers /\ Register(h) \in Writers
                       /\ Worker(h) # Checker /\ Register(h) # Checker
    /\ \A g \in Hosts : \A h \in Hosts :
           /\ Worker(g) # Register(h)
           /\ Worker(g) = Worker(h) => g = h
           /\ Register(g) = Register(h) => g = h
BY DEF Writers, Worker, Register, Checker

\* One write.
LEMMA ExecEffect ==
    ASSUME KeyTypeOK, NEW w \in Writers, Exec(w)
    PROVE  /\ Head(script[w]) \in Writes
           /\ script[w] \in Seq(Writes) /\ script[w] # <<>>
           /\ script' = [script EXCEPT ![w] = Tail(@)]
           /\ db' = [db EXCEPT ![Head(script[w]).key] = Head(script[w]).val]
           /\ KeyTypeOK'
<1>1. script[w] \in Seq(Writes) /\ script[w] # <<>>
  BY DEF KeyTypeOK, Exec
<1>2. Head(script[w]) \in Writes /\ Tail(script[w]) \in Seq(Writes)
  BY <1>1
<1>3. /\ script' = [script EXCEPT ![w] = Tail(@)]
      /\ db' = [db EXCEPT ![Head(script[w]).key] = Head(script[w]).val]
  BY DEF Exec
<1>4. script' \in [Writers -> Seq(Writes)]
  BY <1>2, <1>3 DEF KeyTypeOK
<1>5. db' \in [Keys -> Values] /\ \A k \in Keys : db'[k] \in KeyType(k)
  BY <1>2, <1>3 DEF KeyTypeOK, Writes
<1> QED
  BY <1>1, <1>2, <1>3, <1>4, <1>5 DEF KeyTypeOK

\* Udev, at and boardscan.sh.
LEMMA DeviceTypes ==
    ASSUME TypeOK, NEW h \in Hosts, NEW d \in Both, NEW e \in Kinds,
           Plug(h) \/ Unplug(h) \/ Link(h, d) \/ Spool(h, e) \/ Scan(h)
    PROVE  /\ DeviceTypeOK' /\ SpoolTypeOK'
           /\ UNCHANGED <<contVars, restVars, checkVars, keyVars>>
<1> USE HostAssumption DEF TypeOK, DeviceTypeOK, SpoolTypeOK
<1>1. CASE Plug(h)
  BY <1>1 DEF Plug, spoolVars
<1>2. ASSUME NEW f \in Kinds, Fire(h, f) PROVE events' \in [Hosts -> [Kinds -> 0..MaxJobs]]
  BY <1>2 DEF Fire
<1>3. CASE Unplug(h)
  BY <1>2, <1>3 DEF Unplug, Kinds
<1>4. CASE Link(h, d)
  BY <1>2, <1>4 DEF Link, Kinds
<1>5. CASE Spool(h, e)
  <2>1. events' \in [Hosts -> [Kinds -> 0..MaxJobs]]
    BY <1>5 DEF Spool
  <2>2. spool' \in [Hosts -> Seq(Kinds)] /\ \A g \in Hosts : Len(spool'[g]) =< MaxJobs
    BY <1>5 DEF Spool
  <2> QED
    BY <1>5, <2>1, <2>2 DEF Spool, deviceVars
<1>6. CASE Scan(h)
  BY <1>2, <1>6 DEF Scan, Kinds, deviceVars
<1> QED
  BY <1>1, <1>3, <1>4, <1>5, <1>6

\* What docker does to a container.
LEMMA StoppedType ==
    ASSUME ContTypeOK, NEW h \in Hosts, NEW state \in {"none", "stopped"},
           Stopped(h, state)
    PROVE  /\ cont' \in [Hosts -> {"none", "stopped", "running"}]
           /\ port' \in [Hosts -> Ports \cup {Nil}]
           /\ cron' \in [Hosts -> Ports \cup {Nil}]
           /\ \A g \in Hosts : cont'[g] = "running" => port'[g] # Nil
BY DEF ContTypeOK, Stopped

LEMMA StartsType ==
    ASSUME ContTypeOK, NEW h \in Hosts, Starts(h)
    PROVE  /\ cont' \in [Hosts -> {"none", "stopped", "running"}]
           /\ port' \in [Hosts -> Ports \cup {Nil}]
           /\ \A g \in Hosts : cont'[g] = "running" => port'[g] # Nil
BY HostAssumption DEF ContTypeOK, Starts

LEMMA SilenceType ==
    ASSUME KeyTypeOK, NEW h \in Hosts, Silence(h)
    PROVE  script' \in [Writers -> Seq(Writes)]
<1>1. <<>> \in Seq(Writes)
  OBVIOUS
<1> QED
  BY <1>1 DEF KeyTypeOK, Silence

\* The worker of a spooler.
LEMMA GotoType ==
    ASSUME SpoolTypeOK, NEW h \in Hosts,
           NEW l \in {"idle", "nodes", "rm", "run", "port", "cron",
                     "reset", "devices", "kill", "writing"},
           WorkGoto(h, l)
    PROVE  /\ job' \in [Hosts -> {"idle", "nodes", "rm", "run", "port", "cron",
                                 "reset", "devices", "kill", "writing"}]
           /\ jobPort' \in [Hosts -> Ports \cup {Nil}]
BY DEF SpoolTypeOK, WorkGoto

LEMMA TakeJobType ==
    ASSUME SpoolTypeOK, NEW h \in Hosts, spool[h] # <<>>,
           spool' = [spool EXCEPT ![h] = Tail(@)]
    PROVE  /\ spool' \in [Hosts -> Seq(Kinds)]
           /\ \A g \in Hosts : Len(spool'[g]) =< MaxJobs
<1>1. spool[h] \in Seq(Kinds) /\ Len(spool[h]) =< MaxJobs
  BY DEF SpoolTypeOK
<1>2. Tail(spool[h]) \in Seq(Kinds) /\ Len(Tail(spool[h])) =< MaxJobs
  BY <1>1, HostAssumption
<1> QED
  BY <1>2 DEF SpoolTypeOK

LEMMA WorkTypes ==
    ASSUME TypeOK, NEW h \in Hosts, Work(h)
    PROVE  /\ SpoolTypeOK' /\ ContTypeOK' /\ KeyTypeOK'
           /\ UNCHANGED <<deviceVars, restVars, checkVars>>
<1> USE DEF TypeOK
<1>1. SpoolTypeOK /\ ContTypeOK /\ KeyTypeOK
  OBVIOUS
<1>2. ASSUME UNCHANGED contVars PROVE ContTypeOK'
  BY <1>2 DEF contVars, ContTypeOK
<1>3. ASSUME UNCHANGED keyVars PROVE KeyTypeOK'
  BY <1>3 DEF keyVars, KeyTypeOK
<1>4. ASSUME UNCHANGED <<spool, events>>,
             NEW l \in {"idle", "nodes", "rm", "run", "port", "cron",
                       "reset", "devices", "kill", "writing"},
             WorkGoto(h, l)
      PROVE  SpoolTypeOK'
  BY <1>4, GotoType DEF SpoolTypeOK
<1>5. CASE AttachJob(h) \/ DetachJob(h)
  <2>1. spool[h] # <<>> /\ spool' = [spool EXCEPT ![h] = Tail(@)] /\ UNCHANGED events
    BY <1>5 DEF AttachJob, DetachJob, At
  <2>2. PICK l \in {"idle", "nodes", "devices"} : WorkGoto(h, l)
    BY <1>5 DEF AttachJob, DetachJob
  <2>3. SpoolTypeOK'
    BY <2>1, <2>2, TakeJobType, GotoType DEF SpoolTypeOK
  <2> QED
    BY <1>2, <1>3, <1>5, <2>3 DEF AttachJob, DetachJob, At
<1>6. CASE AttachNodes(h) \/ DetachDevices(h)
  <2>1. PICK l \in {"idle", "rm", "kill"} : WorkGoto(h, l)
    BY <1>6 DEF AttachNodes, DetachDevices
  <2> QED
    BY <1>2, <1>3, <1>4, <1>6, <2>1 DEF AttachNodes, DetachDevices, At, Stay
<1>7. CASE AttachRm(h)
  <2>1. ContTypeOK'
    BY <1>7, StoppedType DEF AttachRm, ContTypeOK
  <2>2. KeyTypeOK'
    BY <1>7, SilenceType DEF AttachRm, KeyTypeOK
  <2> QED
    BY <1>4, <1>7, <2>1, <2>2 DEF AttachRm, At
<1>8. CASE AttachRun(h)
  <2>1. ContTypeOK'
    BY <1>8, StoppedType, StartsType DEF AttachRun, ContTypeOK
  <2> QED
    BY <1>3, <1>4, <1>8, <2>1 DEF AttachRun, At
<1>9. CASE AttachPort(h)
  <2>1. SpoolTypeOK'
    <3>1. CASE WorkGoto(h, "idle")
      BY <1>4, <1>9, <3>1 DEF AttachPort, At
    <3>2. CASE /\ job' = [job EXCEPT ![h] = "cron"]
               /\ jobPort' = [jobPort EXCEPT ![h] = port[h]]
      BY <1>9, <3>2 DEF AttachPort, At, SpoolTypeOK, ContTypeOK
    <3> QED
      BY <1>9, <3>1, <3>2 DEF AttachPort
  <2> QED
    BY <1>2, <1>3, <1>9, <2>1 DEF AttachPort, At
<1>10. CASE AttachCron(h)
  <2>1. ContTypeOK'
    BY <1>10 DEF AttachCron, ContTypeOK, SpoolTypeOK
  <2> QED
    BY <1>3, <1>4, <1>10, <2>1 DEF AttachCron, At
<1>11. CASE AttachReset(h)
  <2>1. Attached(h, jobPort[h]) \in Seq(Writes)
    BY ScriptTypes DEF SpoolTypeOK
  <2>2. KeyTypeOK'
    BY <1>11, <2>1 DEF AttachReset, KeyTypeOK
  <2> QED
    BY <1>2, <1>4, <1>11, <2>2 DEF AttachReset, At
<1>12. CASE DetachKill(h)
  <2>1. ContTypeOK'
    BY <1>12, StoppedType DEF DetachKill, ContTypeOK
  <2>2. Detached \in Seq(Writes) /\ <<>> \in Seq(Writes)
    BY ScriptTypes, HostAssumption
  <2>3. KeyTypeOK'
    BY <1>12, <2>2 DEF DetachKill, KeyTypeOK
  <2> QED
    BY <1>4, <1>12, <2>1, <2>3 DEF DetachKill, At
<1>13. CASE WorkWrite(h)
  <2>1. KeyTypeOK'
    BY <1>13, WriterTypes, ExecEffect DEF WorkWrite
  <2>2. PICK l \in {"idle", "writing"} : WorkGoto(h, l)
    BY <1>13 DEF WorkWrite
  <2> QED
    BY <1>2, <1>4, <1>13, <2>1, <2>2 DEF WorkWrite, At
<1> QED
  BY <1>5, <1>6, <1>7, <1>8, <1>9, <1>10, <1>11, <1>12, <1>13 DEF Work

\* boardserver-load.sh and register.py.
LEMMA HostTypes ==
    ASSUME TypeOK, NEW h \in Hosts, Reload(h) \/ RegisterStart(h) \/ RegisterWrite(h)
    PROVE  /\ ContTypeOK' /\ KeyTypeOK'
           /\ UNCHANGED <<deviceVars, spoolVars, restVars, checkVars>>
<1> USE DEF TypeOK
<1>1. CASE Reload(h)
  <2>1. ContTypeOK'
    BY <1>1, StoppedType DEF Reload, ContTypeOK
  <2>2. KeyTypeOK'
    BY <1>1, SilenceType DEF Reload, KeyTypeOK
  <2> QED
    BY <1>1, <2>1, <2>2 DEF Reload
<1>2. CASE RegisterStart(h)
  <2>1. Registered(h, cron[h]) \in Seq(Writes)
    BY ScriptTypes DEF ContTypeOK
  <2> QED
    BY <1>2, <2>1 DEF RegisterStart, KeyTypeOK, ContTypeOK, contVars
<1>3. CASE RegisterWrite(h)
  BY <1>3, WriterTypes, ExecEffect DEF RegisterWrite, ContTypeOK, contVars
<1> QED
  BY <1>1, <1>2, <1>3

\* boardrestart.py.
LEMMA RestGotoType ==
    ASSUME RestTypeOK, NEW r \in Restarts,
           NEW l \in {"stop", "start", "port", "cron", "set"},
           NEW h \in Hosts, NEW p \in Ports \cup {Nil}, RestGoto(r, l, h, p)
    PROVE  RestTypeOK'
BY HostAssumption DEF RestTypeOK, RestGoto

LEMMA RestOverType ==
    ASSUME RestTypeOK, NEW r \in Restarts, RestOver(r)
    PROVE  RestTypeOK'
BY DEF RestTypeOK, RestOver, RestGoto

LEMMA RestartTypes ==
    ASSUME TypeOK, NEW r \in Restarts, RestartCall(r) \/ Restart(r)
    PROVE  /\ RestTypeOK' /\ ContTypeOK' /\ KeyTypeOK'
           /\ UNCHANGED <<deviceVars, spoolVars, checkVars>>
<1> USE DEF TypeOK
<1> DEFINE h == rhost[r]
<1>1. UNCHANGED <<deviceVars, spoolVars, checkVars, reloads>>
  BY DEF RestartCall, Restart, RestartStop, RestartStart, RestartPort, RestartCron,
         RestartSet, RestAt
<1>2. ASSUME UNCHANGED <<cont, port, cron>> PROVE ContTypeOK'
  BY <1>1, <1>2 DEF ContTypeOK
<1>3. ASSUME UNCHANGED keyVars PROVE KeyTypeOK'
  BY <1>3 DEF keyVars, KeyTypeOK
<1>4. CASE RestartCall(r)
  <2>1. db["server"] \in Hosts
    BY <1>4, KeyTypes DEF RestartCall, KeyTypeOK, Keys
  <2>2. RestTypeOK'
    BY <1>4, <2>1, RestGotoType DEF RestartCall
  <2> QED
    BY <1>1, <1>2, <1>3, <1>4, <2>2 DEF RestartCall
<1>5. CASE Restart(r)
  <2>1. h \in Hosts
    BY <1>5 DEF Restart, RestartStop, RestartStart, RestartPort, RestartCron,
              RestartSet, RestAt, RestTypeOK
  <2>2. CASE RestartStop(r)
    <3>1. ContTypeOK'
      BY <1>1, <2>1, <2>2, StoppedType DEF RestartStop, ContTypeOK
    <3>2. KeyTypeOK'
      BY <2>1, <2>2, SilenceType DEF RestartStop, KeyTypeOK
    <3>3. RestTypeOK'
      BY <2>1, <2>2, RestGotoType, RestOverType DEF RestartStop
    <3> QED
      BY <1>1, <3>1, <3>2, <3>3
  <2>3. CASE RestartStart(r)
    <3>1. ContTypeOK'
      BY <1>1, <2>1, <2>3, StartsType DEF RestartStart, ContTypeOK
    <3>2. RestTypeOK'
      BY <2>1, <2>3, RestGotoType, RestOverType DEF RestartStart
    <3> QED
      BY <1>1, <1>3, <2>3, <3>1, <3>2 DEF RestartStart
  <2>4. CASE RestartPort(r)
    <3>1. port[h] \in Ports \cup {Nil}
      BY <2>1 DEF ContTypeOK
    <3>2. RestTypeOK'
      BY <2>1, <2>4, <3>1, RestGotoType, RestOverType DEF RestartPort
    <3> QED
      BY <1>1, <1>2, <1>3, <2>4, <3>2 DEF RestartPort
  <2>5. rport[r] \in Ports \cup {Nil}
    BY DEF RestTypeOK
  <2>6. CASE RestartCron(r)
    <3>1. ContTypeOK'
      BY <1>1, <2>5, <2>6 DEF RestartCron, ContTypeOK
    <3>2. RestTypeOK'
      BY <2>1, <2>5, <2>6, RestGotoType, RestOverType DEF RestartCron
    <3> QED
      BY <1>1, <1>3, <2>6, <3>1, <3>2 DEF RestartCron
  <2>7. CASE RestartSet(r)
    <3>1. KeyTypeOK'
      BY <2>5, <2>7, KeyTypes DEF RestartSet, KeyTypeOK, Keys
    <3> QED
      BY <1>1, <1>2, <2>7, <3>1, RestOverType DEF RestartSet
  <2> QED
    BY <1>5, <2>2, <2>3, <2>4, <2>6, <2>7 DEF Restart
<1> QED
  BY <1>4, <1>5

\* The SSH check and the dashboard.
LEMMA NowhereType == Nowhere \in [server : KeyType("server"), port : KeyType("port")]
BY KeyTypes DEF Nowhere

LEMMA ReadTypes ==
    ASSUME TypeOK, NEW key \in {"server", "port"}, NEW l,
           NEW next \in {"connect", "port", "port2", "connect2"},
           CheckRead(l, key, next)
    PROVE  CheckTypeOK' /\ UNCHANGED keyVars
<1>1. db[key] \in KeyType(key)
  BY DEF TypeOK, KeyTypeOK, Keys
<1>2. CASE check' = next /\ target' = [target EXCEPT ![key] = db[key]]
  BY <1>1, <1>2 DEF TypeOK, CheckTypeOK, CheckRead
<1>3. CASE CheckGoto("idle")
  BY <1>3, NowhereType DEF CheckGoto, TypeOK, CheckTypeOK, CheckRead
<1> QED
  BY <1>2, <1>3 DEF CheckRead

LEMMA CheckTypes ==
    ASSUME TypeOK, Press \/ Check
    PROVE  /\ CheckTypeOK' /\ KeyTypeOK'
           /\ UNCHANGED <<deviceVars, spoolVars, contVars, restVars>>
<1> USE DEF TypeOK
<1>1. UNCHANGED <<deviceVars, spoolVars, contVars, restVars>>
  BY DEF Press, Check, CheckStart, CheckRead, CheckConnect, CheckAgain, CheckRemove,
         CheckWrite, CheckAt
<1>2. ASSUME UNCHANGED keyVars PROVE KeyTypeOK'
  BY <1>2 DEF keyVars, KeyTypeOK
<1>3. ASSUME UNCHANGED presses, trigger' \in BOOLEAN,
             NEW l \in {"idle", "server", "server2", "class", "writing"}, CheckGoto(l)
      PROVE  CheckTypeOK'
  BY <1>3, NowhereType DEF CheckGoto, CheckTypeOK
<1>4. trigger \in BOOLEAN
  BY DEF CheckTypeOK
<1>5. CASE Press
  BY <1>1, <1>2, <1>5, HostAssumption DEF Press, CheckTypeOK
<1>6. CASE CheckStart
  <2>1. PICK l \in {"idle", "server"} : CheckGoto(l)
    BY <1>6 DEF CheckStart
  <2> QED
    BY <1>1, <1>2, <1>3, <1>6, <2>1 DEF CheckStart
<1>7. CASE \/ CheckRead("server", "server", "port") \/ CheckRead("port", "port", "connect")
           \/ CheckRead("server2", "server", "port2")
           \/ CheckRead("port2", "port", "connect2")
  BY <1>1, <1>2, <1>7, ReadTypes
<1>8. CASE CheckConnect \/ CheckAgain
  <2>1. PICK l \in {"idle", "server2", "class"} : CheckGoto(l)
    BY <1>8 DEF CheckConnect, CheckAgain
  <2> QED
    BY <1>1, <1>2, <1>3, <1>4, <1>8, <2>1 DEF CheckConnect, CheckAgain
<1>9. CASE CheckRemove
  <2>1. Removed \in Seq(Writes) /\ RemovedLost \in Seq(Writes)
    <3>1. \A k \in Keys : Del(k) \in Writes
      BY KeyTypes, PutType DEF Del
    <3> QED
      BY <3>1 DEF Removed, RemovedLost, Keys
  <2>2. KeyTypeOK'
    BY <1>9, <2>1 DEF CheckRemove, KeyTypeOK
  <2> QED
    BY <1>1, <1>3, <1>4, <1>9, <2>2 DEF CheckRemove
<1>10. CASE CheckWrite
  <2>1. PICK l \in {"idle", "writing"} : CheckGoto(l)
    BY <1>10 DEF CheckWrite
  <2>2. KeyTypeOK'
    BY <1>10, WriterTypes, ExecEffect DEF CheckWrite
  <2> QED
    BY <1>1, <1>3, <1>4, <1>10, <2>1, <2>2 DEF CheckWrite
<1> QED
  BY <1>5, <1>6, <1>7, <1>8, <1>9, <1>10 DEF Check

\* Users and check_sessions.
LEMMA UserTypes ==
    ASSUME TypeOK, Users \/ Recover
    PROVE  /\ KeyTypeOK'
           /\ \A k \in Listed : db'[k] = db[k]
           /\ UNCHANGED <<deviceVars, spoolVars, contVars, restVars, checkVars, script>>
<1>1. /\ {"available", "unlocked", "lease"} \subseteq Keys
      /\ \A k \in {"available", "unlocked", "lease"} : KeyType(k) = {Nil, In}
      /\ Nil \in Values /\ In \in Values
  BY KeyTypes DEF Keys, Values
<1>2. db \in [Keys -> Values] /\ \A k \in Keys : db[k] \in KeyType(k)
  BY DEF TypeOK, KeyTypeOK
<1>3. PICK x \in {Nil, In}, y \in {Nil, In} :
          \/ db' = [db EXCEPT !["available"] = x, !["unlocked"] = x, !["lease"] = y]
          \/ db' = [db EXCEPT !["available"] = x, !["unlocked"] = x]
  BY DEF Users, Occupy, Vacate, Recover
<1>4. db' \in [Keys -> Values]
  BY <1>1, <1>2, <1>3
<1>5. \A k \in Keys :
          /\ k \in {"available", "unlocked", "lease"} => db'[k] \in {Nil, In}
          /\ k \notin {"available", "unlocked", "lease"} => db'[k] = db[k]
  BY <1>1, <1>2, <1>3
<1>6. \A k \in Keys : db'[k] \in KeyType(k)
  BY <1>1, <1>2, <1>5
<1>7. \A k \in Listed : db'[k] = db[k]
  BY <1>5 DEF Listed, Keys
<1> QED
  BY <1>4, <1>6, <1>7 DEF Users, Recover, TypeOK, KeyTypeOK

LEMMA TypeStep == TypeOK /\ [Next]_vars => TypeOK'
<1> SUFFICES ASSUME TypeOK, [Next]_vars PROVE TypeOK'
  OBVIOUS
<1> USE DEF TypeOK
<1>1. CASE UNCHANGED vars
  BY <1>1 DEF vars, deviceVars, spoolVars, contVars, restVars, checkVars, keyVars,
              DeviceTypeOK, SpoolTypeOK, ContTypeOK, RestTypeOK, CheckTypeOK, KeyTypeOK
<1>2. CASE Next
  <2>1. clash' \in BOOLEAN
    BY <1>2 DEF Next, Observe
  <2>2. /\ UNCHANGED deviceVars => DeviceTypeOK'
        /\ UNCHANGED spoolVars => SpoolTypeOK'
        /\ UNCHANGED contVars => ContTypeOK'
        /\ UNCHANGED restVars => RestTypeOK'
        /\ UNCHANGED checkVars => CheckTypeOK'
        /\ UNCHANGED keyVars => KeyTypeOK'
    BY DEF deviceVars, spoolVars, contVars, restVars, checkVars, keyVars,
           DeviceTypeOK, SpoolTypeOK, ContTypeOK, RestTypeOK, CheckTypeOK, KeyTypeOK
  <2>3. ASSUME NEW h \in Hosts, NEW d \in Both, NEW e \in Kinds,
               Plug(h) \/ Unplug(h) \/ Link(h, d) \/ Spool(h, e) \/ Scan(h)
        PROVE  TypeOK'
    BY <2>1, <2>2, <2>3, DeviceTypes
  <2>4. ASSUME NEW h \in Hosts, Work(h) PROVE TypeOK'
    BY <2>1, <2>2, <2>4, WorkTypes
  <2>5. ASSUME NEW h \in Hosts, Reload(h) \/ RegisterStart(h) \/ RegisterWrite(h)
        PROVE  TypeOK'
    BY <2>1, <2>2, <2>5, HostTypes
  <2>6. ASSUME NEW r \in Restarts, RestartCall(r) \/ Restart(r) PROVE TypeOK'
    BY <2>1, <2>2, <2>6, RestartTypes
  <2>7. CASE Press \/ Check
    BY <2>1, <2>2, <2>7, CheckTypes
  <2>8. CASE Users \/ Recover
    BY <2>1, <2>2, <2>8, UserTypes
  <2>9. "tty" \in Both /\ "attach" \in Kinds
    BY DEF Both, Kinds
  <2> QED
    BY <1>2, <2>3, <2>4, <2>5, <2>6, <2>7, <2>8, <2>9 DEF Next
<1> QED
  BY <1>1, <1>2

LEMMA InitType == Init => TypeOK
<1> SUFFICES ASSUME Init PROVE TypeOK
  OBVIOUS
<1>1. DeviceTypeOK /\ ContTypeOK /\ RestTypeOK
  BY HostAssumption DEF Init, DeviceTypeOK, ContTypeOK, RestTypeOK
<1>2. SpoolTypeOK
  <2>1. <<>> \in Seq(Kinds)
    OBVIOUS
  <2>2. /\ spool \in [Hosts -> Seq(Kinds)]
        /\ \A h \in Hosts : Len(spool[h]) =< MaxJobs
    BY <2>1, HostAssumption DEF Init
  <2>3. events \in [Hosts -> [Kinds -> 0..MaxJobs]]
    BY HostAssumption DEF Init
  <2> QED
    BY <2>2, <2>3 DEF Init, SpoolTypeOK
<1>3. CheckTypeOK
  <2>1. target = Nowhere
    BY DEF Init, Nowhere
  <2>2. check = "idle" /\ trigger \in BOOLEAN
    BY DEF Init
  <2>3. presses \in 0..MaxPresses
    BY HostAssumption DEF Init
  <2> QED
    BY <2>1, <2>2, <2>3, NowhereType DEF CheckTypeOK
<1>4. <<>> \in Seq(Writes) /\ Nil \in Values
  BY DEF Values
<1>5. KeyTypeOK
  BY <1>4, KeyTypes DEF Init, KeyTypeOK
<1> QED
  BY <1>1, <1>2, <1>3, <1>5 DEF TypeOK, Init

\* The variables keep their types; above all, what is written to server is a host
\* and what is written to port is a port.
THEOREM HostTypeCorrect == Spec => []TypeOK
BY InitType, TypeStep, PTL DEF Spec

-----------------------------------------------------------------------------
(* What holds whatever happens. *)

\* The rest of a script.
LEMMA TailAhead ==
    ASSUME NEW w, script[w] \in Seq(Writes), script[w] # <<>>,
           script'[w] = Tail(script[w])
    PROVE  /\ Adds(w)' => Adds(w)
           /\ \A x : Ahead(w, x) /\ Head(script[w]) # x => Ahead(w, x)'
<1>1. \A i \in DOMAIN Tail(script[w]) :
          i + 1 \in DOMAIN script[w] /\ Tail(script[w])[i] = script[w][i + 1]
  OBVIOUS
<1>2. \A i \in DOMAIN script[w] :
          script[w][i] # Head(script[w]) =>
              i - 1 \in DOMAIN Tail(script[w]) /\ Tail(script[w])[i - 1] = script[w][i]
  OBVIOUS
<1>3. Adds(w)' => Adds(w)
  BY <1>1 DEF Adds
<1>4. ASSUME NEW x, Ahead(w, x), Head(script[w]) # x PROVE Ahead(w, x)'
  BY <1>2, <1>4 DEF Ahead
<1> QED
  BY <1>3, <1>4

LEMMA SameScript ==
    ASSUME NEW w, script'[w] = script[w]
    PROVE  (Adds(w)' <=> Adds(w)) /\ (\A x : Ahead(w, x)' <=> Ahead(w, x))
BY DEF Adds, Ahead

LEMMA RelayDeletes ==
    /\ \A i \in DOMAIN Removed : Removed[i].val = Nil
    /\ \A i \in DOMAIN RemovedLost : RemovedLost[i].val = Nil
BY DEF Removed, RemovedLost, Del, Put

\* The jobs of the spooler that change neither a container nor a script.
Looking(h) == \/ AttachJob(h) \/ AttachNodes(h) \/ AttachPort(h) \/ AttachCron(h)
              \/ DetachJob(h) \/ DetachDevices(h)

LEMMA LookingEffect ==
    ASSUME TypeOK, NEW h \in Hosts, Looking(h)
    PROVE  /\ UNCHANGED <<cont, reloads, db, script, deviceVars, events>>
           /\ UNCHANGED <<restVars, checkVars>>
           /\ \A g \in Hosts \ {h} : job'[g] = job[g] /\ spool'[g] = spool[g]
           /\ job[h] # "writing"
           /\ job'[h] \in {"idle", "nodes", "rm", "cron", "reset", "devices", "kill"}
           /\ job'[h] = "nodes" => job[h] = "idle" /\ cont[h] # "running"
           /\ job'[h] = "rm" => job[h] = "nodes"
           /\ job'[h] \in {"cron", "reset"} => cont[h] = "running"
<1> USE DEF TypeOK, SpoolTypeOK, WorkGoto
<1>1. CASE AttachJob(h)
  BY <1>1 DEF AttachJob, At, contVars, keyVars
<1>2. CASE AttachNodes(h)
  BY <1>2 DEF AttachNodes, At, Stay, contVars, keyVars
<1>3. CASE AttachPort(h)
  BY <1>3 DEF AttachPort, At, contVars, keyVars
<1>4. CASE AttachCron(h)
  BY <1>4 DEF AttachCron, At, keyVars
<1>5. CASE DetachJob(h)
  BY <1>5 DEF DetachJob, At, contVars, keyVars
<1>6. CASE DetachDevices(h)
  BY <1>6 DEF DetachDevices, At, Stay, contVars, keyVars
<1> QED
  BY <1>1, <1>2, <1>3, <1>4, <1>5, <1>6 DEF Looking

\* A write of w leaves the scripts of the others alone.
LEMMA WriteScripts ==
    ASSUME KeyTypeOK, NEW w \in Writers, Exec(w)
    PROVE  /\ \A v \in Writers \ {w} : script'[v] = script[v]
           /\ script'[w] = Tail(script[w])
           /\ script[w] \in Seq(Writes) /\ script[w] # <<>>
BY ExecEffect DEF KeyTypeOK

\* What has to be shown of a step for BasicInv.
LEMMA BasicFrom ==
    ASSUME BasicInv, script'[Checker] = script[Checker],
           \A g \in Hosts :
              /\ \/ job'[g] # "run"
                 \/ cont'[g] = "none"
                 \/ job'[g] = job[g] /\ cont'[g] = cont[g]
              /\ \/ script'[Register(g)] = <<>>
                 \/ cont'[g] = "running"
                 \/ script'[Register(g)] = script[Register(g)] /\ cont'[g] = cont[g]
    PROVE  BasicInv'
BY SameScript DEF BasicInv

LEMMA BasicWork ==
    ASSUME TypeOK, BasicInv, NEW h \in Hosts, Work(h)
    PROVE  BasicInv'
<1> USE WriterTypes
<1>0. /\ job \in [Hosts -> {"idle", "nodes", "rm", "run", "port", "cron",
                          "reset", "devices", "kill", "writing"}]
      /\ cont \in [Hosts -> {"none", "stopped", "running"}]
      /\ script \in [Writers -> Seq(Writes)]
      /\ KeyTypeOK
  BY DEF TypeOK, SpoolTypeOK, ContTypeOK, KeyTypeOK
<1>1. CASE Looking(h)
  BY <1>1, LookingEffect, BasicFrom
<1>2. CASE AttachRm(h)
  <2>1. /\ cont' = [cont EXCEPT ![h] = "none"]
        /\ script' = [script EXCEPT ![Register(h)] = <<>>]
        /\ job' = [job EXCEPT ![h] = "run"]
    BY <1>2 DEF AttachRm, Stopped, Silence, WorkGoto
  <2> QED
    BY <1>0, <2>1, BasicFrom
<1>3. CASE AttachRun(h)
  <2>1. PICK c \in {"running", "stopped"}, l \in {"port", "idle"} :
            /\ cont' = [cont EXCEPT ![h] = c]
            /\ job' = [job EXCEPT ![h] = l]
            /\ UNCHANGED script
            /\ job[h] = "run"
    BY <1>3 DEF AttachRun, At, Starts, Stopped, WorkGoto, keyVars
  <2>2. script[Register(h)] = <<>>
    BY <2>1 DEF BasicInv
  <2> QED
    BY <1>0, <2>1, <2>2, BasicFrom
<1>4. CASE AttachReset(h)
  <2>1. /\ \A v \in Writers : v # Worker(h) => script'[v] = script[v]
        /\ job'[h] \in {"idle", "writing"}
        /\ \A g \in Hosts : g # h => job'[g] = job[g]
        /\ UNCHANGED cont
    BY <1>0, <1>4 DEF AttachReset, WorkGoto, contVars
  <2>2. \A g \in Hosts : script'[Register(g)] = script[Register(g)]
    BY <2>1
  <2> QED
    BY <2>1, <2>2, BasicFrom
<1>5. CASE DetachKill(h)
  <2>1. script' = [script EXCEPT ![Worker(h)] = Detached, ![Register(h)] = <<>>]
    BY <1>5 DEF DetachKill
  <2>2. /\ job'[h] = "writing"
        /\ \A g \in Hosts : g # h => job'[g] = job[g] /\ cont'[g] = cont[g]
    BY <1>0, <1>5 DEF DetachKill, Stopped, WorkGoto
  <2>3. /\ script'[Checker] = script[Checker]
        /\ script'[Register(h)] = <<>>
        /\ \A g \in Hosts : g # h => script'[Register(g)] = script[Register(g)]
    BY <1>0, <2>1
  <2> QED
    BY <2>2, <2>3, BasicFrom
<1>6. CASE WorkWrite(h)
  <2>1. /\ \A v \in Writers : v # Worker(h) => script'[v] = script[v]
        /\ job'[h] \in {"idle", "writing"}
        /\ \A g \in Hosts : g # h => job'[g] = job[g]
        /\ UNCHANGED cont
    BY <1>0, <1>6, WriteScripts DEF WorkWrite, WorkGoto, contVars
  <2>2. \A g \in Hosts : script'[Register(g)] = script[Register(g)]
    BY <2>1
  <2> QED
    BY <2>1, <2>2, BasicFrom
<1> QED
  BY <1>1, <1>2, <1>3, <1>4, <1>5, <1>6 DEF Work, Looking

LEMMA BasicStep ==
    ASSUME TypeOK, BasicInv, Next
    PROVE  BasicInv'
<1> USE WriterTypes
<1>0. /\ job \in [Hosts -> {"idle", "nodes", "rm", "run", "port", "cron",
                          "reset", "devices", "kill", "writing"}]
      /\ cont \in [Hosts -> {"none", "stopped", "running"}]
      /\ script \in [Writers -> Seq(Writes)]
      /\ KeyTypeOK
  BY DEF TypeOK, SpoolTypeOK, ContTypeOK, KeyTypeOK
<1>1. ASSUME UNCHANGED <<job, cont, script>> PROVE BasicInv'
  BY <1>1, BasicFrom
<1>2. ASSUME NEW h \in Hosts, NEW d \in Both, NEW e \in Kinds,
             Plug(h) \/ Unplug(h) \/ Link(h, d) \/ Spool(h, e) \/ Scan(h)
      PROVE  BasicInv'
  BY <1>1, <1>2 DEF Plug, Unplug, Link, Spool, Scan, spoolVars, contVars, keyVars
<1>3. ASSUME NEW h \in Hosts, Reload(h) PROVE BasicInv'
  <2>1. /\ script' = [script EXCEPT ![Register(h)] = <<>>]
        /\ cont' = [cont EXCEPT ![h] = "none"]
        /\ UNCHANGED job
    BY <1>3 DEF Reload, Stopped, Silence, spoolVars
  <2> QED
    BY <1>0, <2>1, BasicFrom
<1>4. ASSUME NEW h \in Hosts, RegisterStart(h) \/ RegisterWrite(h) PROVE BasicInv'
  <2>1. /\ \A v \in Writers \ {Register(h)} : script'[v] = script[v]
        /\ cont[h] = "running"
        /\ UNCHANGED <<job, cont>>
    BY <1>0, <1>4, WriteScripts DEF BasicInv, RegisterStart, RegisterWrite, spoolVars,
                                   contVars
  <2>2. /\ script'[Checker] = script[Checker]
        /\ \A g \in Hosts : g # h => script'[Register(g)] = script[Register(g)]
    BY <2>1
  <2> QED
    BY <2>1, <2>2, BasicFrom
<1>5. ASSUME NEW r \in Restarts, RestartCall(r) \/ Restart(r) PROVE BasicInv'
  <2>1. CASE RestartStop(r)
    <3>1. rhost[r] \in Hosts
      BY <2>1 DEF RestartStop, RestAt, TypeOK, RestTypeOK
    <3>2. /\ script' = [script EXCEPT ![Register(rhost[r])] = <<>>]
          /\ \/ UNCHANGED cont
             \/ /\ cont[rhost[r]] = "running"
                /\ cont' = [cont EXCEPT ![rhost[r]] = "stopped"]
          /\ UNCHANGED job
      BY <2>1 DEF RestartStop, RestAt, Silence, Stopped, spoolVars
    <3> QED
      BY <1>0, <3>1, <3>2, BasicFrom DEF BasicInv
  <2>2. CASE RestartStart(r)
    <3>1. rhost[r] \in Hosts
      BY <2>2 DEF RestartStart, RestAt, TypeOK, RestTypeOK
    <3>2. /\ \/ UNCHANGED cont
             \/ /\ cont[rhost[r]] = "stopped"
                /\ cont' = [cont EXCEPT ![rhost[r]] = "running"]
          /\ UNCHANGED <<job, script>>
      BY <2>2 DEF RestartStart, RestAt, Starts, spoolVars, keyVars
    <3> QED
      BY <1>0, <3>1, <3>2, BasicFrom DEF BasicInv
  <2>3. CASE RestartCall(r) \/ RestartPort(r) \/ RestartCron(r) \/ RestartSet(r)
    BY <1>1, <2>3 DEF RestartCall, RestartPort, RestartCron, RestartSet, RestAt,
                      spoolVars, keyVars
  <2> QED
    BY <1>5, <2>1, <2>2, <2>3 DEF Restart
<1>6. CASE Press \/ Check
  <2>1. UNCHANGED <<job, cont>>
    BY <1>6, CheckTypes DEF spoolVars, contVars
  <2>2. CASE CheckRemove
    <3>1. script'[Checker] \in {Removed, RemovedLost}
          /\ \A v \in Writers \ {Checker} : script'[v] = script[v]
      BY <1>0, <2>2 DEF CheckRemove
    <3>2. ~Adds(Checker)'
      BY <3>1, RelayDeletes DEF Adds
    <3> QED
      BY <1>0, <2>1, <3>1, <3>2, BasicFrom DEF BasicInv
  <2>3. CASE CheckWrite
    <3>1. /\ \A v \in Writers \ {Checker} : script'[v] = script[v]
          /\ ~Adds(Checker)'
      BY <1>0, <2>3, WriteScripts, TailAhead DEF CheckWrite, BasicInv
    <3> QED
      BY <2>1, <3>1, BasicFrom DEF BasicInv
  <2>4. CASE UNCHANGED script
    BY <1>1, <2>1, <2>4
  <2> QED
    BY <1>6, <2>2, <2>3, <2>4 DEF Press, Check, CheckStart, CheckRead, CheckConnect,
                                  CheckAgain, keyVars
<1>7. CASE Users \/ Recover
  BY <1>1, <1>7 DEF Users, Recover, spoolVars, contVars
<1>8. "tty" \in Both /\ "attach" \in Kinds
  BY DEF Both, Kinds
<1> QED
  BY <1>2, <1>3, <1>4, <1>5, <1>6, <1>7, <1>8, BasicWork DEF Next

-----------------------------------------------------------------------------
(* Attach events and running containers. *)

LEMMA ClashStep ==
    ASSUME Next
    PROVE  ClashInv' /\ (~clash' => ~clash)
BY DEF Next, Observe, ClashInv

\* Without a clash, a restart has its host for itself.
LEMMA RestartAlone ==
    ASSUME ClashInv, ~clash, NEW r \in Restarts, Busy(r)
    PROVE  /\ job[rhost[r]] = "idle"
           /\ spool[rhost[r]] = <<>>
           /\ nodes[rhost[r]] = Both
           /\ \A q \in Restarts : q # r /\ Busy(q) => rhost[q] # rhost[r]
BY DEF ClashInv, Clashes

\* The work at h changes nothing elsewhere.
LEMMA WorkElsewhere ==
    ASSUME TypeOK, NEW h \in Hosts, Work(h)
    PROVE  /\ \A g \in Hosts : g # h =>
                 /\ job'[g] = job[g] /\ cont'[g] = cont[g] /\ spool'[g] = spool[g]
                 /\ script'[Worker(g)] = script[Worker(g)]
           /\ UNCHANGED <<nodes, events, restVars, reloads>>
<1>1. /\ job \in [Hosts -> {"idle", "nodes", "rm", "run", "port", "cron",
                          "reset", "devices", "kill", "writing"}]
      /\ cont \in [Hosts -> {"none", "stopped", "running"}]
      /\ spool \in [Hosts -> Seq(Kinds)]
      /\ script \in [Writers -> Seq(Writes)]
      /\ KeyTypeOK
  BY DEF TypeOK, SpoolTypeOK, ContTypeOK, KeyTypeOK
<1>2. UNCHANGED <<nodes, events, restVars>>
  BY DEF Work, AttachJob, AttachNodes, AttachRm, AttachRun, AttachPort, AttachCron,
         AttachReset, DetachJob, DetachDevices, DetachKill, WorkWrite, At, deviceVars
<1>3. CASE Looking(h)
  BY <1>2, <1>3, LookingEffect
<1>4. CASE AttachRm(h)
  BY <1>1, <1>2, <1>4, WriterTypes DEF AttachRm, Stopped, Silence, WorkGoto
<1>5. CASE AttachRun(h)
  BY <1>1, <1>2, <1>5 DEF AttachRun, Starts, Stopped, WorkGoto, keyVars
<1>6. CASE AttachReset(h)
  BY <1>1, <1>2, <1>6, WriterTypes DEF AttachReset, WorkGoto, contVars
<1>7. CASE DetachKill(h)
  BY <1>1, <1>2, <1>7, WriterTypes DEF DetachKill, Stopped, WorkGoto
<1>8. CASE WorkWrite(h)
  BY <1>1, <1>2, <1>8, WriterTypes, WriteScripts DEF WorkWrite, WorkGoto, contVars
<1> QED
  BY <1>3, <1>4, <1>5, <1>6, <1>7, <1>8 DEF Work, Looking

\* Nor does a restart.
LEMMA RestartElsewhere ==
    ASSUME TypeOK, NEW r \in Restarts, RestartCall(r) \/ Restart(r)
    PROVE  /\ UNCHANGED <<deviceVars, spoolVars, reloads>>
           /\ \A g \in Hosts : cont'[g] # cont[g] => Busy(r) /\ rhost[r] = g
           /\ \A q \in Restarts : q # r => rpc'[q] = rpc[q] /\ rhost'[q] = rhost[q]
           /\ \A g \in Hosts : script'[Worker(g)] = script[Worker(g)]
<1>1. /\ cont \in [Hosts -> {"none", "stopped", "running"}]
      /\ rpc \in [Restarts -> {"idle", "stop", "start", "port", "cron", "set", "done"}]
      /\ rhost \in [Restarts -> Hosts \cup {Nil}]
      /\ script \in [Writers -> Seq(Writes)]
      /\ \A q \in Restarts : rpc[q] \notin {"idle", "done"} => rhost[q] \in Hosts
  BY DEF TypeOK, ContTypeOK, RestTypeOK, KeyTypeOK
<1> USE DEF RestAt, RestGoto, RestOver, Busy
<1>2. CASE RestartCall(r)
  BY <1>1, <1>2 DEF RestartCall, keyVars
<1>3. CASE RestartStop(r)
  BY <1>1, <1>3, WriterTypes DEF RestartStop, Stopped, Silence
<1>4. CASE RestartStart(r)
  BY <1>1, <1>4 DEF RestartStart, Starts, keyVars
<1>5. CASE RestartPort(r) \/ RestartCron(r) \/ RestartSet(r)
  BY <1>1, <1>5 DEF RestartPort, RestartCron, RestartSet, keyVars
<1> QED
  BY <1>2, <1>3, <1>4, <1>5 DEF Restart

\* The steps that neither the spooler nor a restart makes.
LEMMA OtherSteps ==
    ASSUME Next
    PROVE  \/ \E h \in Hosts : \/ Work(h)
                             \/ Plug(h) \/ Unplug(h) \/ Scan(h) \/ Reload(h)
                             \/ RegisterStart(h) \/ RegisterWrite(h)
           \/ \E h \in Hosts, d \in Both : Link(h, d)
           \/ \E h \in Hosts, e \in Kinds : Spool(h, e)
           \/ \E r \in Restarts : RestartCall(r) \/ Restart(r)
           \/ UNCHANGED <<deviceVars, spoolVars, contVars, restVars>>
<1>1. Press \/ Check => UNCHANGED <<deviceVars, spoolVars, contVars, restVars>>
  BY DEF Press, Check, CheckStart, CheckRead, CheckConnect, CheckAgain, CheckRemove,
         CheckWrite, CheckAt
<1>2. Users \/ Recover => UNCHANGED <<deviceVars, spoolVars, contVars, restVars>>
  BY DEF Users, Recover
<1>3. CASE \E h \in Hosts : Plug(h) \/ Unplug(h) \/ Scan(h) \/ Work(h) \/ Reload(h)
  BY <1>3, Zenon
<1>4. CASE \E h \in Hosts : RegisterStart(h) \/ RegisterWrite(h)
  BY <1>4, Zenon
<1> QED
  BY <1>1, <1>2, <1>3, <1>4 DEF Next

LEMMA KeptStep ==
    ASSUME TypeOK, ClashInv, ~clash, KeptInv, Next
    PROVE  KeptInv'
<1>1. ASSUME UNCHANGED <<job, cont>> PROVE KeptInv'
  BY <1>1 DEF KeptInv
<1>2. /\ job \in [Hosts -> {"idle", "nodes", "rm", "run", "port", "cron",
                          "reset", "devices", "kill", "writing"}]
      /\ cont \in [Hosts -> {"none", "stopped", "running"}]
  BY DEF TypeOK, SpoolTypeOK, ContTypeOK
<1>3. ASSUME NEW h \in Hosts, Work(h) PROVE KeptInv'
  <2>1. CASE Looking(h)
    BY <2>1, LookingEffect DEF KeptInv
  <2>2. CASE ~Looking(h)
    <3>1. job'[h] \notin {"nodes", "rm"}
      BY <1>2, <1>3, <2>2 DEF Work, Looking, AttachRm, AttachRun, AttachReset,
                              DetachKill, WorkWrite, WorkGoto
    <3> QED
      BY <1>3, <3>1, WorkElsewhere DEF KeptInv
  <2> QED
    BY <2>1, <2>2
<1>4. ASSUME NEW r \in Restarts, RestartCall(r) \/ Restart(r) PROVE KeptInv'
  <2>1. UNCHANGED job
    BY <1>4, RestartElsewhere DEF spoolVars
  <2>2. ASSUME NEW g \in Hosts, job[g] \in {"nodes", "rm"} PROVE cont'[g] = cont[g]
    BY <1>4, <2>2, RestartElsewhere, RestartAlone
  <2> QED
    BY <2>1, <2>2 DEF KeptInv
<1>5. ASSUME NEW h \in Hosts, Reload(h) PROVE KeptInv'
  BY <1>2, <1>5 DEF Reload, Stopped, spoolVars, KeptInv
<1>6. ASSUME NEW h \in Hosts, NEW d \in Both, NEW e \in Kinds,
             \/ Plug(h) \/ Unplug(h) \/ Scan(h) \/ RegisterStart(h) \/ RegisterWrite(h)
             \/ Link(h, d) \/ Spool(h, e)
      PROVE  KeptInv'
  BY <1>1, <1>6 DEF Plug, Unplug, Scan, RegisterStart, RegisterWrite, Link, Spool,
                    spoolVars, contVars
<1>7. CASE UNCHANGED <<deviceVars, spoolVars, contVars, restVars>>
  BY <1>1, <1>7 DEF spoolVars, contVars
<1>8. "tty" \in Both /\ "attach" \in Kinds
  BY DEF Both, Kinds
<1> QED
  BY <1>3, <1>4, <1>5, <1>6, <1>7, <1>8, OtherSteps

\* However many attach events there are, boardattach.py never removes a container
\* that runs, unless a restart has just started it: after it was seen not to run,
\* nobody but a restart starts it, and that restart is a clash.
THEOREM RunningContainerKept == Spec => ContainerKept
<1> DEFINE Inv == TypeOK /\ ClashInv /\ (~clash => KeptInv)
<1>1. Init => Inv
  BY InitType DEF Init, ClashInv, Clashes, Busy, KeptInv
<1>2. Inv /\ [Next]_vars => Inv'
  <2> SUFFICES ASSUME Inv, [Next]_vars PROVE Inv'
    OBVIOUS
  <2>1. TypeOK'
    BY TypeStep
  <2>2. CASE Next
    BY <2>1, <2>2, ClashStep, KeptStep
  <2>3. CASE UNCHANGED vars
    BY <2>1, <2>3 DEF vars, deviceVars, spoolVars, contVars, restVars, checkVars,
                      keyVars, ClashInv, Clashes, Busy, KeptInv
  <2> QED
    BY <2>2, <2>3
<1>3. Inv => [\A h \in Hosts :
                 job[h] = "rm" /\ job'[h] = "run" /\ cont[h] = "running" => clash]_vars
  BY DEF KeptInv
<1> QED
  BY <1>1, <1>2, <1>3, PTL DEF Spec, ContainerKept

-----------------------------------------------------------------------------
(* Boards that were pulled out. *)

LEMMA WorkAlone ==
    ASSUME ClashInv, ~clash, NEW h \in Hosts, Work(h)
    PROVE  \A r \in Restarts : Busy(r) => rhost[r] # h
<1>1. job[h] # "idle" \/ spool[h] # <<>>
  BY DEF Work, AttachJob, AttachNodes, AttachRm, AttachRun, AttachPort, AttachCron,
         AttachReset, DetachJob, DetachDevices, DetachKill, WorkWrite, At
<1> QED
  BY <1>1, RestartAlone

\* What the worker writes when it deregisters the board.
LEMMA DetachedDeletes ==
    /\ \A i \in DOMAIN Detached : Detached[i].val = Nil
    /\ \A k \in Listed : \E i \in DOMAIN Detached : Detached[i] = Del(k)
<1>1. /\ Detached[1] = Del("member") /\ 1 \in DOMAIN Detached
      /\ Detached[4] = Del("server") /\ 4 \in DOMAIN Detached
      /\ Detached[5] = Del("port") /\ 5 \in DOMAIN Detached
  BY DEF Detached
<1>2. \A i \in DOMAIN Detached : Detached[i].val = Nil
  BY DEF Detached, Del, Put
<1> QED
  BY <1>1, <1>2 DEF Listed

\* The worker of h changes a script or a container.
LEMMA WorkRest ==
    ASSUME TypeOK, ClashInv, ~clash, RestInv, NEW h \in Hosts, Work(h)
    PROVE  RestInv'
<1>1. \A r \in Restarts : rpc[r] \in {"start", "port", "cron", "set"} =>
          Busy(r) /\ rhost[r] \in Hosts
  BY DEF TypeOK, RestTypeOK, Busy
<1>2. UNCHANGED <<rpc, rhost>>
  BY WorkElsewhere DEF restVars
<1>3. \A r \in Restarts : rpc[r] \in {"start", "port", "cron", "set"} =>
          cont'[rhost[r]] = cont[rhost[r]]
  BY <1>1, WorkAlone, WorkElsewhere
<1> QED
  BY <1>2, <1>3 DEF RestInv

LEMMA WorkWork ==
    ASSUME TypeOK, WorkInv, NEW h \in Hosts, Work(h)
    PROVE  WorkInv'
<1>1. /\ job \in [Hosts -> {"idle", "nodes", "rm", "run", "port", "cron",
                          "reset", "devices", "kill", "writing"}]
      /\ cont \in [Hosts -> {"none", "stopped", "running"}]
      /\ script \in [Writers -> Seq(Writes)]
      /\ KeyTypeOK
      /\ Worker(h) \in Writers
  BY WriterTypes DEF TypeOK, SpoolTypeOK, ContTypeOK, KeyTypeOK
<1>2. SUFFICES /\ job'[h] \in {"port", "cron", "reset"} => cont'[h] = "running"
               /\ Adds(Worker(h))' => job'[h] = "writing" /\ cont'[h] = "running"
  BY WorkElsewhere, SameScript DEF WorkInv
<1>3. job[h] # "writing" /\ script'[Worker(h)] = script[Worker(h)] => ~Adds(Worker(h))'
  BY SameScript DEF WorkInv
<1>4. CASE Looking(h)
  BY <1>3, <1>4, LookingEffect
<1>5. CASE AttachRm(h)
  BY <1>1, <1>3, <1>5, WriterTypes DEF AttachRm, At, WorkGoto, Silence
<1>6. CASE AttachRun(h)
  BY <1>1, <1>3, <1>6 DEF AttachRun, At, Starts, WorkGoto, keyVars
<1>7. CASE AttachReset(h)
  <2>1. cont'[h] = "running" /\ job[h] # "writing"
    BY <1>7 DEF AttachReset, At, WorkInv, contVars
  <2>2. \/ job'[h] = "writing"
        \/ job'[h] = "idle" /\ UNCHANGED script
    BY <1>1, <1>7 DEF AttachReset, WorkGoto
  <2> QED
    BY <1>3, <2>1, <2>2
<1>8. CASE DetachKill(h)
  <2>1. job'[h] = "writing" /\ script'[Worker(h)] = Detached
    BY <1>1, <1>8, WriterTypes DEF DetachKill, WorkGoto
  <2>2. ~Adds(Worker(h))'
    BY <2>1, DetachedDeletes DEF Adds
  <2> QED
    BY <2>1, <2>2
<1>9. CASE WorkWrite(h)
  <2>1. /\ script'[Worker(h)] = Tail(script[Worker(h)])
        /\ script[Worker(h)] \in Seq(Writes) /\ script[Worker(h)] # <<>>
    BY <1>1, <1>9, WriteScripts DEF WorkWrite
  <2>2. Adds(Worker(h))' => Adds(Worker(h))
    BY <2>1, TailAhead
  <2>3. UNCHANGED cont
    BY <1>9 DEF WorkWrite, contVars
  <2>4. CASE Len(script[Worker(h)]) = 1
    <3>1. \A i \in DOMAIN Tail(script[Worker(h)]) :
              i \in Nat \ {0} /\ i + 1 \in 1..Len(script[Worker(h)])
      BY <2>1
    <3>2. ~Adds(Worker(h))'
      BY <2>1, <2>4, <3>1 DEF Adds
    <3> QED
      BY <1>1, <1>9, <2>4, <3>2 DEF WorkWrite, WorkGoto
  <2>5. CASE Len(script[Worker(h)]) # 1
    <3>1. job'[h] = "writing"
      BY <1>1, <1>9, <2>5 DEF WorkWrite, WorkGoto
    <3> QED
      BY <2>2, <2>3, <3>1 DEF WorkInv
  <2> QED
    BY <2>4, <2>5
<1> QED
  BY <1>4, <1>5, <1>6, <1>7, <1>8, <1>9 DEF Work, Looking

LEMMA WorkLeave ==
    ASSUME TypeOK, LeaveInv, NEW h \in Hosts, Work(h)
    PROVE  LeaveInv'
<1>1. /\ job \in [Hosts -> {"idle", "nodes", "rm", "run", "port", "cron",
                          "reset", "devices", "kill", "writing"}]
      /\ cont \in [Hosts -> {"none", "stopped", "running"}]
      /\ spool \in [Hosts -> Seq(Kinds)]
  BY DEF TypeOK, SpoolTypeOK, ContTypeOK
<1>2. SUFFICES ASSUME cont'[h] = "running", nodes[h] # Both PROVE Pending(h)'
  BY WorkElsewhere DEF LeaveInv, Pending
<1>3. ASSUME cont[h] = "running", job[h] \notin {"devices", "kill"}, spool'[h] = spool[h]
      PROVE  Pending(h)'
  BY <1>2, <1>3, WorkElsewhere DEF LeaveInv, Pending
<1>4. CASE AttachJob(h)
  <2>1. /\ cont[h] = "running" /\ job[h] = "idle"
        /\ spool[h] # <<>> /\ Head(spool[h]) = "attach"
        /\ spool'[h] = Tail(spool[h])
    BY <1>1, <1>2, <1>4 DEF AttachJob, At, contVars
  <2>2. spool[h] \in Seq(Kinds)
    BY <1>1
  <2>3. \A i \in DOMAIN spool[h] :
            spool[h][i] = "detach" =>
                i - 1 \in DOMAIN Tail(spool[h]) /\ Tail(spool[h])[i - 1] = "detach"
    BY <2>1, <2>2
  <2> QED
    BY <1>2, <2>1, <2>3, WorkElsewhere DEF LeaveInv, Pending
<1>5. CASE AttachNodes(h) \/ AttachPort(h) \/ AttachCron(h)
  BY <1>2, <1>3, <1>5 DEF AttachNodes, AttachPort, AttachCron, At, Stay, contVars
<1>6. CASE DetachJob(h)
  <2>1. job'[h] = "devices"
    BY <1>1, <1>2, <1>6 DEF DetachJob, WorkGoto, contVars
  <2> QED
    BY <2>1 DEF Pending
<1>7. CASE DetachDevices(h)
  <2>1. job'[h] = "kill"
    BY <1>1, <1>2, <1>7 DEF DetachDevices, WorkGoto
  <2> QED
    BY <2>1 DEF Pending
<1>8. CASE AttachRm(h) \/ DetachKill(h)
  BY <1>1, <1>2, <1>8 DEF AttachRm, DetachKill, Stopped
<1>9. CASE AttachRun(h)
  BY <1>1, <1>2, <1>9 DEF AttachRun, Starts, Stopped
<1>10. CASE AttachReset(h) \/ WorkWrite(h)
  BY <1>2, <1>3, <1>10 DEF AttachReset, WorkWrite, At, contVars
<1> QED
  BY <1>4, <1>5, <1>6, <1>7, <1>8, <1>9, <1>10 DEF Work

\* The worker of h deletes a key before it leaves the board without a container.
LEMMA WorkList ==
    ASSUME TypeOK, BasicInv, KeptInv, WorkInv, ListInv, NEW h \in Hosts, Work(h)
    PROVE  ListInv'
<1>1. /\ cont \in [Hosts -> {"none", "stopped", "running"}]
      /\ script \in [Writers -> Seq(Writes)]
      /\ KeyTypeOK
      /\ Worker(h) \in Writers
  BY WriterTypes DEF TypeOK, ContTypeOK, KeyTypeOK
<1>2. \A g \in Hosts : Restarting(g)' <=> Restarting(g)
  BY WorkElsewhere DEF Restarting, restVars
<1>3. ASSUME NEW k \in Listed, NEW g \in Hosts, g # h, Behind(g, k) PROVE Behind(g, k)'
  BY <1>2, <1>3, WorkElsewhere, SameScript DEF Behind
<1>4. ASSUME UNCHANGED db, \A k \in Listed : Behind(h, k) => Behind(h, k)'
      PROVE  ListInv'
  BY <1>3, <1>4 DEF ListInv
<1>5. CASE Looking(h)
  <2>1. UNCHANGED <<db, cont, script>>
    BY <1>5, LookingEffect
  <2> QED
    BY <1>2, <1>4, <2>1, SameScript DEF Behind
<1>6. CASE AttachRm(h)
  <2>1. UNCHANGED db /\ script'[Worker(h)] = script[Worker(h)] /\ cont[h] # "running"
    BY <1>1, <1>6, WriterTypes DEF AttachRm, At, Silence, KeptInv
  <2> QED
    BY <1>2, <1>4, <2>1, SameScript DEF Behind
<1>7. CASE AttachRun(h)
  <2>1. UNCHANGED <<db, script>> /\ cont[h] # "running"
    BY <1>7 DEF AttachRun, At, BasicInv, keyVars
  <2> QED
    BY <1>2, <1>4, <2>1, SameScript DEF Behind
<1>8. CASE AttachReset(h)
  <2>1. UNCHANGED db /\ cont'[h] = "running"
    BY <1>8 DEF AttachReset, At, WorkInv, contVars
  <2> QED
    BY <1>4, <2>1 DEF Behind
<1>9. CASE DetachKill(h)
  <2>1. UNCHANGED db /\ script'[Worker(h)] = Detached
    BY <1>1, <1>9, WriterTypes DEF DetachKill
  <2> QED
    BY <1>4, <2>1, DetachedDeletes DEF Behind, Ahead
<1>10. CASE WorkWrite(h)
  <2> DEFINE write == Head(script[Worker(h)])
  <2>1. /\ db' = [db EXCEPT ![write.key] = write.val]
        /\ write \in Writes
        /\ script'[Worker(h)] = Tail(script[Worker(h)])
        /\ script[Worker(h)] \in Seq(Writes) /\ script[Worker(h)] # <<>>
        /\ UNCHANGED cont
    BY <1>1, <1>10, ExecEffect, WriteScripts DEF WorkWrite, contVars
  <2>2. SUFFICES ASSUME NEW k \in Listed, db'[k] # Nil
                 PROVE  \E g \in Hosts : Behind(g, k)'
    BY DEF ListInv
  <2>3. CASE write.key = k
    <3>1. write.val # Nil
      BY <1>1, <2>1, <2>2, <2>3 DEF KeyTypeOK, Listed, Keys
    <3>2. Adds(Worker(h))
      BY <2>1, <3>1 DEF Adds
    <3>3. cont'[h] = "running"
      BY <2>1, <3>2 DEF WorkInv
    <3> QED
      BY <3>3 DEF Behind
  <2>4. CASE write.key # k
    <3>1. db[k] # Nil /\ write # Del(k)
      BY <1>1, <2>1, <2>2, <2>4 DEF KeyTypeOK, Del, Put
    <3>2. PICK g \in Hosts : Behind(g, k)
      BY <3>1 DEF ListInv
    <3>3. Behind(h, k) => Behind(h, k)'
      BY <1>2, <2>1, <3>1, TailAhead DEF Behind
    <3> QED
      BY <1>3, <3>2, <3>3
  <2> QED
    BY <2>3, <2>4
<1> QED
  BY <1>5, <1>6, <1>7, <1>8, <1>9, <1>10 DEF Work, Looking

\* A container that a restart stops is one that it is about to start again.
LEMMA RestartLives ==
    ASSUME TypeOK, ClashInv, ~clash, RestInv,
           NEW r \in Restarts, RestartCall(r) \/ Restart(r),
           NEW g \in Hosts, cont[g] = "running" \/ Restarting(g)
    PROVE  cont'[g] = "running" \/ Restarting(g)'
<1> DEFINE h == rhost[r]
<1>1. /\ cont \in [Hosts -> {"none", "stopped", "running"}]
      /\ rpc \in [Restarts -> {"idle", "stop", "start", "port", "cron", "set", "done"}]
      /\ rhost \in [Restarts -> Hosts \cup {Nil}]
      /\ \A q \in Restarts : Busy(q) => rhost[q] \in Hosts
  BY DEF TypeOK, ContTypeOK, RestTypeOK, Busy
<1>2. CASE cont[g] = "running"
  <2>1. CASE RestartStop(r) /\ h = g
    <3>1. rpc'[r] = "start" /\ rhost'[r] = g
      BY <1>1, <1>2, <2>1 DEF RestartStop, RestAt, RestGoto
    <3> QED
      BY <3>1 DEF Restarting
  <2>2. CASE ~(RestartStop(r) /\ h = g)
    BY <1>1, <1>2, <2>2 DEF Restart, RestartCall, RestartStop, RestartStart, RestartPort,
                            RestartCron, RestartSet, Stopped, Starts
  <2> QED
    BY <2>1, <2>2
<1>3. CASE Restarting(g)
  <2>1. PICK q \in Restarts : rpc[q] = "start" /\ rhost[q] = g
    BY <1>3 DEF Restarting
  <2>2. CASE q # r
    BY <2>1, <2>2, RestartElsewhere DEF Restarting
  <2>3. CASE q = r
    <3>1. nodes[g] = Both /\ cont[g] = "stopped"
      BY <2>1, <2>3, RestartAlone DEF Busy, RestInv
    <3>2. RestartStart(r)
      BY <2>1, <2>3 DEF Restart, RestartCall, RestartStop, RestartPort, RestartCron,
                        RestartSet, RestAt
    <3>3. cont'[g] = "running"
      BY <1>1, <2>1, <2>3, <3>1, <3>2 DEF RestartStart, Starts
    <3> QED
      BY <3>3
  <2> QED
    BY <2>2, <2>3
<1> QED
  BY <1>2, <1>3

\* A restart stops a container and starts it again.
LEMMA RestartKeeps ==
    ASSUME TypeOK, ClashInv, ~clash, WorkInv, RestInv, LeaveInv, ListInv,
           NEW r \in Restarts, RestartCall(r) \/ Restart(r)
    PROVE  WorkInv' /\ RestInv' /\ LeaveInv' /\ ListInv'
<1> DEFINE h == rhost[r]
<1>1. /\ cont \in [Hosts -> {"none", "stopped", "running"}]
      /\ rpc \in [Restarts -> {"idle", "stop", "start", "port", "cron", "set", "done"}]
      /\ rhost \in [Restarts -> Hosts \cup {Nil}]
      /\ db \in [Keys -> Values]
      /\ \A q \in Restarts : Busy(q) => rhost[q] \in Hosts
  BY DEF TypeOK, ContTypeOK, RestTypeOK, KeyTypeOK, Busy
<1>2. /\ UNCHANGED <<job, spool, events, nodes>>
      /\ \A g \in Hosts : Adds(Worker(g))' <=> Adds(Worker(g))
      /\ \A g \in Hosts : \A x : Ahead(Worker(g), x)' <=> Ahead(Worker(g), x)
      /\ \A g \in Hosts : Pending(g)' <=> Pending(g)
  BY RestartElsewhere, SameScript DEF Pending, deviceVars, spoolVars
<1>3. WorkInv'
  <2>1. \A g \in Hosts : cont'[g] # cont[g] => job[g] = "idle"
    BY RestartElsewhere, RestartAlone
  <2> QED
    BY <1>2, <2>1 DEF WorkInv
<1>4. \A q \in Restarts : q # r /\ Busy(q) =>
          /\ rpc'[q] = rpc[q] /\ rhost'[q] = rhost[q]
          /\ cont'[rhost[q]] = cont[rhost[q]]
  BY <1>1, RestartElsewhere, RestartAlone
<1>5. /\ rpc'[r] = "start" => cont'[rhost'[r]] = "stopped"
      /\ rpc'[r] \in {"port", "cron", "set"} => cont'[rhost'[r]] = "running"
  <2>1. CASE RestartCall(r)
    BY <1>1, <2>1 DEF RestartCall, RestGoto
  <2>2. CASE RestartStop(r)
    BY <1>1, <2>2 DEF RestartStop, RestAt, RestGoto, RestOver, Stopped, Busy
  <2>3. CASE RestartStart(r)
    BY <1>1, <2>3 DEF RestartStart, RestAt, RestGoto, RestOver, Starts, Busy
  <2>4. CASE RestartPort(r) \/ RestartCron(r) \/ RestartSet(r)
    BY <1>1, <2>4 DEF RestartPort, RestartCron, RestartSet, RestAt, RestGoto, RestOver
  <2> QED
    BY <2>1, <2>2, <2>3, <2>4 DEF Restart
<1>6. RestInv'
  <2>1. \A q \in Restarts : q # r =>
            /\ rpc'[q] = rpc[q] /\ rhost'[q] = rhost[q]
            /\ rpc[q] \in {"start", "port", "cron", "set"} => Busy(q)
    BY RestartElsewhere DEF Busy
  <2> QED
    BY <1>4, <1>5, <2>1 DEF RestInv
<1>7. LeaveInv'
  <2>1. \A g \in Hosts : cont'[g] = "running" =>
            cont[g] = "running" \/ nodes[g] = Both
    BY <1>1, RestartElsewhere, RestartAlone
  <2> QED
    BY <1>2, <2>1 DEF LeaveInv
<1>8. \A k \in Listed :
          db'[k] # Nil => db[k] # Nil \/ \E g \in Hosts : cont'[g] = "running"
  <2>1. CASE RestartSet(r)
    <3>1. h \in Hosts /\ cont'[h] = "running"
      BY <1>1, <2>1 DEF RestartSet, RestAt, RestInv, Busy
    <3> QED
      BY <3>1
  <2>2. CASE ~RestartSet(r)
    <3>1. UNCHANGED db
      BY <2>2 DEF Restart, RestartCall, RestartStop, RestartStart, RestartPort,
                  RestartCron, keyVars
    <3> QED
      BY <3>1
  <2> QED
    BY <2>1, <2>2
<1>9. \A g \in Hosts : cont[g] = "running" \/ Restarting(g) =>
                            cont'[g] = "running" \/ Restarting(g)'
  BY RestartLives
<1>10. ListInv'
  <2> SUFFICES ASSUME NEW k \in Listed, db'[k] # Nil
               PROVE  \E g \in Hosts : Behind(g, k)'
    BY DEF ListInv
  <2>1. CASE \E g \in Hosts : cont'[g] = "running"
    BY <2>1 DEF Behind
  <2>2. CASE db[k] # Nil
    <3>1. PICK g \in Hosts : Behind(g, k)
      BY <2>2 DEF ListInv
    <3>2. Behind(g, k)'
      BY <1>2, <1>9, <3>1 DEF Behind
    <3> QED
      BY <3>2
  <2> QED
    BY <1>8, <2>1, <2>2
<1> QED
  BY <1>3, <1>6, <1>7, <1>10

\* A step that changes no container, no job and no restart, and nothing the worker
\* has still to write.
LEMMA FrameKeeps ==
    ASSUME WorkInv, RestInv, UNCHANGED <<cont, job, restVars>>,
           \A h \in Hosts : script'[Worker(h)] = script[Worker(h)]
    PROVE  /\ WorkInv' /\ RestInv'
           /\ ListInv /\ (\A k \in Listed : db'[k] # Nil => db[k] # Nil) => ListInv'
           /\ LeaveInv /\ UNCHANGED <<nodes, events, spool>> => LeaveInv'
<1>1. \A h \in Hosts : Restarting(h)' <=> Restarting(h)
  BY DEF Restarting, restVars
<1>2. ListInv /\ (\A k \in Listed : db'[k] # Nil => db[k] # Nil) => ListInv'
  BY <1>1, SameScript DEF ListInv, Behind
<1>3. WorkInv'
  BY SameScript DEF WorkInv
<1>4. RestInv'
  BY DEF RestInv, restVars
<1>5. LeaveInv /\ UNCHANGED <<nodes, events, spool>> => LeaveInv'
  BY DEF LeaveInv, Pending
<1> QED
  BY <1>2, <1>3, <1>4, <1>5

\* Unplugging a board fires the event that will detach it; nothing else takes a
\* device away, and no event is lost.
LEMMA DeviceLeave ==
    ASSUME TypeOK, LeaveInv, NEW h \in Hosts, NEW d \in Both, NEW e \in Kinds,
           Plug(h) \/ Unplug(h) \/ Link(h, d) \/ Spool(h, e) \/ Scan(h)
    PROVE  LeaveInv' /\ UNCHANGED job
<1>1. /\ nodes \in [Hosts -> SUBSET Both]
      /\ events \in [Hosts -> [Kinds -> 0..MaxJobs]]
      /\ spool \in [Hosts -> Seq(Kinds)]
      /\ "detach" \in Kinds /\ MaxJobs \in Nat
  BY HostAssumption DEF TypeOK, DeviceTypeOK, SpoolTypeOK, Kinds
<1>2. UNCHANGED <<job, cont>>
  BY DEF Plug, Unplug, Link, Spool, Scan, spoolVars, contVars
<1>3. ASSUME NEW f \in Kinds, Fire(h, f), UNCHANGED spool
      PROVE  /\ \A g \in Hosts : Pending(g) => Pending(g)'
             /\ f = "detach" => Pending(h)'
  <2>1. \A g \in Hosts : events[g]["detach"] > 0 => events'[g]["detach"] > 0
    BY <1>1, <1>3 DEF Fire
  <2>2. f = "detach" => events'[h]["detach"] > 0
    BY <1>1, <1>3 DEF Fire
  <2> QED
    BY <1>2, <1>3, <2>1, <2>2 DEF Pending
<1>4. CASE Plug(h)
  BY <1>2, <1>4 DEF Plug, spoolVars, LeaveInv, Pending
<1>5. CASE Unplug(h)
  <2>1. \A g \in Hosts : g # h => nodes'[g] = nodes[g]
    BY <1>1, <1>5 DEF Unplug
  <2>2. Fire(h, "detach") /\ UNCHANGED spool
    BY <1>5 DEF Unplug
  <2> QED
    BY <1>1, <1>2, <1>3, <2>1, <2>2 DEF LeaveInv
<1>6. CASE Link(h, d)
  <2>1. \A g \in Hosts : nodes'[g] # Both => nodes[g] # Both
    BY <1>1, <1>6 DEF Link
  <2>2. Fire(h, "attach") /\ UNCHANGED spool /\ "attach" \in Kinds
    BY <1>6 DEF Link, Kinds
  <2> QED
    BY <1>2, <1>3, <2>1, <2>2 DEF LeaveInv
<1>7. CASE Scan(h)
  <2>1. PICK f \in Kinds : Fire(h, f)
    BY <1>7 DEF Scan, Kinds
  <2>2. UNCHANGED <<nodes, spool>>
    BY <1>7 DEF Scan, deviceVars
  <2> QED
    BY <1>2, <1>3, <2>1, <2>2 DEF LeaveInv
<1>8. CASE Spool(h, e)
  <2>1. /\ events' = [events EXCEPT ![h][e] = @ - 1]
        /\ spool' = [spool EXCEPT ![h] = Append(@, e)]
        /\ UNCHANGED nodes
    BY <1>8 DEF Spool, deviceVars
  <2>2. ASSUME NEW g \in Hosts, Pending(g) PROVE Pending(g)'
    <3>1. CASE events[g]["detach"] > 0
      <4>1. CASE g = h /\ e = "detach"
        <5>1. LET s == Append(spool[h], e) IN
                  Len(s) \in DOMAIN s /\ s[Len(s)] = "detach"
          BY <1>1, <4>1
        <5> QED
          BY <1>1, <2>1, <4>1, <5>1 DEF Pending
      <4>2. CASE ~(g = h /\ e = "detach")
        <5>1. events'[g]["detach"] = events[g]["detach"]
          BY <1>1, <2>1, <4>2
        <5> QED
          BY <3>1, <5>1 DEF Pending
      <4> QED
        BY <4>1, <4>2
    <3>2. CASE \E i \in DOMAIN spool[g] : spool[g][i] = "detach"
      <4>1. PICK i \in DOMAIN spool[g] : spool[g][i] = "detach"
        BY <3>2
      <4>2. i \in DOMAIN spool'[g] /\ spool'[g][i] = "detach"
        BY <1>1, <2>1, <4>1
      <4> QED
        BY <4>2 DEF Pending
    <3>3. CASE job[g] \in {"devices", "kill"}
      BY <1>2, <3>3 DEF Pending
    <3> QED
      BY <2>2, <3>1, <3>2, <3>3 DEF Pending
  <2> QED
    BY <1>2, <2>1, <2>2 DEF LeaveInv
<1> QED
  BY <1>2, <1>4, <1>5, <1>6, <1>7, <1>8

\* register.py only writes while its container runs.
LEMMA RegisterKeeps ==
    ASSUME TypeOK, BasicInv, WorkInv, RestInv, LeaveInv, ListInv, NEW h \in Hosts,
           RegisterStart(h) \/ RegisterWrite(h)
    PROVE  WorkInv' /\ RestInv' /\ LeaveInv' /\ ListInv'
<1>1. KeyTypeOK /\ script \in [Writers -> Seq(Writes)]
  BY DEF TypeOK, KeyTypeOK
<1>2. UNCHANGED <<cont, job, restVars, nodes, events, spool>>
  BY DEF RegisterStart, RegisterWrite, contVars, spoolVars, deviceVars
<1>3. \A g \in Hosts : script'[Worker(g)] = script[Worker(g)]
  BY <1>1, WriterTypes, WriteScripts DEF RegisterStart, RegisterWrite
<1>4. CASE RegisterStart(h)
  BY <1>2, <1>3, <1>4, FrameKeeps DEF RegisterStart
<1>5. CASE RegisterWrite(h)
  <2>1. cont'[h] = "running"
    BY <1>2, <1>5 DEF RegisterWrite, Exec, BasicInv
  <2>2. ListInv'
    BY <2>1 DEF ListInv, Behind
  <2> QED
    BY <1>2, <1>3, <2>2, FrameKeeps
<1> QED
  BY <1>4, <1>5

\* The relay only deletes.
LEMMA RelayKeeps ==
    ASSUME TypeOK, BasicInv, WorkInv, RestInv, LeaveInv, ListInv,
           Press \/ Check \/ Users \/ Recover
    PROVE  WorkInv' /\ RestInv' /\ LeaveInv' /\ ListInv'
<1>1. /\ KeyTypeOK /\ db \in [Keys -> Values]
      /\ script \in [Writers -> Seq(Writes)]
  BY DEF TypeOK, KeyTypeOK
<1>2. UNCHANGED <<cont, job, restVars, nodes, events, spool>>
  BY CheckTypes, UserTypes DEF contVars, spoolVars, deviceVars
<1>3. ASSUME \A g \in Hosts : script'[Worker(g)] = script[Worker(g)],
             \A k \in Listed : db'[k] # Nil => db[k] # Nil
      PROVE  WorkInv' /\ RestInv' /\ LeaveInv' /\ ListInv'
  BY <1>2, <1>3, FrameKeeps
<1>4. CASE Users \/ Recover
  BY <1>3, <1>4, UserTypes
<1>5. CASE Press
  BY <1>3, <1>5 DEF Press, keyVars
<1>6. CASE Check
  <2>1. CASE CheckRemove
    BY <1>1, <1>3, <2>1, WriterTypes DEF CheckRemove
  <2>2. CASE CheckWrite
    <3>1. /\ db' = [db EXCEPT ![Head(script[Checker]).key] = Head(script[Checker]).val]
          /\ script[Checker] \in Seq(Writes) /\ script[Checker] # <<>>
          /\ \A v \in Writers : v # Checker => script'[v] = script[v]
      BY <1>1, <2>2, WriterTypes, WriteScripts DEF CheckWrite, Exec
    <3>2. Head(script[Checker]).val = Nil
      BY <3>1 DEF BasicInv, Adds
    <3>3. \A k \in Listed : db'[k] # Nil => db[k] # Nil
      BY <1>1, <3>1, <3>2
    <3>4. \A g \in Hosts : script'[Worker(g)] = script[Worker(g)]
      BY <3>1, WriterTypes
    <3> QED
      BY <1>3, <3>3, <3>4
  <2>3. CASE UNCHANGED keyVars
    BY <1>3, <2>3 DEF keyVars
  <2> QED
    BY <1>6, <2>1, <2>2, <2>3 DEF Check, CheckStart, CheckRead, CheckConnect, CheckAgain
<1> QED
  BY <1>4, <1>5, <1>6

LEMMA UndisturbedStep ==
    ASSUME HostInv, Next, Undisturbed'
    PROVE  Undisturbed /\ WorkInv' /\ RestInv' /\ LeaveInv' /\ ListInv'
<1>1. /\ ~clash /\ ClashInv /\ TypeOK /\ BasicInv /\ KeptInv
      /\ reloads' = Reloadable
  BY ClashStep DEF HostInv, Undisturbed
<1>2. ASSUME NEW h \in Hosts PROVE ~Reload(h)
  BY <1>1, <1>2 DEF Reload, TypeOK, ContTypeOK
<1>3. UNCHANGED reloads
  <2>1. ASSUME NEW h \in Hosts, NEW d \in Both, NEW e \in Kinds,
               \/ Plug(h) \/ Unplug(h) \/ Scan(h) \/ RegisterStart(h) \/ RegisterWrite(h)
               \/ Link(h, d) \/ Spool(h, e)
        PROVE  UNCHANGED reloads
    BY <2>1 DEF Plug, Unplug, Scan, RegisterStart, RegisterWrite, Link, Spool, contVars
  <2>2. "tty" \in Both /\ "attach" \in Kinds
    BY DEF Both, Kinds
  <2> QED
    BY <1>1, <1>2, <2>1, <2>2, OtherSteps, WorkElsewhere, RestartElsewhere DEF contVars
<1>4. Undisturbed /\ WorkInv /\ RestInv /\ LeaveInv /\ ListInv
  BY <1>1, <1>3 DEF HostInv, Undisturbed
<1>5. ASSUME NEW h \in Hosts, Work(h)
      PROVE  WorkInv' /\ RestInv' /\ LeaveInv' /\ ListInv'
  BY <1>1, <1>4, <1>5, WorkWork, WorkRest, WorkLeave, WorkList
<1>6. ASSUME NEW r \in Restarts, RestartCall(r) \/ Restart(r)
      PROVE  WorkInv' /\ RestInv' /\ LeaveInv' /\ ListInv'
  BY <1>1, <1>4, <1>6, RestartKeeps
<1>7. ASSUME NEW h \in Hosts, NEW d \in Both, NEW e \in Kinds,
             Plug(h) \/ Unplug(h) \/ Link(h, d) \/ Spool(h, e) \/ Scan(h)
      PROVE  WorkInv' /\ RestInv' /\ LeaveInv' /\ ListInv'
  <2>1. LeaveInv' /\ UNCHANGED job
    BY <1>1, <1>4, <1>7, DeviceLeave
  <2>2. UNCHANGED <<contVars, restVars, keyVars>>
    BY <1>1, <1>7, DeviceTypes
  <2> QED
    BY <1>4, <2>1, <2>2, FrameKeeps DEF contVars, keyVars
<1>8. "tty" \in Both /\ "attach" \in Kinds
  BY DEF Both, Kinds
<1> QED
  BY <1>1, <1>2, <1>4, <1>5, <1>6, <1>7, <1>8, RegisterKeeps, RelayKeeps DEF Next

LEMMA HostStep == HostInv /\ [Next]_vars => HostInv'
<1> SUFFICES ASSUME HostInv, [Next]_vars PROVE HostInv'
  OBVIOUS
<1>1. TypeOK'
  BY TypeStep DEF HostInv
<1>2. CASE Next
  <2>1. ClashInv' /\ BasicInv' /\ (~clash' => KeptInv')
    BY <1>2, ClashStep, BasicStep, KeptStep DEF HostInv
  <2> QED
    BY <1>1, <1>2, <2>1, UndisturbedStep DEF HostInv
<1>3. CASE UNCHANGED vars
  BY <1>1, <1>3 DEF vars, deviceVars, spoolVars, contVars, restVars, checkVars, keyVars,
                    HostInv, ClashInv, Clashes, Busy, BasicInv, KeptInv, WorkInv, RestInv,
                    LeaveInv, ListInv, Behind, Restarting, Pending, Adds, Ahead, Undisturbed
<1> QED
  BY <1>2, <1>3

LEMMA HostInit == Init => HostInv
<1> SUFFICES ASSUME Init PROVE HostInv
  OBVIOUS
<1>1. \A w \in Writers : script[w] = <<>>
  BY DEF Init
<1>2. ~Adds(Checker) /\ \A h \in Hosts : ~Adds(Worker(h))
  BY <1>1, WriterTypes DEF Adds
<1>3. ClashInv /\ BasicInv /\ KeptInv
  BY <1>1, <1>2, WriterTypes DEF Init, ClashInv, Clashes, Busy, BasicInv, KeptInv
<1>4. WorkInv /\ RestInv /\ LeaveInv
  BY <1>2 DEF Init, WorkInv, RestInv, LeaveInv
<1>5. ListInv
  BY DEF Init, ListInv, Listed, Keys
<1> QED
  BY <1>3, <1>4, <1>5, InitType DEF HostInv

LEMMA QuietHost ==
    ASSUME Quiet, NEW h \in Hosts
    PROVE  ~Pending(h)
<1>1. job[h] = "idle" /\ spool[h] = <<>>
  BY DEF Quiet
<1>2. events[h]["detach"] = 0
  BY DEF Quiet, Kinds
<1>3. ~(events[h]["detach"] > 0)
  BY <1>2
<1>4. ~\E i \in DOMAIN spool[h] : spool[h][i] = "detach"
  BY <1>1
<1> QED
  BY <1>1, <1>3, <1>4 DEF Pending

\* Nothing pending, nothing restarting and nothing to write leave nothing that could
\* stand behind a container or a registration.
LEMMA GoneFromInv == HostInv => GoneWhenQuiet
<1> SUFFICES ASSUME HostInv, Quiet, ~clash, reloads = Reloadable,
                    \A h \in Hosts : nodes[h] = {}
             PROVE  /\ \A k \in Listed : db[k] = Nil
                    /\ \A h \in Hosts : cont[h] # "running"
  BY DEF GoneWhenQuiet, Listed
<1>1. \A h \in Hosts : ~Pending(h)
  BY QuietHost
<1>2. \A h \in Hosts : nodes[h] # Both
  BY DEF Both
<1>3. \A h \in Hosts : cont[h] # "running"
  BY <1>1, <1>2 DEF HostInv, Undisturbed, LeaveInv
<1>4. \A h \in Hosts : ~Restarting(h)
  BY DEF Quiet, Busy, Restarting
<1>5. \A h \in Hosts : \A k \in Listed : ~Ahead(Worker(h), Del(k))
  BY WriterTypes DEF Quiet, Ahead
<1> QED
  BY <1>3, <1>4, <1>5 DEF HostInv, Undisturbed, ListInv, Behind

\* Once nothing is under way any more, a board that was pulled out of its host has
\* left no running container and is not registered, at whichever host it was and
\* however its events, the scan, the SSH check, register.py and the relay overlapped,
\* unless a boardrestart.py has clashed with other work or a host was reloaded.
THEOREM PulledOutIsGone == Spec => []GoneWhenQuiet
BY GoneFromInv, HostInit, HostStep, PTL DEF Spec

-----------------------------------------------------------------------------
(* Where the relay looks for the board. *)

\* Of the key k, seq writes nothing but v.
Named(seq, k, v) == \A i \in DOMAIN seq : seq[i].key = k => seq[i].val \in {Nil, v}

\* A restart has started the container anew and not yet edited its cron job; and
\* one has been begun.
Moving(h) == \E r \in Restarts : rhost[r] = h /\ rpc[r] \in {"port", "cron"}
Moved == \E r \in Restarts : rpc[r] # "idle"

\* What holds whatever happens: only the host where the board is plugged in has its
\* devices, a host registers no other, without a container there is no cron job, and
\* a job is not over before its writes.
PlugInv == \A h \in Hosts : nodes[h] # {} => plugged = h
NameInv == \A h \in Hosts : /\ Named(script[Worker(h)], "server", h)
                            /\ Named(script[Register(h)], "server", h)
BareInv == \A h \in Hosts : cont[h] = "none" => cron[h] = Nil
SpentInv == \A h \in Hosts : script[Worker(h)] # <<>> => job[h] = "writing"
PlainInv == PlugInv /\ NameInv /\ BareInv /\ SpentInv

\* The ports at h: what is read is what docker has mapped, and what is written too,
\* but for a register.py that a restart has overtaken.
Wired(h) ==
    /\ job[h] \in {"cron", "reset"} => jobPort[h] = port[h]
    /\ job[h] = "reset" \/ Adds(Worker(h)) => cron[h] = port[h]
    /\ cont[h] = "running" /\ cron[h] # Nil => cron[h] = port[h] \/ Moving(h)
    /\ script[Register(h)] # <<>> => cron[h] # Nil
    /\ \/ Moved
       \/ /\ Named(script[Worker(h)], "port", port[h])
          /\ Named(script[Register(h)], "port", port[h])
WireInv == \A h \in Hosts : Wired(h)
MoveInv == \A r \in Restarts :
    /\ rpc[r] \in {"cron", "set"} => rport[r] = port[rhost[r]]
    /\ rpc[r] = "set" => cron[rhost[r]] = port[rhost[r]]

\* The server is a host whose container has not gone for good, or is about to be
\* deleted; and so is the port.
Lives(h) == cont[h] = "running" \/ Restarting(h)
Leads(h, p) == Lives(h) /\ cron[h] # Nil /\ (Moved \/ port[h] = p)
HomeInv == \A h \in Hosts : db["server"] = h => Behind(h, "server")
PortInv == db["port"] # Nil =>
    \E h \in Hosts : Leads(h, db["port"]) \/ Ahead(Worker(h), Del("port"))

TrueInv == /\ PlainInv
           /\ Undisturbed => WireInv /\ MoveInv /\ HomeInv /\ PortInv

LEMMA NamedTail ==
    ASSUME NEW seq \in Seq(Writes), seq # <<>>, NEW k, NEW v, Named(seq, k, v)
    PROVE  Named(Tail(seq), k, v)
<1>1. \A i \in DOMAIN Tail(seq) : i + 1 \in DOMAIN seq /\ Tail(seq)[i] = seq[i + 1]
  OBVIOUS
<1> QED
  BY <1>1 DEF Named

LEMMA WrittenNames ==
    ASSUME NEW h, NEW p
    PROVE  /\ Named(Attached(h, p), "server", h) /\ Named(Attached(h, p), "port", p)
           /\ Named(Registered(h, p), "server", h) /\ Named(Registered(h, p), "port", p)
           /\ \A k, v : Named(Detached, k, v) /\ Named(<<>>, k, v)
<1>1. \A k, v : Named(Detached, k, v)
  BY DetachedDeletes DEF Named
<1>2. \A k, v : Named(<<>>, k, v)
  BY DEF Named
<1>3. Named(Attached(h, p), "server", h) /\ Named(Attached(h, p), "port", p)
  BY DEF Named, Attached, Put, Del
<1>4. Named(Registered(h, p), "server", h) /\ Named(Registered(h, p), "port", p)
  BY DEF Named, Registered, Put
<1> QED
  BY <1>1, <1>2, <1>3, <1>4

\* What the work at h does to its scripts, and that it does nothing elsewhere.
LEMMA WorkScripts ==
    ASSUME TypeOK, NEW h \in Hosts, Work(h)
    PROVE  /\ \/ script'[Worker(h)] = script[Worker(h)]
              \/ job[h] = "reset" /\ script'[Worker(h)] = Attached(h, jobPort[h])
              \/ script'[Worker(h)] = Detached
              \/ /\ script[Worker(h)] \in Seq(Writes) /\ script[Worker(h)] # <<>>
                 /\ script'[Worker(h)] = Tail(script[Worker(h)])
           /\ script'[Register(h)] \in {script[Register(h)], <<>>}
           /\ \A g \in Hosts : g # h =>
                 /\ script'[Register(g)] = script[Register(g)]
                 /\ port'[g] = port[g] /\ cron'[g] = cron[g] /\ jobPort'[g] = jobPort[g]
           /\ UNCHANGED plugged
<1>1. /\ port \in [Hosts -> Ports \cup {Nil}]
      /\ cron \in [Hosts -> Ports \cup {Nil}]
      /\ jobPort \in [Hosts -> Ports \cup {Nil}]
      /\ script \in [Writers -> Seq(Writes)]
      /\ KeyTypeOK
  BY DEF TypeOK, SpoolTypeOK, ContTypeOK, KeyTypeOK
<1>2. UNCHANGED plugged
  BY DEF Work, AttachJob, AttachNodes, AttachRm, AttachRun, AttachPort, AttachCron,
         AttachReset, DetachJob, DetachDevices, DetachKill, WorkWrite, At, deviceVars
<1>3. CASE AttachJob(h) \/ DetachJob(h) \/ AttachNodes(h) \/ DetachDevices(h)
  BY <1>1, <1>2, <1>3 DEF AttachJob, DetachJob, AttachNodes, DetachDevices, Stay,
                          WorkGoto, contVars, keyVars
<1>4. CASE AttachPort(h) \/ AttachCron(h)
  BY <1>1, <1>2, <1>4 DEF AttachPort, AttachCron, WorkGoto, contVars, keyVars
<1>5. CASE AttachRm(h)
  BY <1>1, <1>2, <1>5, WriterTypes DEF AttachRm, Stopped, Silence, WorkGoto
<1>6. CASE AttachRun(h)
  <2>1. PICK p \in Ports \cup {Nil} : port' = [port EXCEPT ![h] = p]
    BY <1>6 DEF AttachRun, Starts, Stopped
  <2>2. \A g \in Hosts : g # h => cron'[g] = cron[g]
    BY <1>1, <1>6 DEF AttachRun, Stopped
  <2> QED
    BY <1>1, <1>2, <1>6, <2>1, <2>2 DEF AttachRun, WorkGoto, keyVars
<1>7. CASE AttachReset(h)
  BY <1>1, <1>2, <1>7, WriterTypes DEF AttachReset, At, WorkGoto, contVars
<1>8. CASE DetachKill(h)
  BY <1>1, <1>2, <1>8, WriterTypes DEF DetachKill, Stopped, WorkGoto
<1>9. CASE WorkWrite(h)
  BY <1>1, <1>2, <1>9, WriterTypes, WriteScripts DEF WorkWrite, WorkGoto, contVars
<1> QED
  BY <1>3, <1>4, <1>5, <1>6, <1>7, <1>8, <1>9 DEF Work

\* What a restart does at its host, and that it does nothing elsewhere.
LEMMA RestartScripts ==
    ASSUME TypeOK, NEW r \in Restarts, RestartCall(r) \/ Restart(r)
    PROVE  /\ \A g \in Hosts : script'[Register(g)] \in {script[Register(g)], <<>>}
           /\ \A g \in Hosts : g # rhost[r] \/ ~Busy(r) =>
                 /\ script'[Register(g)] = script[Register(g)]
                 /\ port'[g] = port[g] /\ cron'[g] = cron[g]
           /\ \A q \in Restarts : q # r => rport'[q] = rport[q]
           /\ rpc'[r] # "idle"
<1>1. /\ port \in [Hosts -> Ports \cup {Nil}]
      /\ cron \in [Hosts -> Ports \cup {Nil}]
      /\ rpc \in [Restarts -> {"idle", "stop", "start", "port", "cron", "set", "done"}]
      /\ rport \in [Restarts -> Ports \cup {Nil}]
      /\ script \in [Writers -> Seq(Writes)]
      /\ Busy(r) => rhost[r] \in Hosts
  BY DEF TypeOK, ContTypeOK, RestTypeOK, KeyTypeOK, Busy
<1> USE DEF RestAt, RestGoto, RestOver, Busy
<1>2. CASE RestartCall(r)
  BY <1>1, <1>2 DEF RestartCall, keyVars
<1>3. CASE RestartStop(r)
  BY <1>1, <1>3, WriterTypes DEF RestartStop, Stopped, Silence
<1>4. CASE RestartStart(r)
  <2>1. \A g \in Hosts : g # rhost[r] => port'[g] = port[g]
    BY <1>1, <1>4 DEF RestartStart, Starts
  <2> QED
    BY <1>1, <1>4, <2>1 DEF RestartStart, keyVars
<1>5. CASE RestartPort(r) \/ RestartCron(r) \/ RestartSet(r)
  BY <1>1, <1>5 DEF RestartPort, RestartCron, RestartSet, keyVars
<1> QED
  BY <1>2, <1>3, <1>4, <1>5 DEF Restart

LEMMA RegisterScripts ==
    ASSUME TypeOK, NEW h \in Hosts, RegisterStart(h) \/ RegisterWrite(h)
    PROVE  /\ \A g \in Hosts : /\ script'[Worker(g)] = script[Worker(g)]
                               /\ g # h => script'[Register(g)] = script[Register(g)]
           /\ \/ /\ RegisterStart(h) /\ UNCHANGED db
                 /\ script'[Register(h)] = Registered(h, cron[h])
              \/ /\ script[Register(h)] \in Seq(Writes) /\ script[Register(h)] # <<>>
                 /\ script'[Register(h)] = Tail(script[Register(h)])
                 /\ Head(script[Register(h)]) \in Writes
                 /\ db' = [db EXCEPT ![Head(script[Register(h)]).key] =
                                         Head(script[Register(h)]).val]
           /\ UNCHANGED <<deviceVars, spoolVars, contVars, restVars>>
<1>1. KeyTypeOK /\ script \in [Writers -> Seq(Writes)]
  BY DEF TypeOK, KeyTypeOK
<1>2. CASE RegisterStart(h)
  BY <1>1, <1>2, WriterTypes DEF RegisterStart
<1>3. CASE RegisterWrite(h)
  BY <1>1, <1>3, WriterTypes, WriteScripts, ExecEffect DEF RegisterWrite
<1> QED
  BY <1>2, <1>3

LEMMA RelayScripts ==
    ASSUME TypeOK, BasicInv, Press \/ Check \/ Users \/ Recover
    PROVE  /\ \A g \in Hosts : /\ script'[Worker(g)] = script[Worker(g)]
                               /\ script'[Register(g)] = script[Register(g)]
           /\ \A k \in Listed : db'[k] \in {Nil, db[k]}
           /\ UNCHANGED <<deviceVars, spoolVars, contVars, restVars>>
<1>1. /\ KeyTypeOK /\ db \in [Keys -> Values]
      /\ script \in [Writers -> Seq(Writes)]
  BY DEF TypeOK, KeyTypeOK
<1>2. UNCHANGED <<deviceVars, spoolVars, contVars, restVars>>
  BY CheckTypes, UserTypes
<1>3. CASE Users \/ Recover
  BY <1>2, <1>3, UserTypes
<1>4. CASE CheckRemove
  BY <1>1, <1>2, <1>4, WriterTypes DEF CheckRemove
<1>5. CASE CheckWrite
  <2>1. /\ db' = [db EXCEPT ![Head(script[Checker]).key] = Head(script[Checker]).val]
        /\ script[Checker] \in Seq(Writes) /\ script[Checker] # <<>>
        /\ \A v \in Writers : v # Checker => script'[v] = script[v]
    BY <1>1, <1>5, WriterTypes, WriteScripts DEF CheckWrite, Exec
  <2>2. Head(script[Checker]).val = Nil
    BY <2>1 DEF BasicInv, Adds
  <2>3. \A k \in Keys : db'[k] \in {Nil, db[k]}
    BY <1>1, <2>1, <2>2
  <2> QED
    BY <1>2, <2>1, <2>3, WriterTypes DEF Listed, Keys
<1>6. CASE UNCHANGED keyVars
  BY <1>2, <1>6 DEF keyVars
<1> QED
  BY <1>3, <1>4, <1>5, <1>6 DEF Press, Check, CheckStart, CheckRead, CheckConnect, CheckAgain

\* A step of the devices changes neither a container, a script nor a job.
LEMMA DevicePlug ==
    ASSUME TypeOK, PlugInv, NEW h \in Hosts, NEW d \in Both, NEW e \in Kinds,
           Plug(h) \/ Unplug(h) \/ Link(h, d) \/ Spool(h, e) \/ Scan(h)
    PROVE  /\ PlugInv'
           /\ UNCHANGED <<job, jobPort, contVars, restVars, keyVars>>
<1>1. nodes \in [Hosts -> SUBSET Both] /\ \A g \in Hosts : g # Nil
  BY HostAssumption DEF TypeOK, DeviceTypeOK
<1>2. CASE Plug(h)
  BY <1>1, <1>2 DEF Plug, PlugInv, spoolVars
<1>3. CASE Unplug(h)
  BY <1>1, <1>3 DEF Unplug, PlugInv
<1>4. CASE Link(h, d)
  BY <1>1, <1>4 DEF Link, PlugInv
<1>5. CASE Spool(h, e) \/ Scan(h)
  BY <1>5 DEF Spool, Scan, PlugInv, deviceVars
<1> QED
  BY <1>2, <1>3, <1>4, <1>5

LEMMA WorkSpent ==
    ASSUME TypeOK, SpentInv, NEW h \in Hosts, Work(h)
    PROVE  script'[Worker(h)] # <<>> => job'[h] = "writing"
<1>1. /\ job \in [Hosts -> {"idle", "nodes", "rm", "run", "port", "cron",
                          "reset", "devices", "kill", "writing"}]
      /\ script \in [Writers -> Seq(Writes)]
      /\ KeyTypeOK
      /\ Worker(h) \in Writers
  BY WriterTypes DEF TypeOK, SpoolTypeOK, KeyTypeOK
<1>2. CASE Looking(h)
  BY <1>2, LookingEffect DEF SpentInv
<1>3. CASE AttachRm(h) \/ AttachRun(h)
  BY <1>1, <1>3, WriterTypes DEF AttachRm, AttachRun, At, Silence, SpentInv, keyVars
<1>4. CASE AttachReset(h) \/ DetachKill(h)
  BY <1>1, <1>4 DEF AttachReset, DetachKill, At, WorkGoto, SpentInv
<1>5. CASE WorkWrite(h)
  <2>1. /\ script'[Worker(h)] = Tail(script[Worker(h)])
        /\ script[Worker(h)] \in Seq(Writes) /\ script[Worker(h)] # <<>>
    BY <1>1, <1>5, WriteScripts DEF WorkWrite
  <2>2. Len(script[Worker(h)]) = 1 => script'[Worker(h)] = <<>>
    <3> DEFINE rest == Tail(script[Worker(h)])
    <3>1. rest \in Seq(Writes) /\ (Len(script[Worker(h)]) = 1 => Len(rest) = 0)
      BY <2>1
    <3> HIDE DEF rest
    <3>2. rest = <<>> <=> Len(rest) = 0
      BY <3>1
    <3> QED
      BY <2>1, <3>1, <3>2 DEF rest
  <2>3. Len(script[Worker(h)]) # 1 => job'[h] = "writing"
    BY <1>1, <1>5 DEF WorkWrite, WorkGoto
  <2> QED
    BY <2>2, <2>3
<1> QED
  BY <1>2, <1>3, <1>4, <1>5 DEF Work, Looking

LEMMA PlainStep ==
    ASSUME TypeOK, BasicInv, PlainInv, Next
    PROVE  PlainInv'
<1>1. /\ cont \in [Hosts -> {"none", "stopped", "running"}]
      /\ cron \in [Hosts -> Ports \cup {Nil}]
      /\ script \in [Writers -> Seq(Writes)]
  BY DEF TypeOK, ContTypeOK, KeyTypeOK
<1>2. ASSUME UNCHANGED <<plugged, nodes>> PROVE PlugInv'
  BY <1>2 DEF PlainInv, PlugInv
<1>3. ASSUME UNCHANGED <<cont, cron>> PROVE BareInv'
  BY <1>3 DEF PlainInv, BareInv
<1>4. ASSUME UNCHANGED script PROVE NameInv'
  BY <1>4 DEF PlainInv, NameInv
<1>0. ASSUME UNCHANGED job, \A g \in Hosts : script'[Worker(g)] = script[Worker(g)]
      PROVE  SpentInv'
  BY <1>0 DEF PlainInv, SpentInv
<1>5. ASSUME NEW h \in Hosts, NEW d \in Both, NEW e \in Kinds,
             Plug(h) \/ Unplug(h) \/ Link(h, d) \/ Spool(h, e) \/ Scan(h)
      PROVE  PlainInv'
  BY <1>0, <1>3, <1>4, <1>5, DevicePlug DEF PlainInv, contVars, keyVars
<1>6. ASSUME NEW h \in Hosts, Work(h) PROVE PlainInv'
  <2>1. PlugInv'
    BY <1>2, <1>6, WorkElsewhere, WorkScripts
  <2>2. NameInv'
    <3>1. ASSUME NEW g \in Hosts, g # h
          PROVE  /\ script'[Worker(g)] = script[Worker(g)]
                 /\ script'[Register(g)] = script[Register(g)]
      BY <1>6, <3>1, WorkElsewhere, WorkScripts
    <3>2. Named(script'[Worker(h)], "server", h)
      BY <1>6, WorkScripts, WrittenNames, NamedTail DEF PlainInv, NameInv
    <3>3. Named(script'[Register(h)], "server", h)
      BY <1>6, WorkScripts, WrittenNames DEF PlainInv, NameInv
    <3> QED
      BY <3>1, <3>2, <3>3 DEF PlainInv, NameInv
  <2>3. BareInv'
    <3>1. cont'[h] = "none" => cron'[h] = Nil
      <4>1. CASE Looking(h)
        <5>1. UNCHANGED cont
          BY <4>1, LookingEffect
        <5>2. cron'[h] = cron[h] \/ cont[h] = "running"
          BY <1>1, <4>1 DEF Looking, AttachJob, AttachNodes, AttachPort, AttachCron,
                            DetachJob, DetachDevices, Stay, contVars
        <5> QED
          BY <5>1, <5>2 DEF PlainInv, BareInv
      <4>2. CASE AttachRm(h) \/ AttachRun(h) \/ DetachKill(h)
        BY <1>1, <4>2 DEF AttachRm, AttachRun, DetachKill, Stopped, Starts, PlainInv, BareInv
      <4>3. CASE AttachReset(h) \/ WorkWrite(h)
        BY <4>3 DEF AttachReset, WorkWrite, contVars, PlainInv, BareInv
      <4> QED
        BY <1>6, <4>1, <4>2, <4>3 DEF Work, Looking
    <3> QED
      BY <1>6, <3>1, WorkElsewhere, WorkScripts DEF PlainInv, BareInv
  <2>4. SpentInv'
    <3>1. script'[Worker(h)] # <<>> => job'[h] = "writing"
      BY <1>6, WorkSpent DEF PlainInv
    <3> QED
      BY <1>6, <3>1, WorkElsewhere DEF PlainInv, SpentInv
  <2> QED
    BY <2>1, <2>2, <2>3, <2>4 DEF PlainInv
<1>7. ASSUME NEW h \in Hosts, Reload(h) PROVE PlainInv'
  <2>1. /\ cont' = [cont EXCEPT ![h] = "none"]
        /\ cron' = [cron EXCEPT ![h] = Nil]
        /\ script' = [script EXCEPT ![Register(h)] = <<>>]
        /\ UNCHANGED <<plugged, nodes, job>>
    BY <1>7 DEF Reload, Stopped, Silence, deviceVars, spoolVars
  <2>2. \A g \in Hosts : /\ script'[Worker(g)] = script[Worker(g)]
                         /\ script'[Register(g)] \in {script[Register(g)], <<>>}
    BY <1>1, <2>1, WriterTypes
  <2>3. NameInv'
    BY <2>2, WrittenNames DEF PlainInv, NameInv
  <2>4. BareInv'
    BY <1>1, <2>1 DEF PlainInv, BareInv
  <2> QED
    BY <1>0, <1>2, <2>1, <2>2, <2>3, <2>4 DEF PlainInv
<1>8. ASSUME NEW h \in Hosts, RegisterStart(h) \/ RegisterWrite(h) PROVE PlainInv'
  <2>1. NameInv'
    BY <1>8, RegisterScripts, WrittenNames, NamedTail DEF PlainInv, NameInv
  <2> QED
    BY <1>0, <1>2, <1>3, <1>8, <2>1, RegisterScripts
    DEF PlainInv, deviceVars, contVars, spoolVars
<1>9. ASSUME NEW r \in Restarts, RestartCall(r) \/ Restart(r) PROVE PlainInv'
  <2>1. NameInv'
    BY <1>9, RestartElsewhere, RestartScripts, WrittenNames DEF PlainInv, NameInv
  <2>2. BareInv'
    <3>1. CASE RestartCron(r)
      BY <1>1, <3>1 DEF RestartCron, PlainInv, BareInv
    <3>2. CASE RestartStop(r)
      BY <1>1, <3>2 DEF RestartStop, Stopped, PlainInv, BareInv
    <3>3. CASE RestartStart(r)
      BY <1>1, <3>3 DEF RestartStart, Starts, PlainInv, BareInv
    <3>4. CASE RestartCall(r) \/ RestartPort(r) \/ RestartSet(r)
      BY <1>3, <3>4 DEF RestartCall, RestartPort, RestartSet
    <3> QED
      BY <1>9, <3>1, <3>2, <3>3, <3>4 DEF Restart
  <2> QED
    BY <1>0, <1>2, <1>9, <2>1, <2>2, RestartElsewhere DEF PlainInv, deviceVars, spoolVars
<1>10. CASE Press \/ Check \/ Users \/ Recover
  <2>1. NameInv'
    BY <1>10, RelayScripts DEF PlainInv, NameInv
  <2> QED
    BY <1>0, <1>2, <1>3, <1>10, <2>1, RelayScripts
    DEF PlainInv, deviceVars, contVars, spoolVars
<1>11. "tty" \in Both /\ "attach" \in Kinds
  BY DEF Both, Kinds
<1> QED
  BY <1>5, <1>6, <1>7, <1>8, <1>9, <1>10, <1>11 DEF Next

\* What has to be shown of the host h for Wired(h).
LEMMA WiredSame ==
    ASSUME NEW h, Wired(h),
           job'[h] = job[h], jobPort'[h] = jobPort[h], cont'[h] = cont[h],
           port'[h] = port[h], cron'[h] = cron[h],
           script'[Worker(h)] = script[Worker(h)],
           script'[Register(h)] \in {script[Register(h)], <<>>},
           Moving(h) => Moving(h)', Moved => Moved'
    PROVE  Wired(h)'
<1>1. Named(<<>>, "port", port'[h])
  BY WrittenNames
<1> QED
  BY <1>1, SameScript DEF Wired

\* A step that leaves the containers, the jobs, the restarts and the scripts of the
\* hosts alone, and writes neither a server nor a port.
LEMMA TrueFrame ==
    ASSUME WireInv, MoveInv, HomeInv, PortInv,
           UNCHANGED <<job, jobPort, contVars, restVars>>,
           \A g \in Hosts : /\ script'[Worker(g)] = script[Worker(g)]
                            /\ script'[Register(g)] = script[Register(g)],
           \A k \in Listed : db'[k] \in {Nil, db[k]}
    PROVE  WireInv' /\ MoveInv' /\ HomeInv' /\ PortInv'
<1>1. /\ \A g \in Hosts : Moving(g)' <=> Moving(g)
      /\ Moved' <=> Moved
      /\ \A g \in Hosts : Restarting(g)' <=> Restarting(g)
  BY DEF Moving, Moved, Restarting, restVars
<1>2. \A g \in Hosts : \A x : Ahead(Worker(g), x)' <=> Ahead(Worker(g), x)
  BY SameScript
<1>3. WireInv'
  BY <1>1, WiredSame DEF WireInv, contVars
<1>4. MoveInv'
  BY DEF MoveInv, restVars, contVars
<1>5. HomeInv'
  BY <1>1, <1>2, HostAssumption DEF HomeInv, Behind, Listed, contVars
<1>6. PortInv'
  BY <1>1, <1>2 DEF PortInv, Leads, Lives, Listed, contVars
<1> QED
  BY <1>3, <1>4, <1>5, <1>6

\* register.py writes while its container runs, and what its cron job says.
LEMMA RegisterTrue ==
    ASSUME TypeOK, BasicInv, NameInv, WireInv, MoveInv, HomeInv, PortInv,
           NEW h \in Hosts, RegisterStart(h) \/ RegisterWrite(h)
    PROVE  WireInv' /\ MoveInv' /\ HomeInv' /\ PortInv'
<1> DEFINE write == Head(script[Register(h)])
<1>1. /\ UNCHANGED <<job, jobPort, cont, port, cron, rpc, rhost, rport>>
      /\ \A g \in Hosts : /\ script'[Worker(g)] = script[Worker(g)]
                          /\ g # h => script'[Register(g)] = script[Register(g)]
      /\ db \in [Keys -> Values]
  BY RegisterScripts DEF spoolVars, contVars, restVars, TypeOK, KeyTypeOK
<1>2. /\ \A g \in Hosts : Moving(g)' <=> Moving(g)
      /\ Moved' <=> Moved
      /\ \A g \in Hosts : Restarting(g)' <=> Restarting(g)
      /\ \A g \in Hosts : \A x : Ahead(Worker(g), x)' <=> Ahead(Worker(g), x)
  BY <1>1, SameScript DEF Moving, Moved, Restarting
<1>3. /\ cont[h] = "running" /\ cron[h] # Nil
      /\ Moved \/ Named(script'[Register(h)], "port", port[h])
  <2>1. CASE RegisterStart(h) /\ script'[Register(h)] = Registered(h, cron[h])
    <3>1. cont[h] = "running" /\ cron[h] # Nil
      BY <2>1 DEF RegisterStart
    <3>2. Moving(h) => Moved
      BY DEF Moving, Moved
    <3>3. Moved \/ cron[h] = port[h]
      BY <3>1, <3>2 DEF WireInv, Wired
    <3>4. Named(Registered(h, cron[h]), "port", cron[h])
      BY WrittenNames
    <3> QED
      BY <2>1, <3>1, <3>3, <3>4
  <2>2. CASE /\ script[Register(h)] \in Seq(Writes) /\ script[Register(h)] # <<>>
             /\ script'[Register(h)] = Tail(script[Register(h)])
    <3>1. cont[h] = "running" /\ cron[h] # Nil
      BY <2>2 DEF BasicInv, WireInv, Wired
    <3>2. Moved \/ Named(script[Register(h)], "port", port[h])
      BY DEF WireInv, Wired
    <3>3. Moved \/ Named(Tail(script[Register(h)]), "port", port[h])
      BY <2>2, <3>2, NamedTail
    <3> QED
      BY <2>2, <3>1, <3>3
  <2> QED
    BY <2>1, <2>2, RegisterScripts
<1>4. WireInv'
  <2>1. ASSUME NEW g \in Hosts, g # h PROVE Wired(g)'
    BY <1>1, <1>2, <2>1, WiredSame DEF WireInv
  <2>2. Wired(h)'
    BY <1>1, <1>2, <1>3, SameScript DEF WireInv, Wired
  <2> QED
    BY <2>1, <2>2 DEF WireInv
<1>5. MoveInv'
  BY <1>1 DEF MoveInv
<1>6. CASE UNCHANGED db
  BY <1>1, <1>2, <1>4, <1>5, <1>6 DEF HomeInv, Behind, PortInv, Leads, Lives
<1>7. CASE /\ script[Register(h)] \in Seq(Writes) /\ script[Register(h)] # <<>>
           /\ write \in Writes
           /\ db' = [db EXCEPT ![write.key] = write.val]
  <2>0. write = script[Register(h)][1] /\ 1 \in DOMAIN script[Register(h)]
    BY <1>7
  <2>1. HomeInv'
    <3>1. write.key = "server" => write.val \in {Nil, h}
      BY <2>0 DEF NameInv, Named
    <3>2. db'["server"] # db["server"] => db'["server"] \in {Nil, h}
      BY <1>1, <1>7, <3>1
    <3>3. Behind(h, "server")'
      BY <1>1, <1>3 DEF Behind
    <3>4. \A g \in Hosts : Behind(g, "server") => Behind(g, "server")'
      BY <1>1, <1>2 DEF Behind
    <3> QED
      BY <3>2, <3>3, <3>4, HostAssumption DEF HomeInv
  <2>2. PortInv'
    <3>1. write.key = "port" => Moved \/ write.val \in {Nil, port[h]}
      BY <2>0 DEF WireInv, Wired, Named
    <3>2. db'["port"] # db["port"] => Moved \/ db'["port"] \in {Nil, port[h]}
      BY <1>1, <1>7, <3>1
    <3>3. Moved \/ db'["port"] = port[h] => Leads(h, db["port"])'
      BY <1>1, <1>2, <1>3 DEF Leads, Lives
    <3>4. db'["port"] = db["port"] =>
              \A g \in Hosts : Leads(g, db["port"]) => Leads(g, db["port"])'
      BY <1>1, <1>2 DEF Leads, Lives
    <3> QED
      BY <1>2, <3>2, <3>3, <3>4 DEF PortInv
  <2> QED
    BY <1>4, <1>5, <2>1, <2>2
<1> QED
  BY <1>6, <1>7, RegisterScripts

\* The work at h keeps the port in the cron job true to the container.
LEMMA WorkWired ==
    ASSUME TypeOK, BasicInv, KeptInv, WorkInv, PlainInv, NEW h \in Hosts, Wired(h),
           ~Moving(h), Work(h)
    PROVE  Wired(h)'
<1>1. /\ job \in [Hosts -> {"idle", "nodes", "rm", "run", "port", "cron",
                          "reset", "devices", "kill", "writing"}]
      /\ jobPort \in [Hosts -> Ports \cup {Nil}]
      /\ cont \in [Hosts -> {"none", "stopped", "running"}]
      /\ port \in [Hosts -> Ports \cup {Nil}]
      /\ cron \in [Hosts -> Ports \cup {Nil}]
      /\ script \in [Writers -> Seq(Writes)]
      /\ KeyTypeOK
      /\ Worker(h) \in Writers
  BY WriterTypes DEF TypeOK, SpoolTypeOK, ContTypeOK, KeyTypeOK
<1>2. Moved' <=> Moved
  BY WorkElsewhere DEF Moved, restVars
<1>3. ASSUME script'[Worker(h)] = script[Worker(h)]
      PROVE  /\ Adds(Worker(h))' <=> Adds(Worker(h))
             /\ job[h] # "writing" => /\ ~Adds(Worker(h))
                                      /\ \A p : Named(script'[Worker(h)], "port", p)
  <2>1. job[h] # "writing" => script[Worker(h)] = <<>> /\ ~Adds(Worker(h))
    BY DEF WorkInv, PlainInv, SpentInv
  <2> QED
    BY <1>3, <2>1, SameScript, WrittenNames
<1>4. \A p : Named(<<>>, "port", p)
  BY WrittenNames
<1>5. ASSUME UNCHANGED <<script, cont, port, cron>>,
             job'[h] \notin {"cron", "reset"}
      PROVE  Wired(h)'
  BY <1>2, <1>3, <1>5 DEF Wired
<1>6. CASE AttachJob(h) \/ DetachJob(h) \/ AttachNodes(h) \/ DetachDevices(h)
  BY <1>1, <1>5, <1>6 DEF AttachJob, DetachJob, AttachNodes, DetachDevices, Stay,
                          WorkGoto, contVars, keyVars
<1>7. CASE AttachPort(h)
  <2>1. UNCHANGED <<script, cont, port, cron>> /\ job[h] = "port"
    BY <1>7 DEF AttachPort, At, contVars, keyVars
  <2>2. \/ job'[h] = "cron" /\ jobPort'[h] = port[h]
        \/ job'[h] = "idle"
    BY <1>1, <1>7 DEF AttachPort, WorkGoto
  <2> QED
    BY <1>2, <1>3, <1>5, <2>1, <2>2 DEF Wired
<1>8. CASE AttachCron(h)
  <2>1. /\ UNCHANGED <<script, cont, port>>
        /\ job[h] = "cron" /\ cont[h] = "running" /\ jobPort[h] = port[h]
    BY <1>8 DEF AttachCron, At, keyVars, Wired, WorkInv
  <2>2. job'[h] = "reset" /\ jobPort'[h] = jobPort[h] /\ cron'[h] = port[h]
    BY <1>1, <1>8, <2>1 DEF AttachCron, WorkGoto
  <2>3. port[h] # Nil
    BY <2>1 DEF TypeOK, ContTypeOK
  <2> QED
    BY <1>2, <1>3, <2>1, <2>2, <2>3 DEF Wired
<1>9. CASE AttachRm(h)
  <2>1. /\ cont'[h] = "none" /\ job'[h] = "run" /\ job[h] = "rm"
        /\ script'[Worker(h)] = script[Worker(h)] /\ script'[Register(h)] = <<>>
    BY <1>1, <1>9, WriterTypes DEF AttachRm, At, Stopped, Silence, WorkGoto
  <2> QED
    BY <1>3, <1>4, <2>1 DEF Wired
<1>10. CASE AttachRun(h)
  <2>1. job[h] = "run" /\ UNCHANGED script
    BY <1>10 DEF AttachRun, At, keyVars
  <2>2. cont[h] = "none" /\ script[Register(h)] = <<>> /\ cron[h] = Nil
    BY <2>1 DEF BasicInv, PlainInv, BareInv
  <2>3. job'[h] \in {"port", "idle"} /\ cron'[h] = Nil
    BY <1>1, <1>10, <2>2 DEF AttachRun, WorkGoto, Stopped
  <2> QED
    BY <1>3, <1>4, <2>1, <2>2, <2>3 DEF Wired
<1>11. CASE AttachReset(h)
  <2>1. /\ UNCHANGED <<cont, port, cron>> /\ script'[Register(h)] = script[Register(h)]
        /\ job[h] = "reset" /\ jobPort[h] = port[h] /\ cron[h] = port[h]
    BY <1>1, <1>11, WriterTypes DEF AttachReset, At, contVars, Wired
  <2>2. \/ job'[h] = "writing" /\ script'[Worker(h)] = Attached(h, port[h])
        \/ job'[h] = "idle" /\ UNCHANGED script
    BY <1>1, <1>11, <2>1 DEF AttachReset, WorkGoto
  <2>3. Named(Attached(h, port[h]), "port", port[h])
    BY WrittenNames
  <2>4. CASE job'[h] = "writing" /\ script'[Worker(h)] = Attached(h, port[h])
    BY <1>2, <2>1, <2>3, <2>4 DEF Wired
  <2> QED
    BY <1>5, <2>1, <2>2, <2>4
<1>12. CASE DetachKill(h)
  <2>1. /\ cont'[h] # "running" /\ job'[h] = "writing"
        /\ script'[Worker(h)] = Detached /\ script'[Register(h)] = <<>>
    BY <1>1, <1>12, WriterTypes DEF DetachKill, Stopped, WorkGoto
  <2>2. ~Adds(Worker(h))' /\ Named(Detached, "port", port'[h])
    BY <2>1, DetachedDeletes, WrittenNames DEF Adds
  <2> QED
    BY <1>4, <2>1, <2>2 DEF Wired
<1>13. CASE WorkWrite(h)
  <2>1. /\ UNCHANGED <<cont, port, cron>> /\ job'[h] \in {"idle", "writing"}
        /\ script'[Register(h)] = script[Register(h)]
        /\ script'[Worker(h)] = Tail(script[Worker(h)])
        /\ script[Worker(h)] \in Seq(Writes) /\ script[Worker(h)] # <<>>
    BY <1>1, <1>13, WriterTypes, WriteScripts DEF WorkWrite, WorkGoto, contVars
  <2>2. Adds(Worker(h))' => Adds(Worker(h))
    BY <2>1, TailAhead
  <2>3. Named(script[Worker(h)], "port", port[h]) =>
            Named(Tail(script[Worker(h)]), "port", port[h])
    BY <2>1, NamedTail
  <2> QED
    BY <1>2, <2>1, <2>2, <2>3 DEF Wired
<1> QED
  BY <1>6, <1>7, <1>8, <1>9, <1>10, <1>11, <1>12, <1>13 DEF Work

\* The work at h deletes the server and the port before it leaves the board without
\* a container, and writes them only while the container runs.
LEMMA WorkHome ==
    ASSUME TypeOK, BasicInv, KeptInv, WorkInv, PlainInv, HomeInv, PortInv,
           NEW h \in Hosts, Wired(h), ~Restarting(h), Work(h)
    PROVE  HomeInv' /\ PortInv'
<1>1. /\ job \in [Hosts -> {"idle", "nodes", "rm", "run", "port", "cron",
                          "reset", "devices", "kill", "writing"}]
      /\ cont \in [Hosts -> {"none", "stopped", "running"}]
      /\ port \in [Hosts -> Ports \cup {Nil}]
      /\ cron \in [Hosts -> Ports \cup {Nil}]
      /\ script \in [Writers -> Seq(Writes)]
      /\ db \in [Keys -> Values]
      /\ KeyTypeOK
      /\ Worker(h) \in Writers
  BY WriterTypes DEF TypeOK, SpoolTypeOK, ContTypeOK, KeyTypeOK
<1>2. /\ Moved' <=> Moved
      /\ \A g \in Hosts : Restarting(g)' <=> Restarting(g)
  BY WorkElsewhere DEF Moved, Restarting, restVars
<1>3. ASSUME NEW g \in Hosts, g # h
      PROVE  /\ \A k : Behind(g, k) => Behind(g, k)'
             /\ \A x : Ahead(Worker(g), x) => Ahead(Worker(g), x)'
             /\ \A p : Leads(g, p) => Lives(g)' /\ cron'[g] # Nil /\ (Moved' \/ port'[g] = p)
  <2>1. /\ cont'[g] = cont[g] /\ script'[Worker(g)] = script[Worker(g)]
        /\ port'[g] = port[g] /\ cron'[g] = cron[g]
    BY <1>3, WorkElsewhere, WorkScripts
  <2> QED
    BY <1>2, <2>1, SameScript DEF Behind, Leads, Lives
<1>4. ASSUME UNCHANGED db,
             Behind(h, "server") => Behind(h, "server")',
             Lives(h) /\ cron[h] # Nil =>
                 \/ Lives(h)' /\ cron'[h] # Nil /\ port'[h] = port[h]
                 \/ Ahead(Worker(h), Del("port"))',
             Ahead(Worker(h), Del("port")) => Ahead(Worker(h), Del("port"))'
      PROVE  HomeInv' /\ PortInv'
  <2>1. HomeInv'
    BY <1>3, <1>4 DEF HomeInv
  <2>2. PortInv'
    <3>1. SUFFICES ASSUME db["port"] # Nil
                   PROVE  \E g \in Hosts : \/ Leads(g, db["port"])'
                                           \/ Ahead(Worker(g), Del("port"))'
      BY <1>4 DEF PortInv
    <3>2. PICK g \in Hosts : Leads(g, db["port"]) \/ Ahead(Worker(g), Del("port"))
      BY <3>1 DEF PortInv
    <3>3. Leads(g, db["port"])' \/ Ahead(Worker(g), Del("port"))'
      BY <1>2, <1>3, <1>4, <3>2 DEF Leads
    <3> QED
      BY <3>3
  <2> QED
    BY <2>1, <2>2
<1>5. ASSUME UNCHANGED db, script'[Worker(h)] = script[Worker(h)],
             \/ ~Lives(h)
             \/ cont'[h] = cont[h] /\ port'[h] = port[h] /\ (cron[h] # Nil => cron'[h] # Nil)
      PROVE  HomeInv' /\ PortInv'
  BY <1>2, <1>4, <1>5, SameScript DEF Behind, Lives
<1>6. CASE Looking(h)
  <2>1. UNCHANGED <<db, cont, script>>
    BY <1>6, LookingEffect
  <2>2. port'[h] = port[h]
    BY <1>6 DEF Looking, AttachJob, AttachNodes, AttachPort, AttachCron, DetachJob,
                DetachDevices, Stay, contVars
  <2>3. cron[h] # Nil => cron'[h] # Nil
    <3>1. CASE AttachCron(h)
      <4>1. cont[h] = "running" /\ job[h] = "cron" /\ jobPort[h] = port[h]
        BY <3>1 DEF AttachCron, At, WorkInv, Wired
      <4>2. cron'[h] = port[h] /\ port[h] # Nil
        BY <1>1, <3>1, <4>1 DEF AttachCron, TypeOK, ContTypeOK
      <4> QED
        BY <4>2
    <3>2. CASE ~AttachCron(h)
      BY <1>6, <3>2 DEF Looking, AttachJob, AttachNodes, AttachPort, DetachJob,
                        DetachDevices, Stay, contVars
    <3> QED
      BY <3>1, <3>2
  <2> QED
    BY <1>5, <2>1, <2>2, <2>3
<1>7. CASE AttachRm(h) \/ AttachRun(h)
  <2>1. ~Lives(h)
    BY <1>7 DEF AttachRm, AttachRun, At, KeptInv, BasicInv, Lives
  <2>2. UNCHANGED db /\ script'[Worker(h)] = script[Worker(h)]
    BY <1>1, <1>7, WriterTypes DEF AttachRm, AttachRun, Silence, keyVars
  <2> QED
    BY <1>5, <2>1, <2>2
<1>8. CASE AttachReset(h)
  <2>1. /\ UNCHANGED <<db, cont, port, cron>> /\ cont[h] = "running"
        /\ script[Worker(h)] = <<>>
    BY <1>8 DEF AttachReset, At, WorkInv, PlainInv, SpentInv, contVars
  <2>2. ~Ahead(Worker(h), Del("port"))
    BY <2>1 DEF Ahead
  <2> QED
    BY <1>4, <2>1, <2>2 DEF Behind, Lives
<1>9. CASE DetachKill(h)
  <2>1. UNCHANGED db /\ script'[Worker(h)] = Detached
    BY <1>1, <1>9, WriterTypes DEF DetachKill
  <2>2. Ahead(Worker(h), Del("server"))' /\ Ahead(Worker(h), Del("port"))'
    BY <2>1, DetachedDeletes DEF Ahead, Listed
  <2> QED
    BY <1>4, <2>1, <2>2 DEF Behind
<1>10. CASE WorkWrite(h)
  <2> DEFINE write == Head(script[Worker(h)])
  <2>1. /\ db' = [db EXCEPT ![write.key] = write.val]
        /\ write \in Writes
        /\ script'[Worker(h)] = Tail(script[Worker(h)])
        /\ script[Worker(h)] \in Seq(Writes) /\ script[Worker(h)] # <<>>
        /\ UNCHANGED <<cont, port, cron>>
    BY <1>1, <1>10, ExecEffect, WriteScripts DEF WorkWrite, contVars
  <2>2. write = script[Worker(h)][1] /\ 1 \in DOMAIN script[Worker(h)]
    BY <2>1
  <2>3. \A x : Ahead(Worker(h), x) /\ write # x => Ahead(Worker(h), x)'
    BY <2>1, TailAhead
  <2>4. write.val # Nil => cont[h] = "running" /\ cron[h] # Nil
    <3>1. write.val # Nil => Adds(Worker(h))
      BY <2>2 DEF Adds
    <3>2. Adds(Worker(h)) => cont[h] = "running" /\ cron[h] = port[h] /\ port[h] # Nil
      BY DEF WorkInv, Wired, TypeOK, ContTypeOK
    <3> QED
      BY <3>1, <3>2
  <2>5. HomeInv'
    <3> SUFFICES ASSUME NEW g \in Hosts, db'["server"] = g PROVE Behind(g, "server")'
      BY DEF HomeInv
    <3>1. g # Nil
      BY HostAssumption
    <3>2. CASE write.key = "server"
      <4>1. g = h /\ write.val # Nil
        BY <1>1, <2>1, <2>2, <3>1, <3>2 DEF PlainInv, NameInv, Named, Keys
      <4> QED
        BY <2>1, <2>4, <4>1 DEF Behind
    <3>3. CASE write.key # "server"
      <4>1. Behind(g, "server") /\ write # Del("server")
        BY <1>1, <2>1, <3>3 DEF HomeInv, Del, Put
      <4> QED
        BY <1>2, <1>3, <2>1, <2>3, <4>1 DEF Behind
    <3> QED
      BY <3>2, <3>3
  <2>6. PortInv'
    <3> SUFFICES ASSUME db'["port"] # Nil
                 PROVE  \E g \in Hosts : \/ Leads(g, db["port"])'
                                         \/ Ahead(Worker(g), Del("port"))'
      BY DEF PortInv
    <3>1. CASE write.key = "port"
      <4>1. db'["port"] = write.val /\ write.val # Nil
        BY <1>1, <2>1, <3>1 DEF Keys
      <4>2. Moved \/ write.val = port[h]
        BY <2>2, <3>1, <4>1 DEF Wired, Named
      <4>3. Leads(h, db["port"])'
        BY <1>2, <2>1, <2>4, <4>1, <4>2 DEF Leads, Lives
      <4> QED
        BY <4>3
    <3>2. CASE write.key # "port"
      <4>1. db'["port"] = db["port"] /\ write # Del("port")
        BY <1>1, <2>1, <3>2 DEF Del, Put
      <4>2. PICK g \in Hosts : Leads(g, db["port"]) \/ Ahead(Worker(g), Del("port"))
        BY <4>1 DEF PortInv
      <4>3. Leads(g, db["port"])' \/ Ahead(Worker(g), Del("port"))'
        BY <1>2, <1>3, <2>1, <2>3, <4>1, <4>2 DEF Leads, Lives
      <4> QED
        BY <4>3
    <3> QED
      BY <3>1, <3>2
  <2> QED
    BY <2>5, <2>6
<1> QED
  BY <1>6, <1>7, <1>8, <1>9, <1>10 DEF Work, Looking

LEMMA WorkTrue ==
    ASSUME TypeOK, ClashInv, ~clash, BasicInv, KeptInv, WorkInv, PlainInv,
           WireInv, MoveInv, HomeInv, PortInv, NEW h \in Hosts, Work(h)
    PROVE  WireInv' /\ MoveInv' /\ HomeInv' /\ PortInv'
<1>1. ~Moving(h) /\ ~Restarting(h)
  BY WorkAlone DEF Moving, Restarting, Busy
<1>2. UNCHANGED <<rpc, rhost, rport>>
  BY WorkElsewhere DEF restVars
<1>3. WireInv'
  <2>1. Wired(h)'
    BY <1>1, WorkWired DEF WireInv
  <2>2. ASSUME NEW g \in Hosts, g # h PROVE Wired(g)'
    <3>1. (Moving(g)' <=> Moving(g)) /\ (Moved' <=> Moved)
      BY <1>2 DEF Moving, Moved
    <3> QED
      BY <2>2, <3>1, WorkElsewhere, WorkScripts, WiredSame DEF WireInv
  <2> QED
    BY <2>1, <2>2 DEF WireInv
<1>4. MoveInv'
  <2>1. ASSUME NEW r \in Restarts, rpc[r] \in {"cron", "set"}
        PROVE  port'[rhost[r]] = port[rhost[r]] /\ cron'[rhost[r]] = cron[rhost[r]]
    <3>1. rhost[r] \in Hosts /\ rhost[r] # h
      BY <2>1, WorkAlone DEF Busy, TypeOK, RestTypeOK
    <3> QED
      BY <3>1, WorkScripts
  <2> QED
    BY <1>2, <2>1 DEF MoveInv
<1> QED
  BY <1>1, <1>3, <1>4, WorkHome DEF WireInv

\* A restart moves the container to another port, and then tells the cron job.
LEMMA RestartTrue ==
    ASSUME TypeOK, ClashInv, ~clash, WorkInv, RestInv, PlainInv,
           WireInv, MoveInv, HomeInv, PortInv,
           NEW r \in Restarts, RestartCall(r) \/ Restart(r)
    PROVE  WireInv' /\ MoveInv' /\ HomeInv' /\ PortInv'
<1>0. PICK h : h = rhost[r]
  OBVIOUS
<1> USE <1>0
<1>1. /\ cont \in [Hosts -> {"none", "stopped", "running"}]
      /\ port \in [Hosts -> Ports \cup {Nil}]
      /\ cron \in [Hosts -> Ports \cup {Nil}]
      /\ rpc \in [Restarts -> {"idle", "stop", "start", "port", "cron", "set", "done"}]
      /\ rhost \in [Restarts -> Hosts \cup {Nil}]
      /\ rport \in [Restarts -> Ports \cup {Nil}]
      /\ db \in [Keys -> Values]
      /\ \A q \in Restarts : Busy(q) => rhost[q] \in Hosts
      /\ \A q \in Restarts : rpc[q] \in {"port", "cron", "set"} => Busy(q)
  BY DEF TypeOK, ContTypeOK, RestTypeOK, KeyTypeOK, Busy
<1>2. /\ UNCHANGED <<job, jobPort>> /\ Moved'
      /\ \A g \in Hosts : script'[Worker(g)] = script[Worker(g)]
      /\ \A g \in Hosts : \A x : Ahead(Worker(g), x)' <=> Ahead(Worker(g), x)
  BY RestartElsewhere, RestartScripts, SameScript DEF spoolVars, Moved
<1>3. \A q \in Restarts : q # r =>
          rpc'[q] = rpc[q] /\ rhost'[q] = rhost[q] /\ rport'[q] = rport[q]
  BY RestartElsewhere, RestartScripts
<1>4. ASSUME NEW g \in Hosts, g # h \/ ~Busy(r)
      PROVE  /\ cont'[g] = cont[g] /\ port'[g] = port[g] /\ cron'[g] = cron[g]
             /\ script'[Register(g)] = script[Register(g)]
             /\ Moving(g) => Moving(g)'
  <2>1. /\ cont'[g] = cont[g] /\ port'[g] = port[g] /\ cron'[g] = cron[g]
        /\ script'[Register(g)] = script[Register(g)]
    BY <1>4, RestartElsewhere, RestartScripts
  <2>2. Moving(g) => Moving(g)'
    BY <1>1, <1>3, <1>4 DEF Moving
  <2> QED
    BY <2>1, <2>2
<1>5. ASSUME Busy(r)
      PROVE  /\ h \in Hosts /\ job[h] = "idle" /\ script[Worker(h)] = <<>>
             /\ \A q \in Restarts : q # r /\ Busy(q) => rhost[q] # h
  BY <1>1, <1>5, RestartAlone DEF PlainInv, SpentInv
<1>6. ASSUME RestartCron(r)
      PROVE  /\ cont[h] = "running" /\ port[h] # Nil /\ rport[r] = port[h]
             /\ cron' = [cron EXCEPT ![h] = port[h]] /\ UNCHANGED <<cont, port>>
             /\ rpc'[r] = "set" /\ rhost'[r] = h /\ rport'[r] = rport[r]
  <2>1. rpc[r] = "cron" /\ Busy(r)
    BY <1>1, <1>6 DEF RestartCron, RestAt
  <2>2. cont[h] = "running" /\ rport[r] = port[h] /\ h \in Hosts
    BY <1>1, <2>1 DEF RestInv, MoveInv
  <2>3. port[h] # Nil
    BY <2>2 DEF TypeOK, ContTypeOK
  <2> QED
    BY <1>1, <1>6, <2>2, <2>3 DEF RestartCron, RestGoto
<1>7. ASSUME RestartSet(r)
      PROVE  /\ h \in Hosts /\ cont[h] = "running" /\ cron[h] = port[h] /\ port[h] # Nil
             /\ db' = [db EXCEPT !["port"] = port[h]]
             /\ UNCHANGED <<cont, port, cron, script>>
  <2>1. rpc[r] = "set" /\ Busy(r)
    BY <1>1, <1>7 DEF RestartSet, RestAt
  <2>2. cont[h] = "running" /\ rport[r] = port[h] /\ cron[h] = port[h] /\ h \in Hosts
    BY <1>1, <2>1 DEF RestInv, MoveInv
  <2>3. port[h] # Nil
    BY <2>2 DEF TypeOK, ContTypeOK
  <2> QED
    BY <1>7, <2>2, <2>3 DEF RestartSet
<1>8. WireInv'
  <2>1. ASSUME NEW g \in Hosts, g # h \/ ~Busy(r) PROVE Wired(g)'
    BY <1>2, <1>4, <2>1, WiredSame DEF WireInv
  <2>2. ASSUME Busy(r) PROVE Wired(h)'
    <3>1. job'[h] = "idle" /\ ~Adds(Worker(h))'
      BY <1>2, <1>5, <2>2 DEF Adds
    <3>2. /\ cont'[h] = "running" /\ cron'[h] # Nil => cron'[h] = port'[h] \/ Moving(h)'
          /\ script'[Register(h)] # <<>> => cron'[h] # Nil
      <4>1. CASE RestartCall(r)
        BY <2>2, <4>1 DEF RestartCall, RestAt, Busy
      <4>2. CASE RestartStop(r)
        BY <1>1, <1>5, <2>2, <4>2, WriterTypes
        DEF RestartStop, Stopped, Silence, TypeOK, KeyTypeOK
      <4>3. CASE RestartStart(r) \/ RestartPort(r)
        <5>1. UNCHANGED <<cron, script>>
          BY <4>3 DEF RestartStart, RestartPort, keyVars
        <5>2. \/ rpc'[r] \in {"port", "cron"} /\ rhost'[r] = h
              \/ cont'[h] # "running"
          BY <1>1, <4>3 DEF RestartStart, RestartPort, RestGoto
        <5>3. cont'[h] = "running" => Moving(h)'
          BY <5>2 DEF Moving
        <5> QED
          BY <1>5, <2>2, <5>1, <5>3 DEF WireInv, Wired
      <4>4. CASE RestartCron(r)
        BY <1>1, <1>5, <1>6, <2>2, <4>4
      <4>5. CASE RestartSet(r)
        BY <1>7, <4>5
      <4> QED
        BY <4>1, <4>2, <4>3, <4>4, <4>5 DEF Restart
    <3> QED
      BY <1>2, <3>1, <3>2 DEF Wired
  <2> QED
    BY <2>1, <2>2 DEF WireInv
<1>9. MoveInv'
  <2>1. ASSUME NEW q \in Restarts, q # r, rpc[q] \in {"cron", "set"}
        PROVE  port'[rhost[q]] = port[rhost[q]] /\ cron'[rhost[q]] = cron[rhost[q]]
    BY <1>1, <1>4, <1>5, <2>1
  <2>2. /\ rpc'[r] \in {"cron", "set"} => rport'[r] = port'[rhost'[r]]
        /\ rpc'[r] = "set" => cron'[rhost'[r]] = port'[rhost'[r]]
    <3>1. CASE RestartCron(r)
      <4>1. h \in Hosts
        BY <1>1, <3>1 DEF RestartCron, RestAt
      <4> QED
        BY <1>1, <1>6, <3>1, <4>1
    <3>2. CASE RestartPort(r)
      BY <1>1, <3>2 DEF RestartPort, RestGoto, RestOver
    <3>3. CASE RestartCall(r) \/ RestartStop(r) \/ RestartStart(r) \/ RestartSet(r)
      BY <1>1, <3>3 DEF RestartCall, RestartStop, RestartStart, RestartSet, RestGoto, RestOver
    <3> QED
      BY <3>1, <3>2, <3>3 DEF Restart
  <2> QED
    BY <1>3, <2>1, <2>2 DEF MoveInv
<1>10. \A g \in Hosts : Lives(g) => Lives(g)'
  BY RestartLives DEF Lives
<1>11. HomeInv'
  <2>1. db'["server"] = db["server"]
    BY <1>1, <1>7 DEF Restart, RestartCall, RestartStop, RestartStart, RestartPort,
                      RestartCron, keyVars, Keys
  <2> QED
    BY <1>2, <1>10, <2>1 DEF HomeInv, Behind, Lives
<1>12. PortInv'
  <2>1. CASE RestartSet(r)
    <3>1. Leads(h, db["port"])'
      BY <1>1, <1>2, <1>7, <2>1 DEF Leads, Lives, Keys
    <3> QED
      BY <1>7, <2>1, <3>1 DEF PortInv
  <2>2. CASE ~RestartSet(r)
    <3>1. UNCHANGED db
      BY <2>2 DEF Restart, RestartCall, RestartStop, RestartStart, RestartPort,
                  RestartCron, keyVars
    <3>2. \A g \in Hosts : cron[g] # Nil => cron'[g] # Nil
      <4>1. CASE RestartCron(r)
        BY <1>1, <1>6, <4>1
      <4>2. CASE ~RestartCron(r)
        BY <1>1, <2>2, <4>2 DEF Restart, RestartCall, RestartStop, RestartStart, RestartPort,
                          Stopped
      <4> QED
        BY <4>1, <4>2
    <3> QED
      BY <1>2, <1>10, <3>1, <3>2 DEF PortInv, Leads
  <2> QED
    BY <2>1, <2>2
<1> QED
  BY <1>8, <1>9, <1>11, <1>12

LEMMA TrueStep == HostInv /\ TrueInv /\ [Next]_vars => TrueInv'
<1> SUFFICES ASSUME HostInv, TrueInv, [Next]_vars PROVE TrueInv'
  OBVIOUS
<1>1. CASE Next
  <2>1. PlainInv'
    BY <1>1, PlainStep DEF HostInv, TrueInv
  <2>2. SUFFICES ASSUME Undisturbed' PROVE WireInv' /\ MoveInv' /\ HomeInv' /\ PortInv'
    BY <2>1 DEF TrueInv
  <2>3. /\ ~clash /\ TypeOK /\ ClashInv /\ BasicInv /\ KeptInv /\ WorkInv /\ RestInv
        /\ PlainInv /\ WireInv /\ MoveInv /\ HomeInv /\ PortInv
        /\ reloads = Reloadable /\ reloads' = Reloadable
    BY <1>1, <2>2, UndisturbedStep DEF HostInv, TrueInv, Undisturbed
  <2>4. ASSUME NEW h \in Hosts PROVE ~Reload(h)
    BY <2>3, <2>4 DEF Reload, TypeOK, ContTypeOK
  <2>5. ASSUME NEW h \in Hosts, NEW d \in Both, NEW e \in Kinds,
               Plug(h) \/ Unplug(h) \/ Link(h, d) \/ Spool(h, e) \/ Scan(h)
        PROVE  WireInv' /\ MoveInv' /\ HomeInv' /\ PortInv'
    BY <2>3, <2>5, DevicePlug, TrueFrame DEF PlainInv, keyVars
  <2>6. ASSUME NEW h \in Hosts, Work(h)
        PROVE  WireInv' /\ MoveInv' /\ HomeInv' /\ PortInv'
    BY <2>3, <2>6, WorkTrue
  <2>7. ASSUME NEW h \in Hosts, RegisterStart(h) \/ RegisterWrite(h)
        PROVE  WireInv' /\ MoveInv' /\ HomeInv' /\ PortInv'
    BY <2>3, <2>7, RegisterTrue DEF PlainInv
  <2>8. ASSUME NEW r \in Restarts, RestartCall(r) \/ Restart(r)
        PROVE  WireInv' /\ MoveInv' /\ HomeInv' /\ PortInv'
    BY <2>3, <2>8, RestartTrue
  <2>9. CASE Press \/ Check \/ Users \/ Recover
    BY <2>3, <2>9, RelayScripts, TrueFrame DEF spoolVars
  <2>10. "tty" \in Both /\ "attach" \in Kinds
    BY DEF Both, Kinds
  <2> QED
    BY <1>1, <2>4, <2>5, <2>6, <2>7, <2>8, <2>9, <2>10 DEF Next
<1>2. CASE UNCHANGED vars
  BY <1>2 DEF vars, deviceVars, spoolVars, contVars, restVars, checkVars, keyVars,
              TrueInv, PlainInv, PlugInv, NameInv, BareInv, SpentInv, WireInv, Wired,
              MoveInv, HomeInv, PortInv, Leads, Lives, Moving, Moved, Behind,
              Restarting, Adds, Ahead, Undisturbed
<1> QED
  BY <1>1, <1>2

LEMMA TrueInit == Init => TrueInv
<1> SUFFICES ASSUME Init PROVE TrueInv
  OBVIOUS
<1>1. \A w \in Writers : script[w] = <<>> /\ ~Adds(w)
  BY DEF Init, Adds
<1>2. PlainInv
  BY <1>1, WriterTypes, WrittenNames
  DEF Init, PlainInv, PlugInv, NameInv, BareInv, SpentInv
<1>3. WireInv
  BY <1>1, WriterTypes, WrittenNames DEF Init, WireInv, Wired
<1>4. MoveInv /\ HomeInv /\ PortInv
  BY HostAssumption DEF Init, MoveInv, HomeInv, PortInv, Keys
<1> QED
  BY <1>2, <1>3, <1>4 DEF TrueInv

\* With nothing to write or to restart, what Redis and the cron job know is what
\* HomeInv, PortInv and Wired leave.
LEMMA TrueFromInv == HostInv /\ TrueInv => TrueWhenQuiet
<1> SUFFICES ASSUME HostInv, TrueInv, Quiet, ~clash, reloads = Reloadable
             PROVE  /\ db["server"] \in {Nil, plugged}
                    /\ db["port"] # Nil =>
                         /\ plugged # Nil
                         /\ cont[plugged] = "running" /\ cron[plugged] = port[plugged]
                         /\ (\A r \in Restarts : rpc[r] = "idle") =>
                                db["port"] = port[plugged]
  BY DEF TrueWhenQuiet
<1>1. /\ TypeOK /\ LeaveInv /\ PlugInv /\ WireInv /\ HomeInv /\ PortInv
  BY DEF HostInv, TrueInv, PlainInv, Undisturbed
<1>2. ASSUME NEW h \in Hosts
      PROVE  /\ ~Restarting(h) /\ ~Moving(h)
             /\ \A x : ~Ahead(Worker(h), x)
             /\ cont[h] = "running" => plugged = h
  <2>1. ~Pending(h)
    BY QuietHost
  <2>2. cont[h] = "running" => nodes[h] # {}
    BY <1>1, <2>1 DEF LeaveInv, Both
  <2> QED
    BY <1>1, <2>2, WriterTypes DEF Quiet, Busy, Restarting, Moving, Ahead, PlugInv
<1>3. db["server"] \in {Nil, plugged}
  <2>1. db["server"] \in Hosts \cup {Nil}
    BY <1>1 DEF TypeOK, KeyTypeOK, KeyType, Keys
  <2> QED
    BY <1>1, <1>2, <2>1 DEF HomeInv, Behind
<1>4. ASSUME db["port"] # Nil
      PROVE  /\ plugged # Nil
             /\ cont[plugged] = "running" /\ cron[plugged] = port[plugged]
             /\ Moved \/ db["port"] = port[plugged]
  <2>1. PICK h \in Hosts : Leads(h, db["port"])
    BY <1>1, <1>2, <1>4 DEF PortInv
  <2>2. /\ cont[h] = "running" /\ plugged = h
        /\ cron[h] # Nil /\ (Moved \/ db["port"] = port[h])
    BY <1>2, <2>1 DEF Leads, Lives
  <2>3. cron[h] = port[h]
    BY <1>1, <1>2, <2>2 DEF WireInv, Wired
  <2> QED
    BY <2>2, <2>3, HostAssumption
<1> QED
  BY <1>3, <1>4 DEF Moved

\* Once nothing is under way any more, the relay looks for the board at the host where
\* it is plugged in, register.py there has the port at which the container listens, and
\* so has Redis if no boardrestart.py was run: at whichever hosts the board has been
\* before, and however the jobs of the hosts, register.py, the restarts, the SSH check
\* and the users overlapped, unless a restart has clashed or a host was reloaded.
THEOREM RegisteredWhereItIs == Spec => []TrueWhenQuiet
BY TrueFromInv, TrueInit, TrueStep, HostInit, HostStep, PTL DEF Spec

-----------------------------------------------------------------------------
(* The relay is restarted. *)

\* No container is restarted by boardrestart.py.
NoRestarts == ~clash /\ \A r \in Restarts : rpc[r] = "idle"

\* Redis has forgotten the board, and nobody is about to tell it.
Forgotten == /\ \A k \in Listed : db[k] = Nil
             /\ \A h \in Hosts : /\ job[h] \notin {"rm", "run", "port", "cron", "reset"}
                                 /\ ~Adds(Worker(h))
                                 /\ script[Register(h)] = <<>>

OutInv == /\ OutTypeOK
          /\ NoRestarts
          /\ ~torn => HostInv
          /\ ~torn /\ Undisturbed /\ relay # "up" => Forgotten

\* The steps of a host whose relay does not answer, as far as types go.
LEMMA FailTypes ==
    ASSUME TypeOK, NEW h \in Hosts, JobFails(h) \/ DetachFails(h) \/ RegisterFails(h)
    PROVE  /\ SpoolTypeOK' /\ ContTypeOK' /\ KeyTypeOK'
           /\ UNCHANGED <<deviceVars, restVars, checkVars, events, spool, reloads, db>>
<1> USE DEF TypeOK
<1>1. \A l \in {"idle"} : WorkGoto(h, l) /\ UNCHANGED <<spool, events>> => SpoolTypeOK'
  BY GotoType DEF SpoolTypeOK
<1>2. <<>> \in Seq(Writes)
  OBVIOUS
<1>3. CASE JobFails(h)
  <2>1. KeyTypeOK'
    BY <1>2, <1>3 DEF JobFails, KeyTypeOK
  <2>2. UNCHANGED <<deviceVars, restVars, checkVars, events, spool, contVars, db>>
    BY <1>3 DEF JobFails, At
  <2> QED
    BY <1>1, <1>3, <2>1, <2>2 DEF JobFails, ContTypeOK, contVars
<1>4. CASE DetachFails(h)
  <2>1. KeyTypeOK'
    BY <1>4, SilenceType DEF DetachFails, KeyTypeOK
  <2>2. ContTypeOK'
    BY <1>4, StoppedType DEF DetachFails, ContTypeOK
  <2> QED
    BY <1>1, <1>4, <2>1, <2>2 DEF DetachFails, At
<1>5. CASE RegisterFails(h)
  <2>1. KeyTypeOK'
    BY <1>5, SilenceType DEF RegisterFails, KeyTypeOK
  <2> QED
    BY <1>5, <2>1 DEF RegisterFails, SpoolTypeOK, ContTypeOK, spoolVars, contVars
<1> QED
  BY <1>3, <1>4, <1>5

LEMMA DownTypes ==
    ASSUME TypeOK, GoDown
    PROVE  /\ CheckTypeOK' /\ KeyTypeOK'
           /\ UNCHANGED <<deviceVars, spoolVars, contVars, restVars>>
<1>1. CheckTypeOK'
  BY NowhereType DEF GoDown, CheckGoto, TypeOK, CheckTypeOK
<1>2. KeyTypeOK'
  <2>1. <<>> \in Seq(Writes)
    OBVIOUS
  <2>2. script' \in [Writers -> Seq(Writes)]
    BY <2>1 DEF GoDown, TypeOK, KeyTypeOK
  <2>3. db' \in [Keys -> Values] /\ \A k \in Keys : db'[k] \in KeyType(k)
    BY KeyTypes DEF GoDown, Values
  <2> QED
    BY <2>2, <2>3 DEF KeyTypeOK
<1> QED
  BY <1>1, <1>2 DEF GoDown

\* The steps that are also steps of a system whose relay is always there.
Alone == \/ Devices
         \/ \E h \in Hosts : \/ /\ Work(h)
                                /\ job[h] \in {"nodes", "kill"} => relay = "up"
                                /\ job[h] \in {"reset", "writing"} => relay # "down"
                             \/ relay = "up" /\ RegisterStart(h)
                             \/ relay # "down" /\ RegisterWrite(h)
         \/ relay = "up" /\ AtRelay

\* The steps of a program that finds no relay.
Fails(h) == JobFails(h) \/ DetachFails(h) \/ RegisterFails(h)

LEMMA OutageForms ==
    ASSUME [OutNext]_outVars
    PROVE  \/ UNCHANGED vars /\ (ComeUp \/ UNCHANGED relayVars)
           \/ Alone /\ Observe /\ UNCHANGED relayVars
           \/ GoDown /\ Observe
           \/ (\E h \in Hosts : Fails(h)) /\ Observe /\ UNCHANGED relayVars
<1>1. CASE UNCHANGED outVars
  BY <1>1 DEF outVars
<1>2. CASE ComeUp /\ Observe
  BY <1>2 DEF ComeUp
<1>3. ASSUME NEW h \in Hosts, OutWork(h) \/ OutRegister(h)
      PROVE  Alone \/ Fails(h)
  BY <1>3 DEF OutWork, OutRegister, Alone, Fails
<1>4. Devices \/ (relay = "up" /\ AtRelay) => Alone
  BY DEF Alone
<1> QED
  BY <1>1, <1>2, <1>3, <1>4 DEF OutNext

LEMMA AloneNext == Alone /\ Observe => Next
<1>1. ASSUME Devices, Observe PROVE Next
  BY <1>1 DEF Devices, Next
<1>2. ASSUME NEW h \in Hosts, Work(h) \/ RegisterStart(h) \/ RegisterWrite(h), Observe
      PROVE  Next
  BY <1>2 DEF Next
<1>3. ASSUME AtRelay, Observe PROVE Next
  BY <1>3 DEF AtRelay, Next
<1> QED
  BY <1>1, <1>2, <1>3 DEF Alone

LEMMA OutTypeStep == OutTypeOK /\ [OutNext]_outVars => OutTypeOK'
<1> SUFFICES ASSUME OutTypeOK, [OutNext]_outVars PROVE OutTypeOK'
  OBVIOUS
<1>1. /\ TypeOK /\ outages \in 0..MaxOutages /\ MaxOutages \in Nat
      /\ relay \in {"down", "setup", "up"} /\ torn \in BOOLEAN
  BY OutageAssumption DEF OutTypeOK
<1>2. ASSUME UNCHANGED <<deviceVars, restVars>> PROVE DeviceTypeOK' /\ RestTypeOK'
  BY <1>1, <1>2 DEF TypeOK, deviceVars, restVars, DeviceTypeOK, RestTypeOK
<1>3. CASE UNCHANGED vars /\ (ComeUp \/ UNCHANGED relayVars)
  <2>1. TypeOK'
    BY <1>1, <1>3, TypeStep
  <2> QED
    BY <1>1, <1>3, <2>1 DEF ComeUp, relayVars, OutTypeOK
<1>4. CASE Alone /\ Observe /\ UNCHANGED relayVars
  <2>1. TypeOK'
    BY <1>1, <1>4, AloneNext, TypeStep
  <2> QED
    BY <1>1, <1>4, <2>1 DEF relayVars, OutTypeOK
<1>5. CASE GoDown /\ Observe
  <2>1. /\ SpoolTypeOK' /\ ContTypeOK' /\ CheckTypeOK'
        /\ KeyTypeOK' /\ DeviceTypeOK' /\ RestTypeOK'
    BY <1>1, <1>2, <1>5, DownTypes DEF TypeOK, spoolVars, contVars, SpoolTypeOK, ContTypeOK
  <2>2. relay' = "down" /\ outages' \in 0..MaxOutages /\ torn' \in BOOLEAN
    BY <1>1, <1>5 DEF GoDown
  <2>3. clash' \in BOOLEAN
    BY <1>5 DEF Observe
  <2> QED
    BY <2>1, <2>2, <2>3 DEF OutTypeOK, TypeOK
<1>6. ASSUME NEW h \in Hosts, Fails(h), Observe, UNCHANGED relayVars
      PROVE  OutTypeOK'
  <2>1. /\ SpoolTypeOK' /\ ContTypeOK' /\ KeyTypeOK'
        /\ DeviceTypeOK' /\ RestTypeOK' /\ CheckTypeOK'
    BY <1>1, <1>2, <1>6, FailTypes DEF Fails, TypeOK, checkVars, CheckTypeOK
  <2>2. clash' \in BOOLEAN
    BY <1>6 DEF Observe
  <2> QED
    BY <1>1, <1>6, <2>1, <2>2 DEF relayVars, OutTypeOK, TypeOK
<1> QED
  BY <1>3, <1>4, <1>5, <1>6, OutageForms

LEMMA OutInitType == OutInit => OutTypeOK
<1> SUFFICES ASSUME OutInit PROVE OutTypeOK
  OBVIOUS
<1>1. TypeOK /\ relay \in {"down", "setup", "up"} /\ torn \in BOOLEAN
  BY InitType DEF OutInit
<1>2. outages \in 0..MaxOutages
  BY OutageAssumption DEF OutInit
<1> QED
  BY <1>1, <1>2 DEF OutTypeOK

\* The variables keep their types when the relay is restarted under the hosts.
THEOREM OutTypeCorrect == OutSpec => []OutTypeOK
BY OutInitType, OutTypeStep, PTL DEF OutSpec

\* No step is one of boardrestart.py, and so nothing clashes.
LEMMA NoRestartsStep ==
    ASSUME OutTypeOK, NoRestarts, [OutNext]_outVars
    PROVE  NoRestarts' /\ UNCHANGED restVars
<1>1. ASSUME Alone PROVE UNCHANGED restVars
  <2>1. ASSUME Devices PROVE UNCHANGED restVars
    BY <2>1 DEF Devices, Plug, Unplug, Scan, Reload, Link, Spool
  <2>2. ASSUME NEW h \in Hosts, Work(h) \/ RegisterStart(h) \/ RegisterWrite(h)
        PROVE  UNCHANGED restVars
    BY <2>2, WorkElsewhere DEF OutTypeOK, RegisterStart, RegisterWrite
  <2>3. ASSUME AtRelay PROVE UNCHANGED restVars
    BY <2>3, CheckTypes DEF AtRelay, OutTypeOK, Users, Recover
  <2> QED
    BY <1>1, <2>1, <2>2, <2>3 DEF Alone
<1>2. GoDown \/ (\E h \in Hosts : Fails(h)) => UNCHANGED restVars
  BY FailTypes DEF GoDown, Fails, OutTypeOK
<1>3. UNCHANGED restVars
  BY <1>1, <1>2, OutageForms DEF vars
<1>4. \A r \in Restarts : rpc'[r] = "idle"
  BY <1>3 DEF NoRestarts, restVars
<1>5. ~Clashes'
  BY <1>4 DEF Clashes, Busy
<1>6. ~clash'
  BY <1>5, OutageForms DEF NoRestarts, Observe, vars
<1> QED
  BY <1>3, <1>4, <1>6 DEF NoRestarts

\* What a program changes that does without the relay.
LEMMA FailEffect ==
    ASSUME TypeOK, NEW h \in Hosts, Fails(h)
    PROVE  /\ \A g \in Hosts : g # h =>
                 /\ job'[g] = job[g] /\ cont'[g] = cont[g]
                 /\ script'[Worker(g)] = script[Worker(g)]
                 /\ script'[Register(g)] = script[Register(g)]
           /\ script'[Checker] = script[Checker]
           /\ script'[Register(h)] \in {<<>>, script[Register(h)]}
           /\ \/ job'[h] = job[h] /\ script'[Worker(h)] = script[Worker(h)]
              \/ job'[h] = "idle" /\ script'[Worker(h)] = <<>>
              \/ /\ job'[h] = "idle" /\ job[h] = "kill"
                 /\ script'[Worker(h)] = script[Worker(h)]
           /\ \/ /\ cont'[h] = cont[h]
                 /\ job[h] \in {"devices", "kill"} => job'[h] = job[h]
              \/ /\ cont'[h] # "running" /\ script'[Register(h)] = <<>>
                 /\ job'[h] = "idle"
           /\ relay # "up"
           /\ UNCHANGED <<nodes, events, spool, db, reloads>>
<1>1. /\ job \in [Hosts -> {"idle", "nodes", "rm", "run", "port", "cron",
                          "reset", "devices", "kill", "writing"}]
      /\ cont \in [Hosts -> {"none", "stopped", "running"}]
      /\ script \in [Writers -> Seq(Writes)]
  BY DEF TypeOK, SpoolTypeOK, ContTypeOK, KeyTypeOK
<1>2. UNCHANGED <<nodes, events, spool, db, reloads>>
  BY FailTypes DEF Fails, deviceVars
<1>3. CASE JobFails(h)
  BY <1>1, <1>2, <1>3, WriterTypes DEF JobFails, At, WorkGoto, contVars
<1>4. CASE DetachFails(h)
  <2>1. job[h] = "kill" /\ job' = [job EXCEPT ![h] = "idle"] /\ relay # "up"
    BY <1>4 DEF DetachFails, At, WorkGoto
  <2>2. script' = [script EXCEPT ![Register(h)] = <<>>]
    BY <1>4 DEF DetachFails, Silence
  <2>3. cont'[h] # "running" /\ \A g \in Hosts : g # h => cont'[g] = cont[g]
    BY <1>1, <1>4 DEF DetachFails, Stopped
  <2> QED
    BY <1>1, <1>2, <2>1, <2>2, <2>3, WriterTypes
<1>5. CASE RegisterFails(h)
  BY <1>1, <1>2, <1>5, WriterTypes DEF RegisterFails, Silence, spoolVars, contVars
<1> QED
  BY <1>3, <1>4, <1>5 DEF Fails

\* A program that fails leaves no more behind than it has found: nothing is
\* registered then.
LEMMA FailKeeps ==
    ASSUME OutTypeOK, NoRestarts, HostInv, Undisturbed => Forgotten,
           NEW h \in Hosts, Fails(h), NoRestarts', UNCHANGED restVars
    PROVE  /\ BasicInv' /\ KeptInv'
           /\ Undisturbed' => WorkInv' /\ RestInv' /\ LeaveInv' /\ ListInv' /\ Forgotten'
<1>1. TypeOK /\ BasicInv /\ KeptInv
  BY DEF OutTypeOK, HostInv, NoRestarts
<1>2. BasicInv'
  BY <1>1, FailEffect, BasicFrom
<1>3. KeptInv'
  BY <1>1, FailEffect DEF KeptInv
<1>4. ASSUME Undisturbed'
      PROVE  WorkInv' /\ RestInv' /\ LeaveInv' /\ ListInv' /\ Forgotten'
  <2>1. WorkInv /\ LeaveInv /\ Forgotten
    BY <1>1, <1>4, FailEffect DEF Undisturbed, NoRestarts, HostInv
  <2>2. \A g \in Hosts : ~Adds(Worker(g))'
    BY <1>1, <2>1, FailEffect, SameScript DEF Forgotten, Adds
  <2>3. \A g \in Hosts : job'[g] = job[g] \/ job'[g] = "idle"
    BY <1>1, FailEffect
  <2>4. Forgotten'
    BY <1>1, <2>1, <2>2, <2>3, FailEffect DEF Forgotten
  <2>5. WorkInv'
    BY <2>2, <2>4 DEF WorkInv, Forgotten
  <2>6. RestInv'
    BY DEF NoRestarts, RestInv
  <2>7. ListInv'
    BY <2>4 DEF ListInv, Forgotten
  <2>8. LeaveInv'
    BY <1>1, <2>1, FailEffect DEF LeaveInv, Pending
  <2> QED
    BY <2>4, <2>5, <2>6, <2>7, <2>8
<1> QED
  BY <1>2, <1>3, <1>4

\* While the relay does not answer, nobody begins to register the board.
LEMMA AloneForgotten ==
    ASSUME TypeOK, Forgotten, relay # "up", Alone
    PROVE  Forgotten'
<1>1. /\ job \in [Hosts -> {"idle", "nodes", "rm", "run", "port", "cron",
                          "reset", "devices", "kill", "writing"}]
      /\ script \in [Writers -> Seq(Writes)]
      /\ db \in [Keys -> Values]
      /\ KeyTypeOK
  BY DEF TypeOK, SpoolTypeOK, KeyTypeOK
<1>2. ASSUME UNCHANGED <<job, keyVars>> PROVE Forgotten'
  BY <1>2, SameScript DEF Forgotten, keyVars
<1>3. ASSUME NEW h \in Hosts, NEW d \in Both, NEW e \in Kinds,
             Plug(h) \/ Unplug(h) \/ Link(h, d) \/ Spool(h, e) \/ Scan(h)
      PROVE  Forgotten'
  BY <1>2, <1>3, DeviceTypes DEF Plug, Unplug, Link, Spool, Scan, spoolVars
<1>4. ASSUME NEW h \in Hosts, Reload(h) PROVE Forgotten'
  <2>1. UNCHANGED <<job, db>> /\ script' = [script EXCEPT ![Register(h)] = <<>>]
    BY <1>4 DEF Reload, Silence, spoolVars
  <2>2. \A g \in Hosts : /\ script'[Worker(g)] = script[Worker(g)]
                         /\ script'[Register(g)] \in {<<>>, script[Register(g)]}
    BY <1>1, <2>1, WriterTypes
  <2> QED
    BY <2>1, <2>2, SameScript DEF Forgotten
<1>5. ASSUME NEW h \in Hosts, Work(h), job[h] \notin {"nodes", "kill"}
      PROVE  Forgotten'
  <2>1. CASE Looking(h)
    <3>1. UNCHANGED <<db, script>> /\ \A g \in Hosts : g # h => job'[g] = job[g]
      BY <2>1, LookingEffect
    <3>2. job'[h] \notin {"rm", "run", "port", "cron", "reset"}
      <4>1. AttachJob(h) \/ DetachJob(h) \/ DetachDevices(h)
        BY <1>5, <2>1 DEF Looking, Forgotten, AttachNodes, AttachPort, AttachCron, At
      <4> QED
        BY <1>1, <4>1 DEF AttachJob, DetachJob, DetachDevices, WorkGoto
    <3> QED
      BY <3>1, <3>2, SameScript DEF Forgotten
  <2>2. CASE WorkWrite(h)
    <3>1. /\ db' = [db EXCEPT ![Head(script[Worker(h)]).key] = Head(script[Worker(h)]).val]
          /\ script[Worker(h)] \in Seq(Writes) /\ script[Worker(h)] # <<>>
          /\ script'[Worker(h)] = Tail(script[Worker(h)])
          /\ \A v \in Writers \ {Worker(h)} : script'[v] = script[v]
      BY <1>1, <2>2, WriterTypes, WriteScripts, ExecEffect DEF WorkWrite
    <3>2. Head(script[Worker(h)]).val = Nil
      BY <3>1 DEF Forgotten, Adds
    <3>3. \A k \in Listed : db'[k] = Nil
      BY <1>1, <3>1, <3>2 DEF Forgotten, Listed, Keys
    <3>4. ~Adds(Worker(h))'
      BY <3>1, TailAhead DEF Forgotten
    <3>5. \A g \in Hosts : /\ g # h => script'[Worker(g)] = script[Worker(g)]
                           /\ script'[Register(g)] = script[Register(g)]
      BY <3>1, WriterTypes
    <3>6. \A g \in Hosts : job'[g] = job[g] \/ job'[g] \in {"idle", "writing"}
      BY <1>1, <2>2 DEF WorkWrite, WorkGoto
    <3> QED
      BY <3>3, <3>4, <3>5, <3>6, SameScript DEF Forgotten
  <2>3. ~(AttachRm(h) \/ AttachRun(h) \/ AttachReset(h) \/ DetachKill(h))
    BY <1>5 DEF Forgotten, AttachRm, AttachRun, AttachReset, DetachKill, At
  <2> QED
    BY <1>5, <2>1, <2>2, <2>3 DEF Work, Looking
<1>6. ASSUME NEW h \in Hosts PROVE ~RegisterWrite(h)
  BY <1>6 DEF RegisterWrite, Exec, Forgotten
<1>7. "tty" \in Both /\ "attach" \in Kinds
  BY DEF Both, Kinds
<1> QED
  BY <1>3, <1>4, <1>5, <1>6, <1>7 DEF Alone, Devices

\* The relay takes the registration with it, and what it was about to delete; the
\* hosts lose nothing. No host is about to register the board, unless one is torn.
LEMMA DownKeeps ==
    ASSUME OutTypeOK, NoRestarts, HostInv, GoDown, ~torn', NoRestarts'
    PROVE  /\ BasicInv' /\ KeptInv'
           /\ Undisturbed' => WorkInv' /\ RestInv' /\ LeaveInv' /\ ListInv' /\ Forgotten'
<1>1. /\ BasicInv /\ KeptInv /\ script \in [Writers -> Seq(Writes)]
      /\ ~clash
  BY DEF OutTypeOK, TypeOK, KeyTypeOK, HostInv, NoRestarts
<1>2. /\ UNCHANGED <<job, cont, restVars, nodes, events, spool, reloads>>
      /\ db' = [k \in Keys |-> Nil]
      /\ script' = [script EXCEPT ![Checker] = <<>>]
  BY DEF GoDown, deviceVars, spoolVars, contVars
<1>3. \A h \in Hosts : /\ script'[Worker(h)] = script[Worker(h)]
                       /\ script'[Register(h)] = script[Register(h)]
  BY <1>1, <1>2, WriterTypes
<1>4. KeptInv'
  BY <1>1, <1>2 DEF KeptInv
<1>5. BasicInv'
  <2>1. script'[Checker] = <<>>
    BY <1>1, <1>2, WriterTypes
  <2>2. ~Adds(Checker)'
    BY <2>1 DEF Adds
  <2> QED
    BY <1>1, <1>2, <1>3, <2>2 DEF BasicInv
<1>6. ASSUME Undisturbed'
      PROVE  WorkInv' /\ RestInv' /\ LeaveInv' /\ ListInv' /\ Forgotten'
  <2>1. WorkInv /\ RestInv /\ LeaveInv /\ ListInv
    BY <1>1, <1>2, <1>6 DEF Undisturbed, HostInv
  <2>2. \A k \in Listed : db'[k] = Nil
    BY <1>2 DEF Listed, Keys
  <2>3. WorkInv' /\ RestInv' /\ LeaveInv' /\ ListInv'
    BY <1>2, <1>3, <2>1, <2>2, FrameKeeps
  <2>4. \A h \in Hosts : ~Attaching(h) /\ script[Register(h)] = <<>>
    BY DEF GoDown
  <2>5. \A h \in Hosts : /\ job[h] \notin {"rm", "run", "port", "cron", "reset"}
                         /\ ~Adds(Worker(h))
    BY <2>1, <2>4 DEF Attaching, Adds, WorkInv
  <2>6. Forgotten'
    BY <1>2, <1>3, <2>2, <2>4, <2>5, SameScript DEF Forgotten
  <2> QED
    BY <2>3, <2>6
<1> QED
  BY <1>4, <1>5, <1>6

LEMMA OutStep == OutInv /\ [OutNext]_outVars => OutInv'
<1> SUFFICES ASSUME OutInv, [OutNext]_outVars PROVE OutInv'
  OBVIOUS
<1>1. OutTypeOK /\ NoRestarts /\ OutTypeOK' /\ NoRestarts' /\ UNCHANGED restVars
  BY OutTypeStep, NoRestartsStep DEF OutInv
<1>2. SUFFICES ASSUME ~torn'
               PROVE  HostInv' /\ (Undisturbed' /\ relay' # "up" => Forgotten')
  BY <1>1 DEF OutInv
<1>3. ~torn
  BY <1>2, OutageForms DEF ComeUp, relayVars, GoDown, OutTypeOK
<1>4. HostInv /\ (Undisturbed /\ relay # "up" => Forgotten)
  BY <1>3 DEF OutInv
<1>5. TypeOK /\ TypeOK' /\ ~clash /\ ~clash'
  BY <1>1 DEF OutTypeOK, NoRestarts
<1>6. ClashInv'
  BY <1>1 DEF ClashInv, Clashes, Busy, NoRestarts
<1>7. CASE UNCHANGED vars /\ (ComeUp \/ UNCHANGED relayVars)
  <2>1. HostInv'
    BY <1>4, <1>7, HostStep
  <2>2. relay' # "up" => relay # "up"
    BY <1>7 DEF ComeUp, relayVars
  <2>3. Forgotten => Forgotten'
    BY <1>7, SameScript DEF vars, spoolVars, keyVars, Forgotten
  <2>4. Undisturbed' => Undisturbed
    BY <1>7 DEF vars, contVars, Undisturbed
  <2> QED
    BY <1>4, <2>1, <2>2, <2>3, <2>4
<1>8. CASE Alone /\ Observe /\ UNCHANGED relayVars
  <2>1. Next
    BY <1>8, AloneNext
  <2>2. HostInv'
    BY <1>4, <2>1, HostStep
  <2>3. Undisturbed' => Undisturbed
    BY <1>4, <2>1, UndisturbedStep
  <2> QED
    BY <1>4, <1>5, <1>8, <2>2, <2>3, AloneForgotten DEF relayVars
<1>9. CASE GoDown /\ Observe
  BY <1>1, <1>2, <1>4, <1>5, <1>6, <1>9, DownKeeps DEF HostInv
<1>10. ASSUME NEW h \in Hosts, Fails(h), Observe, UNCHANGED relayVars
       PROVE  HostInv' /\ (Undisturbed' /\ relay' # "up" => Forgotten')
  <2>1. relay # "up"
    BY <1>5, <1>10, FailEffect
  <2> QED
    BY <1>1, <1>4, <1>5, <1>6, <1>10, <2>1, FailKeeps DEF HostInv
<1> QED
  BY <1>7, <1>8, <1>9, <1>10, OutageForms

LEMMA OutInitInv == OutInit => OutInv
<1> SUFFICES ASSUME OutInit PROVE OutInv
  OBVIOUS
<1>1. OutTypeOK /\ HostInv /\ relay = "up"
  BY OutInitType, HostInit DEF OutInit
<1>2. NoRestarts
  BY DEF OutInit, Init, NoRestarts
<1> QED
  BY <1>1, <1>2 DEF OutInv

\* After any number of restarts of the relay too, a board that was pulled out of its
\* host leaves neither a running container nor a registration once all is quiet,
\* unless the relay went down under a boardattach.py or register.py, or a host was
\* reloaded.
THEOREM PulledOutIsGoneAfterOutage == OutSpec => []GoneAfterOutage
<1>1. OutInv => GoneAfterOutage
  BY GoneFromInv DEF OutInv, GoneAfterOutage
<1> QED
  BY <1>1, OutInitInv, OutStep, PTL DEF OutSpec

\* A program that fails has stopped a container, or has left its port alone.
LEMMA FailPorts ==
    ASSUME TypeOK, NEW h \in Hosts, Fails(h)
    PROVE  /\ UNCHANGED <<cron, deviceVars>>
           /\ \A g \in Hosts : g # h => port'[g] = port[g] /\ jobPort'[g] = jobPort[g]
           /\ cont'[h] # "stopped" => cont'[h] = cont[h] /\ port'[h] = port[h]
<1>1. /\ cont \in [Hosts -> {"none", "stopped", "running"}]
      /\ port \in [Hosts -> Ports \cup {Nil}]
      /\ cron \in [Hosts -> Ports \cup {Nil}]
      /\ jobPort \in [Hosts -> Ports \cup {Nil}]
  BY DEF TypeOK, SpoolTypeOK, ContTypeOK
<1>2. CASE JobFails(h)
  BY <1>1, <1>2 DEF JobFails, At, WorkGoto, contVars
<1>3. CASE DetachFails(h)
  BY <1>1, <1>3 DEF DetachFails, At, WorkGoto, Stopped
<1>4. CASE RegisterFails(h)
  BY <1>1, <1>4 DEF RegisterFails, spoolVars, contVars
<1> QED
  BY <1>2, <1>3, <1>4 DEF Fails

LEMMA FailTrue ==
    ASSUME OutTypeOK, NoRestarts, TrueInv, Undisturbed => Forgotten,
           NEW h \in Hosts, Fails(h), UNCHANGED restVars, NoRestarts'
    PROVE  TrueInv'
<1>1. TypeOK /\ PlainInv
  BY DEF OutTypeOK, TrueInv
<1>2. PlainInv'
  <2>1. PlugInv'
    BY <1>1, FailPorts DEF PlainInv, PlugInv, deviceVars
  <2>2. SpentInv'
    BY <1>1, FailEffect DEF PlainInv, SpentInv
  <2>3. NameInv'
    <3>1. \A g \in Hosts : /\ script'[Worker(g)] \in {script[Worker(g)], <<>>}
                           /\ script'[Register(g)] \in {script[Register(g)], <<>>}
      BY <1>1, FailEffect
    <3> QED
      BY <1>1, <3>1, WrittenNames DEF PlainInv, NameInv
  <2>4. BareInv'
    BY <1>1, FailEffect, FailPorts DEF PlainInv, BareInv
  <2> QED
    BY <2>1, <2>2, <2>3, <2>4 DEF PlainInv
<1>3. ASSUME Undisturbed' PROVE WireInv' /\ MoveInv' /\ HomeInv' /\ PortInv'
  <2>1. WireInv /\ Forgotten
    BY <1>1, <1>3, FailEffect DEF Undisturbed, NoRestarts, TrueInv
  <2>2. HomeInv' /\ PortInv'
    BY <1>1, <2>1, FailEffect, HostAssumption DEF HomeInv, PortInv, Forgotten, Listed
  <2>3. MoveInv'
    BY DEF NoRestarts, MoveInv
  <2>4. ASSUME NEW g \in Hosts, g # h PROVE Wired(g)'
    <3>1. (Moving(g) => Moving(g)') /\ (Moved => Moved')
      BY DEF restVars, Moving, Moved
    <3> QED
      BY <1>1, <2>1, <2>4, <3>1, FailEffect, FailPorts, WiredSame DEF WireInv
  <2>5. Wired(h)'
    <3>1. job'[h] \notin {"cron", "reset"} /\ script'[Register(h)] = <<>>
      BY <1>1, <2>1, FailEffect DEF Forgotten
    <3>2. ~Adds(Worker(h))'
      BY <1>1, <2>1, FailEffect, SameScript DEF Forgotten, Adds
    <3>3. \A p : Named(script'[Worker(h)], "port", p) /\ Named(script'[Register(h)], "port", p)
      BY <3>1, <3>2, WrittenNames DEF Adds, Named
    <3>4. ~Moving(h)
      BY DEF NoRestarts, Moving
    <3>5. cont'[h] = "running" /\ cron'[h] # Nil => cron'[h] = port'[h]
      BY <1>1, <2>1, <3>4, FailPorts DEF WireInv, Wired
    <3> QED
      BY <3>1, <3>2, <3>3, <3>5 DEF Wired
  <2> QED
    BY <2>2, <2>3, <2>4, <2>5 DEF WireInv
<1> QED
  BY <1>2, <1>3 DEF TrueInv

\* A new Redis knows no server and no port.
LEMMA DownTrue ==
    ASSUME OutTypeOK, NoRestarts, TrueInv, GoDown
    PROVE  TrueInv'
<1>1. TypeOK /\ PlainInv /\ script \in [Writers -> Seq(Writes)]
  BY DEF OutTypeOK, TypeOK, KeyTypeOK, TrueInv
<1>2. /\ UNCHANGED <<deviceVars, spoolVars, contVars, restVars>>
      /\ \A k \in Listed : db'[k] = Nil
  BY <1>1, DownTypes DEF GoDown, Listed, Keys
<1>3. \A h \in Hosts : /\ script'[Worker(h)] = script[Worker(h)]
                       /\ script'[Register(h)] = script[Register(h)]
  BY <1>1, WriterTypes DEF GoDown
<1>4. PlainInv'
  BY <1>1, <1>2, <1>3 DEF PlainInv, PlugInv, NameInv, BareInv, SpentInv,
                          deviceVars, spoolVars, contVars
<1>5. ASSUME Undisturbed' PROVE WireInv' /\ MoveInv' /\ HomeInv' /\ PortInv'
  <2>1. WireInv /\ MoveInv /\ HomeInv /\ PortInv
    BY <1>2, <1>5 DEF Undisturbed, NoRestarts, TrueInv, contVars
  <2> QED
    BY <1>2, <1>3, <2>1, TrueFrame DEF spoolVars
<1> QED
  BY <1>4, <1>5 DEF TrueInv

LEMMA TrueOutStep ==
    OutInv /\ (~torn => TrueInv) /\ [OutNext]_outVars => (~torn => TrueInv)'
<1> SUFFICES ASSUME OutInv, ~torn => TrueInv, [OutNext]_outVars, ~torn'
             PROVE  TrueInv'
  OBVIOUS
<1>1. /\ OutTypeOK /\ NoRestarts /\ NoRestarts' /\ UNCHANGED restVars
  BY NoRestartsStep DEF OutInv
<1>2. ~torn
  BY OutageForms DEF ComeUp, relayVars, GoDown, OutInv, OutTypeOK
<1>3. HostInv /\ TrueInv /\ (Undisturbed /\ relay # "up" => Forgotten)
  BY <1>2 DEF OutInv
<1>4. CASE UNCHANGED vars \/ (Alone /\ Observe)
  BY <1>3, <1>4, AloneNext, TrueStep
<1>5. CASE GoDown
  BY <1>1, <1>3, <1>5, DownTrue
<1>6. ASSUME NEW h \in Hosts, Fails(h) PROVE TrueInv'
  <2>1. relay # "up"
    BY <1>1, <1>6, FailEffect DEF OutTypeOK
  <2> QED
    BY <1>1, <1>3, <1>6, <2>1, FailTrue
<1> QED
  BY <1>4, <1>5, <1>6, OutageForms

\* Nor does the relay then look for a board at a host or a port where it is not, in
\* what the hosts have told the new Redis, with the same provisos.
THEOREM RegisteredWhereItIsAfterOutage == OutSpec => []TrueAfterOutage
<1>1. OutInit => OutInv /\ (~torn => TrueInv)
  BY OutInitInv, TrueInit DEF OutInit
<1>2. OutInv /\ (~torn => TrueInv) => TrueAfterOutage
  BY TrueFromInv DEF OutInv, TrueAfterOutage
<1> QED
  BY <1>1, <1>2, OutStep, TrueOutStep, PTL DEF OutSpec
====
