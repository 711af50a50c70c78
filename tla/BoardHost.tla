---- MODULE BoardHost ----
(***************************************************************************)
(* How a board gets into Redis and out of it: the scripts of the board     *)
(* hosts (host/opt/VLAB), register.py in the board's container, and the    *)
(* SSH check of the relay (checkboards.py -s).                             *)
(*                                                                         *)
(* One board and the hosts it can be plugged into; boards share nothing    *)
(* here but the spooler of a host.  One step is one Redis command, one     *)
(* docker command or one look at the devices.  The writes a script has     *)
(* still to make are a sequence, as in VlabStore.  Its lock and session    *)
(* (five keys, which the scripts here only delete) are the one key         *)
(* "lease", and the rest of the relay is the environment (Occupy, Recover).*)
(***************************************************************************)
EXTENDS Naturals, Sequences

CONSTANTS Hosts,       \* the board hosts
          Ports,       \* host ports docker can map port 22 of a container to
          Restarts,    \* runs of boardrestart.py
          MaxMoves,    \* bound: how often the board is plugged in or pulled out
          MaxJobs,     \* bound: events under way, and jobs spooled, at a host
          MaxPresses,  \* bound: how often the button of the dashboard is pressed
          Reloadable,  \* bound: hosts where boardserver-load.sh is run, once
          Nil,         \* the reply for a key that is not there
          In           \* the reply for a member of a set

ASSUME HostAssumption == /\ Nil \notin Hosts \cup Ports \cup {In}
                         /\ MaxMoves \in Nat
                         /\ MaxJobs \in Nat
                         /\ MaxPresses \in Nat
                         /\ Reloadable \subseteq Hosts

VARIABLES plugged,   \* the host the board is plugged into, or Nil
          moves,     \* how often it was plugged in or pulled out
          nodes,     \* /dev/vlab/<serial>/ of each host
          events,    \* runs of boardevent.sh that have not spooled their job yet
          spool,     \* the queue of Task Spooler at each host
          job,       \* the command its worker issues next
          jobPort,   \* the port boardattach.py has read
          cont,      \* the container of the board at each host
          port,      \* its host port
          cron,      \* the port in its /etc/cron.d/vlab-cron
          rpc,       \* the command each run of boardrestart.py issues next
          rhost,     \* the host it runs at
          rport,     \* the port it has read
          check,     \* the command the SSH check issues next
          target,    \* the server and port it has read
          trigger,   \* the key vlab:hwtest:trigger is there
          presses,   \* how often it was set
          reloads,   \* the hosts where boardserver-load.sh may still be run
          db,        \* the keys of the board
          script,    \* the writes each program has still to make
          clash      \* history: a restart has met other work on the container

deviceVars == <<plugged, moves, nodes>>
spoolVars  == <<events, spool, job, jobPort>>
contVars   == <<cont, port, cron, reloads>>
restVars   == <<rpc, rhost, rport>>
checkVars  == <<check, target, trigger, presses>>
keyVars    == <<db, script>>
vars == <<deviceVars, spoolVars, contVars, restVars, checkVars, keyVars, clash>>

Both  == {"tty", "jtag"}
Kinds == {"attach", "detach"}
Keys  == {"member", "available", "unlocked", "server", "port", "lease"}

\* The programs that write: the worker of a host, register.py in the container
\* at a host, and the SSH check.
Worker(h)   == <<"worker", h>>
Register(h) == <<"register", h>>
Checker     == <<"check", Nil>>
Writers     == {Worker(h) : h \in Hosts} \cup {Register(h) : h \in Hosts} \cup {Checker}

KeyType(k) == {Nil} \cup CASE k = "server" -> Hosts
                          [] k = "port" -> Ports
                          [] OTHER -> {In}
Values == {Nil, In} \cup Hosts \cup Ports
Writes == {w \in [key : Keys, val : Values] : w.val \in KeyType(w.key)}
Put(k, v) == [key |-> k, val |-> v]
Del(k)    == Put(k, Nil)

DeviceTypeOK == /\ plugged \in Hosts \cup {Nil}
                /\ moves \in 0..MaxMoves
                /\ nodes \in [Hosts -> SUBSET Both]

SpoolTypeOK == /\ events \in [Hosts -> [Kinds -> 0..MaxJobs]]
               /\ spool \in [Hosts -> Seq(Kinds)]
               /\ \A h \in Hosts : Len(spool[h]) =< MaxJobs
               /\ job \in [Hosts -> {"idle", "nodes", "rm", "run", "port", "cron",
                                    "reset", "devices", "kill", "writing"}]
               /\ jobPort \in [Hosts -> Ports \cup {Nil}]

ContTypeOK == /\ cont \in [Hosts -> {"none", "stopped", "running"}]
              /\ port \in [Hosts -> Ports \cup {Nil}]
              /\ cron \in [Hosts -> Ports \cup {Nil}]
              /\ reloads \in SUBSET Reloadable
              /\ \A h \in Hosts : cont[h] = "running" => port[h] # Nil

RestTypeOK == /\ rpc \in [Restarts -> {"idle", "stop", "start", "port", "cron",
                                       "set", "done"}]
              /\ rhost \in [Restarts -> Hosts \cup {Nil}]
              /\ rport \in [Restarts -> Ports \cup {Nil}]
              /\ \A r \in Restarts : rpc[r] \notin {"idle", "done"} => rhost[r] # Nil

CheckTypeOK == /\ check \in {"idle", "server", "port", "connect", "server2", "port2",
                             "connect2", "class", "writing"}
               /\ target \in [server : KeyType("server"), port : KeyType("port")]
               /\ trigger \in BOOLEAN
               /\ presses \in 0..MaxPresses

KeyTypeOK == /\ db \in [Keys -> Values]
             /\ \A k \in Keys : db[k] \in KeyType(k)
             /\ script \in [Writers -> Seq(Writes)]

TypeOK == /\ DeviceTypeOK /\ SpoolTypeOK /\ ContTypeOK
          /\ RestTypeOK /\ CheckTypeOK /\ KeyTypeOK
          /\ clash \in BOOLEAN

\* Nothing is plugged in and nothing is known of the board.
Init == /\ plugged = Nil /\ moves = 0
        /\ nodes = [h \in Hosts |-> {}]
        /\ events = [h \in Hosts |-> [e \in Kinds |-> 0]]
        /\ spool = [h \in Hosts |-> <<>>]
        /\ job = [h \in Hosts |-> "idle"]
        /\ jobPort = [h \in Hosts |-> Nil]
        /\ cont = [h \in Hosts |-> "none"]
        /\ port = [h \in Hosts |-> Nil]
        /\ cron = [h \in Hosts |-> Nil]
        /\ rpc = [r \in Restarts |-> "idle"]
        /\ rhost = [r \in Restarts |-> Nil]
        /\ rport = [r \in Restarts |-> Nil]
        /\ check = "idle"
        /\ target = [k \in {"server", "port"} |-> Nil]
        /\ trigger = FALSE /\ presses = 0
        /\ reloads = Reloadable
        /\ db = [k \in Keys |-> Nil]
        /\ script = [w \in Writers |-> <<>>]
        /\ clash = FALSE

-----------------------------------------------------------------------------
(* Redis *)

\* w makes the next write of its script.
Exec(w) == /\ script[w] # <<>>
           /\ db' = [db EXCEPT ![Head(script[w]).key] = Head(script[w]).val]
           /\ script' = [script EXCEPT ![w] = Tail(@)]

\* boardattach.py, the registration of a board: no lock, no session.
Attached(h, p) == <<Put("member", In), Put("available", In), Put("unlocked", In),
                    Put("server", h), Put("port", p), Del("lease")>>

\* A slip: the board only leaves the pools.
RemovedPooled == <<Del("unlocked"), Del("available"), Del("lease")>>

\* boarddetach.py; remove_board of vlabredis.py.
Detached == <<Del("member"), Del("available"), Del("unlocked"),
              Del("server"), Del("port"), Del("lease")>>
Removed  == <<Del("member"), Del("unlocked"), Del("available"),
              Del("server"), Del("port"), Del("lease")>>

\* The same for a board whose class is not found: the sets of "None" are written.
RemovedLost == <<Del("server"), Del("port"), Del("lease")>>

\* A slip: the arguments of register.py in the wrong order.
RegisteredSwapped(h, p) == <<Put("member", In), Put("server", p), Put("port", h)>>

\* register.py: the pools are left alone.
Registered(h, p) == <<Put("member", In), Put("server", h), Put("port", p)>>

-----------------------------------------------------------------------------
(* Devices and udev *)

\* The board is plugged in.
Plug(h) == /\ plugged = Nil
           /\ moves < MaxMoves
           /\ plugged' = h
           /\ moves' = moves + 1
           /\ UNCHANGED <<nodes, spoolVars, contVars, restVars, checkVars, keyVars>>

Fire(h, e) == /\ events[h][e] < MaxJobs
              /\ events' = [events EXCEPT ![h][e] = @ + 1]

\* udev finds one of its two devices, makes the link and starts boardevent.sh.
Link(h, d) == /\ plugged = h
              /\ d \notin nodes[h]
              /\ nodes' = [nodes EXCEPT ![h] = @ \cup {d}]
              /\ Fire(h, "attach")
              /\ UNCHANGED <<plugged, moves, spool, job, jobPort, contVars,
                             restVars, checkVars, keyVars>>

\* The board is pulled out: both devices go at the same time, with one event.
Unplug(h) == /\ plugged = h
             /\ moves < MaxMoves
             /\ plugged' = Nil
             /\ moves' = moves + 1
             /\ nodes' = [nodes EXCEPT ![h] = {}]
             /\ Fire(h, "detach")
             /\ UNCHANGED <<spool, job, jobPort, contVars, restVars, checkVars, keyVars>>

\* boardevent.sh spools the job (an attach event after a second, so that events
\* overtake one another).
Spool(h, e) == /\ events[h][e] > 0
               /\ Len(spool[h]) < MaxJobs
               /\ events' = [events EXCEPT ![h][e] = @ - 1]
               /\ spool' = [spool EXCEPT ![h] = Append(@, e)]
               /\ UNCHANGED <<deviceVars, job, jobPort, contVars, restVars,
                              checkVars, keyVars>>

\* boardscan.sh, every minute: a board without a running container is attached,
\* a running container without its devices is detached.
Scan(h) == /\ \/ cont[h] # "running" /\ nodes[h] = Both /\ Fire(h, "attach")
              \/ cont[h] = "running" /\ nodes[h] # Both /\ Fire(h, "detach")
           /\ UNCHANGED <<deviceVars, spool, job, jobPort, contVars, restVars,
                          checkVars, keyVars>>

-----------------------------------------------------------------------------
(* Docker *)

\* The container at h stops, and register.py in it.
Stopped(h, state) ==
    /\ cont' = [cont EXCEPT ![h] = state]
    /\ port' = [port EXCEPT ![h] = Nil]
    /\ cron' = [cron EXCEPT ![h] = IF state = "none" THEN Nil ELSE @]

\* It starts, if both devices are there, and gets some port.
Starts(h) == /\ nodes[h] = Both
             /\ cont' = [cont EXCEPT ![h] = "running"]
             /\ \E p \in Ports : port' = [port EXCEPT ![h] = p]

Silence(h) == script' = [script EXCEPT ![Register(h)] = <<>>]

\* boardserver-load.sh kills and removes all the containers of a host.
Reload(h) == /\ h \in reloads
             /\ reloads' = reloads \ {h}
             /\ Stopped(h, "none")
             /\ Silence(h)
             /\ UNCHANGED <<db, deviceVars, spoolVars, restVars, checkVars>>

-----------------------------------------------------------------------------
(* The worker of a host's spooler, one job after another *)

\* The worker goes on with, or is done with, its job.
WorkGoto(h, l) ==
    /\ job' = [job EXCEPT ![h] = l]
    /\ jobPort' = [jobPort EXCEPT ![h] = IF l \in {"cron", "reset"} THEN @ ELSE Nil]

At(h, l) == job[h] = l /\ UNCHANGED <<deviceVars, events, restVars, checkVars>>

Stay == UNCHANGED <<spool, contVars, keyVars>>

\* A slip: boardattach.sh does not ask whether the container is running.
AttachAnyway(h) == /\ At(h, "idle")
                   /\ spool[h] # <<>> /\ Head(spool[h]) = "attach"
                   /\ spool' = [spool EXCEPT ![h] = Tail(@)]
                   /\ WorkGoto(h, "nodes")
                   /\ UNCHANGED <<contVars, keyVars>>

\* boardattach.sh, boarddetach.sh: is the container running?
AttachJob(h) ==
    /\ At(h, "idle")
    /\ spool[h] # <<>> /\ Head(spool[h]) = "attach"
    /\ spool' = [spool EXCEPT ![h] = Tail(@)]
    /\ WorkGoto(h, IF cont[h] = "running" THEN "idle" ELSE "nodes")
    /\ UNCHANGED <<contVars, keyVars>>

DetachJob(h) ==
    /\ At(h, "idle")
    /\ spool[h] # <<>> /\ Head(spool[h]) = "detach"
    /\ spool' = [spool EXCEPT ![h] = Tail(@)]
    /\ WorkGoto(h, IF cont[h] = "running" THEN "devices" ELSE "idle")
    /\ UNCHANGED <<contVars, keyVars>>

\* boardattach.py: both links must be there.
AttachNodes(h) == /\ At(h, "nodes")
                  /\ WorkGoto(h, IF nodes[h] = Both THEN "rm" ELSE "idle")
                  /\ Stay

\* docker rm -f, whether there is a container or not.
AttachRm(h) == /\ At(h, "rm")
               /\ Stopped(h, "none")
               /\ Silence(h)
               /\ WorkGoto(h, "run")
               /\ UNCHANGED <<spool, reloads, db>>

\* docker run: it fails, and leaves a container that does not run, when a
\* device has gone.
AttachRun(h) ==
    /\ At(h, "run")
    /\ \/ Starts(h) /\ WorkGoto(h, "port") /\ UNCHANGED cron
       \/ nodes[h] # Both /\ Stopped(h, "stopped") /\ WorkGoto(h, "idle")
    /\ UNCHANGED <<spool, reloads, keyVars>>

\* docker port; boardattach.py dies when the container has stopped.
AttachPort(h) ==
    /\ At(h, "port")
    /\ \/ /\ cont[h] = "running"
          /\ job' = [job EXCEPT ![h] = "cron"]
          /\ jobPort' = [jobPort EXCEPT ![h] = port[h]]
       \/ cont[h] # "running" /\ WorkGoto(h, "idle")
    /\ UNCHANGED <<spool, contVars, keyVars>>

\* A slip: no cron job is set up in the container.
AttachNoCron(h) == At(h, "cron") /\ WorkGoto(h, "reset") /\ Stay

\* docker exec, which sets up the cron job in the container.
AttachCron(h) ==
    /\ At(h, "cron")
    /\ \/ /\ cont[h] = "running"
          /\ cron' = [cron EXCEPT ![h] = jobPort[h]]
          /\ WorkGoto(h, "reset")
       \/ cont[h] # "running" /\ WorkGoto(h, "idle") /\ UNCHANGED cron
    /\ UNCHANGED <<spool, cont, port, reloads, keyVars>>

\* The FPGA is reset, if it is to be; boardattach.py dies when that fails.
\* Otherwise the board is registered.
AttachReset(h) ==
    /\ At(h, "reset")
    /\ \/ /\ script' = [script EXCEPT ![Worker(h)] = Attached(h, jobPort[h])]
          /\ WorkGoto(h, "writing")
       \/ WorkGoto(h, "idle") /\ UNCHANGED script
    /\ UNCHANGED <<spool, contVars, db>>

\* boarddetach.sh: are the devices there again?
DetachDevices(h) == /\ At(h, "devices")
                    /\ WorkGoto(h, IF nodes[h] = Both THEN "idle" ELSE "kill")
                    /\ Stay

\* A slip: the container is left running.
DetachUnkilled(h) ==
    /\ At(h, "kill")
    /\ script' = [script EXCEPT ![Worker(h)] = Detached]
    /\ WorkGoto(h, "writing")
    /\ UNCHANGED <<spool, contVars, db>>

\* boarddetach.py: docker kill, which may fail, and the board is deregistered.
DetachKill(h) ==
    /\ At(h, "kill")
    /\ \/ cont[h] = "running" /\ Stopped(h, "stopped")
       \/ cont[h] # "running" /\ UNCHANGED <<cont, port, cron>>
    /\ script' = [script EXCEPT ![Worker(h)] = Detached, ![Register(h)] = <<>>]
    /\ WorkGoto(h, "writing")
    /\ UNCHANGED <<spool, reloads, db>>

\* The job is over with its last write.
WorkWrite(h) ==
    /\ At(h, "writing")
    /\ Exec(Worker(h))
    /\ WorkGoto(h, IF Len(script[Worker(h)]) = 1 THEN "idle" ELSE "writing")
    /\ UNCHANGED <<spool, contVars>>

Work(h) == \/ AttachJob(h) \/ AttachNodes(h) \/ AttachRm(h) \/ AttachRun(h)
           \/ AttachPort(h) \/ AttachCron(h) \/ AttachReset(h)
           \/ DetachJob(h) \/ DetachDevices(h) \/ DetachKill(h)
           \/ WorkWrite(h)

-----------------------------------------------------------------------------
(* register.py, every minute in a container whose cron job is set up *)

RegisterStart(h) ==
    /\ cont[h] = "running" /\ cron[h] # Nil
    /\ script[Register(h)] = <<>>
    /\ script' = [script EXCEPT ![Register(h)] = Registered(h, cron[h])]
    /\ UNCHANGED <<db, deviceVars, spoolVars, contVars, restVars, checkVars>>

RegisterWrite(h) ==
    /\ Exec(Register(h))
    /\ UNCHANGED <<deviceVars, spoolVars, contVars, restVars, checkVars>>

-----------------------------------------------------------------------------
(* boardrestart.py, which a shell or checkboards.py runs at the board's host *)

RestAt(r, l) == rpc[r] = l /\ UNCHANGED <<deviceVars, spoolVars, checkVars, reloads>>

\* r goes on at host h, with the port p if it has read one, or is over.
RestGoto(r, l, h, p) == /\ rpc' = [rpc EXCEPT ![r] = l]
                        /\ rhost' = [rhost EXCEPT ![r] = h]
                        /\ rport' = [rport EXCEPT ![r] = p]
RestOver(r) == RestGoto(r, "done", Nil, Nil)

RestartCall(r) == /\ RestAt(r, "idle")
                  /\ db["server"] # Nil
                  /\ RestGoto(r, "stop", db["server"], Nil)
                  /\ UNCHANGED <<cont, port, cron, keyVars>>

\* docker restart stops the container and starts it; without one, it fails.
RestartStop(r) == LET h == rhost[r] IN
    /\ RestAt(r, "stop")
    /\ \/ cont[h] = "running" /\ Stopped(h, "stopped")
       \/ cont[h] # "running" /\ UNCHANGED <<cont, port, cron>>
    /\ \/ cont[h] # "none" /\ RestGoto(r, "start", h, Nil)
       \/ cont[h] = "none" /\ RestOver(r)
    /\ Silence(h)
    /\ UNCHANGED db

RestartStart(r) == LET h == rhost[r] IN
    /\ RestAt(r, "start")
    /\ \/ /\ cont[h] = "stopped" /\ Starts(h)
          /\ RestGoto(r, "port", h, Nil)
       \/ /\ cont[h] = "running"
          /\ RestGoto(r, "port", h, Nil)
          /\ UNCHANGED <<cont, port>>
       \/ /\ cont[h] # "running"
          /\ cont[h] = "stopped" => nodes[h] # Both
          /\ RestOver(r)
          /\ UNCHANGED <<cont, port>>
    /\ UNCHANGED <<cron, keyVars>>

\* docker port; the script dies when the container has stopped again.
RestartPort(r) == LET h == rhost[r] IN
    /\ RestAt(r, "port")
    /\ \/ cont[h] = "running" /\ RestGoto(r, "cron", h, port[h])
       \/ cont[h] # "running" /\ RestOver(r)
    /\ UNCHANGED <<cont, port, cron, keyVars>>

\* A slip: the cron job keeps the old port.
RestartNoCron(r) == /\ RestAt(r, "cron")
                    /\ RestGoto(r, "set", rhost[r], rport[r])
                    /\ UNCHANGED <<cont, port, cron, keyVars>>

RestartCron(r) == LET h == rhost[r] IN
    /\ RestAt(r, "cron")
    /\ \/ /\ cont[h] = "running"
          /\ cron' = [cron EXCEPT ![h] = rport[r]]
          /\ RestGoto(r, "set", h, rport[r])
       \/ cont[h] # "running" /\ RestOver(r) /\ UNCHANGED cron
    /\ UNCHANGED <<cont, port, keyVars>>

RestartSet(r) == /\ RestAt(r, "set")
                 /\ db' = [db EXCEPT !["port"] = rport[r]]
                 /\ RestOver(r)
                 /\ UNCHANGED <<cont, port, cron, script>>

Restart(r) == \/ RestartStop(r) \/ RestartStart(r) \/ RestartPort(r)
              \/ RestartCron(r) \/ RestartSet(r)

-----------------------------------------------------------------------------
(* The SSH check *)

CheckAt(l) == check = l /\ UNCHANGED <<deviceVars, spoolVars, contVars, restVars>>

Nowhere == [k \in {"server", "port"} |-> Nil]

\* The check goes on; what it has read is forgotten.
CheckGoto(l) == check' = l /\ target' = Nowhere

\* The dashboard asks for a hardware test.
Press == /\ presses < MaxPresses
         /\ presses' = presses + 1
         /\ trigger' = TRUE
         /\ UNCHANGED <<deviceVars, spoolVars, contVars, restVars, keyVars,
                        check, target>>

\* checkboards.py, every minute: the boards of the class are checked only when
\* the trigger was set.
CheckStart == /\ CheckAt("idle")
              /\ trigger
              /\ trigger' = FALSE
              /\ CheckGoto(IF db["member"] = In THEN "server" ELSE "idle")
              /\ UNCHANGED <<presses, keyVars>>

\* get_board_details: a missing key ends the run.
CheckRead(l, key, next) ==
    /\ CheckAt(l)
    /\ \/ /\ db[key] # Nil
          /\ target' = [target EXCEPT ![key] = db[key]]
          /\ check' = next
       \/ db[key] = Nil /\ CheckGoto("idle")
    /\ UNCHANGED <<trigger, presses, keyVars>>

\* A container listens there.
Answers(h, p) == cont[h] = "running" /\ port[h] = p

\* check_ssh_connection
Connected == Answers(target["server"], target["port"])

CheckConnect == /\ CheckAt("connect")
                /\ CheckGoto(IF Connected THEN "idle" ELSE "server2")
                /\ UNCHANGED <<trigger, presses, keyVars>>

\* Three seconds later it is tried again.
CheckAgain == /\ CheckAt("connect2")
              /\ CheckGoto(IF Connected THEN "idle" ELSE "class")
              /\ UNCHANGED <<trigger, presses, keyVars>>

\* remove_board looks for the class of the board and removes it.
CheckRemove ==
    /\ CheckAt("class")
    /\ script' = [script EXCEPT ![Checker] =
                     IF db["member"] = In THEN Removed ELSE RemovedLost]
    /\ CheckGoto("writing")
    /\ UNCHANGED <<trigger, presses, db>>

CheckWrite == /\ CheckAt("writing")
              /\ Exec(Checker)
              /\ CheckGoto(IF Len(script[Checker]) = 1 THEN "idle" ELSE "writing")
              /\ UNCHANGED <<trigger, presses>>

Check == \/ CheckStart
         \/ CheckRead("server", "server", "port")
         \/ CheckRead("port", "port", "connect")
         \/ CheckConnect
         \/ CheckRead("server2", "server", "port2")
         \/ CheckRead("port2", "port", "connect2")
         \/ CheckAgain
         \/ CheckRemove
         \/ CheckWrite

-----------------------------------------------------------------------------
(* The rest of the relay (Relay.tla), as far as the board is concerned *)

\* A user gets the board; a session ends.
Occupy == /\ db["available"] = In \/ db["unlocked"] = In
          /\ db' = [db EXCEPT !["available"] = Nil, !["unlocked"] = Nil, !["lease"] = In]
Vacate == /\ db["lease"] = In
          /\ db' = [db EXCEPT !["available"] = In, !["unlocked"] = In, !["lease"] = Nil]

\* check_sessions puts back a board of the class that has no session.
Recover == /\ \A k \in {"member", "server", "port"} : db[k] # Nil
           /\ db["available"] = Nil /\ db["lease"] = Nil
           /\ db' = [db EXCEPT !["available"] = In, !["unlocked"] = In]
           /\ UNCHANGED <<deviceVars, spoolVars, contVars, restVars, checkVars, script>>

Users == /\ Occupy \/ Vacate
         /\ UNCHANGED <<deviceVars, spoolVars, contVars, restVars, checkVars, script>>

-----------------------------------------------------------------------------
\* A run of boardrestart.py is not alone: the spooler has work with the
\* container too, the board has been pulled out, or there is another restart.
Busy(r) == rpc[r] \notin {"idle", "done"}
Clashes == \E r \in Restarts : LET h == rhost[r] IN
    /\ Busy(r)
    /\ \/ job[h] # "idle" \/ spool[h] # <<>> \/ nodes[h] # Both
       \/ \E q \in Restarts \ {r} : Busy(q) /\ rhost[q] = h

Observe == clash' = (clash \/ Clashes')

Next == /\ \/ \E h \in Hosts : Plug(h) \/ Unplug(h) \/ Scan(h) \/ Work(h) \/ Reload(h)
           \/ \E h \in Hosts : RegisterStart(h) \/ RegisterWrite(h)
           \/ \E h \in Hosts, d \in Both : Link(h, d)
           \/ \E h \in Hosts, e \in Kinds : Spool(h, e)
           \/ \E r \in Restarts : RestartCall(r) \/ Restart(r)
           \/ Press \/ Check
           \/ Users \/ Recover
        /\ Observe

\* udev, at, cron, the spooler and every program that has been started go on.
\* Nobody need plug the board, restart a container or press the button.
Fairness == /\ \A h \in Hosts :
                  /\ WF_vars(Scan(h) /\ Observe)
                  /\ WF_vars(Work(h) /\ Observe)
                  /\ WF_vars(RegisterStart(h) /\ Observe)
                  /\ WF_vars(RegisterWrite(h) /\ Observe)
                  /\ \A d \in Both : WF_vars(Link(h, d) /\ Observe)
                  /\ \A e \in Kinds : WF_vars(Spool(h, e) /\ Observe)
            /\ \A r \in Restarts : WF_vars(Restart(r) /\ Observe)
            /\ WF_vars(Check /\ Observe)
            /\ WF_vars(Recover /\ Observe)

Spec == Init /\ [][Next]_vars /\ Fairness

-----------------------------------------------------------------------------
Served(h) == /\ db["member"] = In
             /\ db["server"] = h
             /\ db["port"] # Nil /\ Answers(h, db["port"])

Offered == db["available"] = In \/ db["lease"] = In

\* A board that stays plugged in is registered for good, with its true server and
\* port, and offered to users (register.py:4-5, 29-32), if no restart of its
\* container clashed with other work (then the cron job may have a dead port).
StaysRegistered == \A h \in Hosts :
    <>[](plugged = h) /\ []~clash => <>[](Served(h) /\ Offered)

\* Nothing is under way.
Quiet == /\ \A h \in Hosts : /\ job[h] = "idle" /\ spool[h] = <<>>
                             /\ \A e \in Kinds : events[h][e] = 0
         /\ \A w \in Writers : script[w] = <<>>
         /\ \A r \in Restarts : ~Busy(r)

\* Once everything about a board that was pulled out is over, it has left neither
\* a running container nor a registration (README.md:236), if no restart clashed
\* (a detach that finds the container between stop and start is ignored) and no
\* host was reloaded (then the registration stays).
GoneWhenQuiet ==
    Quiet /\ ~clash /\ reloads = Reloadable /\ (\A h \in Hosts : nodes[h] = {}) =>
        /\ \A k \in {"member", "server", "port"} : db[k] = Nil
        /\ \A h \in Hosts : cont[h] # "running"

\* Once all is quiet, the relay looks for the board where it is plugged in, and
\* register.py goes on to tell it the port at which the container listens there; so
\* does Redis, unless a boardrestart.py was run (a register.py that it overtakes still
\* writes the old port), if no restart clashed and no host was reloaded.
TrueWhenQuiet ==
    Quiet /\ ~clash /\ reloads = Reloadable =>
        /\ db["server"] \in {Nil, plugged}
        /\ db["port"] # Nil =>
              /\ plugged # Nil
              /\ cont[plugged] = "running" /\ cron[plugged] = port[plugged]
              /\ (\A r \in Restarts : rpc[r] = "idle") => db["port"] = port[plugged]

\* However many attach events there are, boardattach.py never removes a container
\* that runs (boardattach.py:6-9), unless a restart has just started it.
ContainerKept ==
    [][\A h \in Hosts :
          job[h] = "rm" /\ job'[h] = "run" /\ cont[h] = "running" => clash]_vars

\* The board is registered, with a server and a port where nothing answers.
Unreachable == /\ \A k \in {"member", "server", "port"} : db[k] # Nil
               /\ \A h \in Hosts : ~Served(h)

\* When the SSH check runs, it removes a board that stays unreachable
\* (checkboards.py:169-171).
CheckRemoves == trigger /\ Unreachable ~> ~Unreachable
====
