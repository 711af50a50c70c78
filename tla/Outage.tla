---- MODULE Outage ----
(***************************************************************************)
(* The relay is restarted under the board hosts.  Its container is         *)
(* recreated ("docker-compose up --force-recreate", README.md:112) with an *)
(* empty Redis, which knows a board again only when setupusers.py has come *)
(* to it, and has it registered again only by what runs at its host.       *)
(* A script that finds no Redis, or not the board in it, gives up.  No      *)
(* container is restarted here (boardrestart.py; see BoardHost.tla).       *)
(***************************************************************************)
EXTENDS BoardHost

CONSTANT MaxOutages   \* bound: how often the relay is restarted

ASSUME OutageAssumption == MaxOutages \in Nat

VARIABLES relay,    \* it is down, being set up, or up
          outages,  \* how often it was restarted
          torn      \* history: boardattach.py or register.py was under way when it went down

relayVars == <<relay, outages, torn>>
outVars   == <<vars, relayVars>>

OutTypeOK == /\ TypeOK
             /\ relay \in {"down", "setup", "up"}
             /\ outages \in 0..MaxOutages
             /\ torn \in BOOLEAN

OutInit == Init /\ relay = "up" /\ outages = 0 /\ torn = FALSE

-----------------------------------------------------------------------------
\* boardattach.py has found the board in Redis.
Attaching(h) == \/ job[h] \in {"rm", "run", "port", "cron", "reset"}
                \/ /\ job[h] = "writing"
                   /\ \E w \in DOMAIN script[Worker(h)] : script[Worker(h)][w].val # Nil

\* The container of the relay goes, with Redis and the programs in it.
GoDown == /\ relay = "up"
          /\ outages < MaxOutages
          /\ relay' = "down"
          /\ outages' = outages + 1
          /\ torn' = (torn \/ \E h \in Hosts : Attaching(h) \/ script[Register(h)] # <<>>)
          /\ db' = [k \in Keys |-> Nil]
          /\ script' = [script EXCEPT ![Checker] = <<>>]
          /\ trigger' = FALSE
          /\ CheckGoto("idle")
          /\ UNCHANGED <<deviceVars, spoolVars, contVars, restVars, presses>>

\* Redis answers; then setupusers.py adds the board to vlab:knownboards (its writes
\* are one step).
ComeUp == /\ relay # "up"
          /\ relay' = IF relay = "down" THEN "setup" ELSE "up"
          /\ UNCHANGED <<vars, outages, torn>>

-----------------------------------------------------------------------------
\* The programs of the hosts.

\* The job is over: boardattach.py and boarddetach.py find no Redis or are not
\* told of the board when they start, or lose Redis later.
JobFails(h) ==
    /\ \/ relay # "up" /\ At(h, "nodes")
       \/ relay = "down" /\ (At(h, "reset") \/ At(h, "writing"))
    /\ WorkGoto(h, "idle")
    /\ script' = [script EXCEPT ![Worker(h)] = <<>>]
    /\ UNCHANGED <<spool, contVars, db>>

\* boarddetach.py has killed the container before it asks Redis.
DetachFails(h) ==
    /\ relay # "up"
    /\ At(h, "kill")
    /\ \/ cont[h] = "running" /\ Stopped(h, "stopped")
       \/ cont[h] # "running" /\ UNCHANGED <<cont, port, cron>>
    /\ Silence(h)
    /\ WorkGoto(h, "idle")
    /\ UNCHANGED <<spool, reloads, db>>

OutWork(h) == \/ JobFails(h)
              \/ DetachFails(h)
              \/ /\ Work(h)
                 /\ job[h] \in {"nodes", "kill"} => relay = "up"
                 /\ job[h] \in {"reset", "writing"} => relay # "down"

\* register.py is tried again a minute later.
RegisterFails(h) ==
    /\ relay = "down"
    /\ script[Register(h)] # <<>>
    /\ Silence(h)
    /\ UNCHANGED <<db, deviceVars, spoolVars, contVars, restVars, checkVars>>

OutRegister(h) == \/ RegisterFails(h)
                  \/ relay = "up" /\ RegisterStart(h)
                  \/ relay # "down" /\ RegisterWrite(h)

Devices == \/ \E h \in Hosts : Plug(h) \/ Unplug(h) \/ Scan(h) \/ Reload(h)
           \/ \E h \in Hosts, d \in Both : Link(h, d)
           \/ \E h \in Hosts, e \in Kinds : Spool(h, e)

\* What needs a relay that is up.
AtRelay == Press \/ Check \/ Users \/ Recover

OutNext == \/ /\ GoDown \/ ComeUp
              /\ Observe
           \/ /\ \/ Devices
                 \/ \E h \in Hosts : OutWork(h) \/ OutRegister(h)
                 \/ relay = "up" /\ AtRelay
              /\ Observe
              /\ UNCHANGED relayVars

\* As in BoardHost.tla; and a relay that is restarted comes up.
Kept(A) == A /\ Observe /\ UNCHANGED relayVars

OutFairness == /\ WF_outVars(ComeUp /\ Observe)
               /\ \A h \in Hosts :
                     /\ WF_outVars(Kept(Scan(h)))
                     /\ WF_outVars(Kept(OutWork(h)))
                     /\ WF_outVars(Kept(OutRegister(h)))
                     /\ \A d \in Both : WF_outVars(Kept(Link(h, d)))
                     /\ \A e \in Kinds : WF_outVars(Kept(Spool(h, e)))
               /\ WF_outVars(Kept(relay = "up" /\ Check))
               /\ WF_outVars(Kept(relay = "up" /\ Recover))

OutSpec == OutInit /\ [][OutNext]_outVars /\ OutFairness

-----------------------------------------------------------------------------
\* After an outage too, a board that was pulled out leaves nothing once all is quiet,
\* unless boardattach.py or register.py had asked Redis for the board when the relay
\* went down: then it may write to the new Redis before boarddetach.py can find the
\* board in it (boarddetach.py:67-69).
GoneAfterOutage == ~torn /\ relay = "up" => GoneWhenQuiet

\* Nor does an outage, then, make the relay look for the board where it is not.
TrueAfterOutage == ~torn /\ relay = "up" => TrueWhenQuiet
====
