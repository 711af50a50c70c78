---- MODULE HotPlug ----
(***************************************************************************)
(* Boards that come and go under the relay's feet: shells and runs of      *)
(* checkboards.py while the scripts of the hosts register boards of the    *)
(* class (the end of boardattach.py) and deregister them (boarddetach.py). *)
(*                                                                         *)
(* Relay.tla has boards that are always there.  Here the class is a set a  *)
(* program reads before it goes through its boards, and the details of a   *)
(* board (user, server and port, one key here) may be missing, on which    *)
(* get_board_details ends the program that asks.  Hardware tests, killed   *)
(* shells and the limits (the clock stands still) are left to Relay.tla,   *)
(* and what the hosts do before they write to Redis to BoardHost.tla.      *)
(***************************************************************************)
EXTENDS Relay

CONSTANT MaxPlugs   \* bound: how often a board is attached or detached

ASSUME PlugAssumption == MaxPlugs \in Nat

VARIABLES class,    \* class[key][b]: b is a member of the class; it has its details
          host,     \* the writes the script of each board's host has still to make
          plugs     \* how often a board was attached or detached

hotVars == <<vars, class, host, plugs>>

ClassKeys == {"member", "details"}
HostWrites == Writes \cup [key : ClassKeys, board : Boards, val : {In, Nil}]

HotTypeOK == /\ TypeOK
             /\ class \in [ClassKeys -> [Boards -> {In, Nil}]]
             /\ host \in [Boards -> Seq(HostWrites)]
             /\ plugs \in 0..MaxPlugs

Members == {b \in Boards : class["member"][b] = In}
Detailed(b) == class["details"][b] = In

\* Some boards are there, and nothing is known of the others.
HotInit == \E here \in SUBSET Boards :
    /\ class = [k \in ClassKeys |-> [b \in Boards |-> IF b \in here THEN In ELSE Nil]]
    /\ db = [k \in Keys |-> [b \in Boards |->
                 IF k \in PoolKeys /\ b \in here THEN In ELSE Nil]]
    /\ locking = "absent"
    /\ script = [p \in Procs |-> <<>>]
    /\ now = 0
    /\ ShellInit /\ CheckInit /\ TestInit
    /\ calm = {} /\ sound = {}
    /\ host = [b \in Boards |-> <<>>]
    /\ plugs = 0

-----------------------------------------------------------------------------
\* The hosts.

ClearUsers(b) == <<Del("lockUser", b), Del("lockTime", b),
                   Del("sessUser", b), Del("sessStart", b), Del("sessPing", b)>>

\* boardattach.py: the board enters both pools before its lock and session go.
AttachWrites(b) == <<Put("member", b, In), Put("available", b, In), Put("unlocked", b, In),
                     Put("details", b, In)>> \o ClearUsers(b)

\* A slip: the details go last.
DetachLate(b) == <<Del("member", b), Del("available", b), Del("unlocked", b)>>
                     \o ClearUsers(b) \o <<Del("details", b)>>

\* boarddetach.py
DetachWrites(b) == <<Del("member", b), Del("available", b), Del("unlocked", b),
                     Del("details", b)>> \o ClearUsers(b)

\* A script is run for the board b: its container is removed or killed (which may
\* fail), which ends the connections to it, before the script comes to its writes.
\* A board that is registered is attached again when its container has stopped
\* (boardscan.sh).
PlugScript(b, writes) ==
    /\ host[b] = <<>>
    /\ plugs < MaxPlugs
    /\ plugs' = plugs + 1
    /\ host' = [host EXCEPT ![b] = writes]
    /\ RestartContainer(b)
    /\ UNCHANGED <<storeVars, localVars, checkVars, testVars, class>>

Attach(b) == PlugScript(b, AttachWrites(b))
Detach(b) == PlugScript(b, DetachWrites(b)) /\ b \in Members

\* The script makes its next write.
HostWrite(b) ==
    /\ host[b] # <<>>
    /\ LET w == Head(host[b]) IN
          \/ /\ w.key \in Keys
             /\ db' = [db EXCEPT ![w.key][w.board] = w.val]
             /\ UNCHANGED class
          \/ /\ w.key \in ClassKeys
             /\ class' = [class EXCEPT ![w.key][w.board] = w.val]
             /\ UNCHANGED db
    /\ host' = [host EXCEPT ![b] = Tail(@)]
    /\ UNCHANGED <<locking, script, now, shellVars, checkVars, testVars, plugs>>

-----------------------------------------------------------------------------
\* The shells, where they read the class or the details.

\* An overlord may ask for a board that is in the class.
Ask(s) == Connect(s) /\ requested'[s] \in Members \cup {Nil}

\* SMEMBERS may have no board to look at.
LookAround(s) ==
    /\ At(s, "locking")
    /\ requested[s] = Nil
    /\ TimeLocking
    /\ \/ Members = {} /\ Move(s, "popAvailable")
       \/ \E b \in Members : Look(s, b, Members \ {b})
    /\ UNCHANGED <<db, script, now>>

\* The user has got a board that is not there: the shell dies, and leaves its lock
\* and session.
Strand(s) == /\ At(s, "restart") \/ At(s, "open")
             /\ ~Detailed(board[s])
             /\ End(s, <<>>)
             /\ UNCHANGED <<db, locking, now>>

HotShell(s) == \/ /\ \/ LookAround(s)
                     \/ Strand(s)
                     \/ /\ ShellStep(s)
                        /\ At(s, "locking") => requested[s] # Nil
                        /\ At(s, "restart") \/ At(s, "open") => Detailed(board[s])
                  /\ UNCHANGED checkVars

HotUser(s) == (Ask(s) \/ Disconnect(s)) /\ UNCHANGED checkVars

-----------------------------------------------------------------------------
\* checkboards.py

HotCron(k) == /\ CAt(k, "idle")
              /\ locking = "absent"
              /\ Members # {}
              /\ NextBoard(k, Members)
              /\ UNCHANGED <<storeVars, shellVars>>

\* get_board_details, read with the ZSCORE: where a detail is missing the whole run is
\* over, the boards it has not come to yet included.
HotCheck(k) ==
    \/ /\ CAt(k, "available")
       /\ ~Detailed(cboard[k])
       /\ NextBoard(k, {})
       /\ UNCHANGED <<storeVars, shellVars>>
    \/ /\ CAt(k, "available") => Detailed(cboard[k])
       /\ \/ CheckStep(k) /\ UNCHANGED shellVars
          \/ Recover(k) /\ RestartContainer(cboard[k]) /\ UNCHANGED localVars

-----------------------------------------------------------------------------
\* The histories of Relay.tla are not kept.
Relayed(A) == A /\ UNCHANGED <<testVars, calm, sound, class, host, plugs>>
Hosted(A)  == A /\ UNCHANGED <<calm, sound>>

HotExpiry == LockingExpires /\ UNCHANGED <<shellVars, checkVars>>

HotNext == \/ Relayed(HotExpiry)
           \/ \E s \in Shells : Relayed(HotShell(s) \/ HotUser(s))
           \/ \E k \in Checkers : Relayed(HotCheck(k) \/ HotCron(k))
           \/ \E b \in Boards : Hosted(Attach(b) \/ Detach(b) \/ HostWrite(b))

\* As in Relay.tla; a script at a host goes on.
HotFairness == /\ WF_hotVars(Relayed(HotExpiry))
               /\ \A s \in Shells : WF_hotVars(Relayed(HotShell(s)))
               /\ \A k \in Checkers : WF_hotVars(Relayed(HotCheck(k)))
               /\ \A k \in Checkers : WF_hotVars(Relayed(HotCron(k)))
               /\ \A b \in Boards : WF_hotVars(Hosted(HostWrite(b)))

HotSpec == HotInit /\ [][HotNext]_hotVars /\ HotFairness

-----------------------------------------------------------------------------
\* A board that stays in the class comes back to its users: one that is attached while
\* it is in no pool yet, or anew under a shell, whose lock and session the attach
\* deletes, and one whose shell died because the details were still to be written
\* (checkboards.py:14-15, 74-120; boardattach.py:138-152; shell.py:141).  Not where users
\* set "locking" again and again for ever, for which checkboards.py waits.
PluggedReclaimed ==
    <>[](locking # "forever") =>
        \A b \in Boards : <>[](b \in Members) => []<>(Pooled(b) \/ Held(b))

\* Nobody is at a board that has left the class: its users are disconnected
\* or their shells die, and none goes on with a lock it was told of.
DetachedLeft ==
    \A b \in Boards : <>[](b \notin Members) => <>[](\A s \in Shells : board[s] # b)
====
