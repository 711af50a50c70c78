# The Virtual Lab, verified

This directory holds a formal model of the VLAB (the repository beside it): TLA+
modules, the TLC runs that check them on small instances, and proofs that TLAPS
checks for every instance. The models are translated from the code; the
documentation and the tests of the repository are used only for what they *claim*
of it.

## 1. The system

Users of the VLAB share FPGA boards. A board is plugged into a *board host*, which
runs a container for it; the *relay* has the user accounts and a Redis server. A
user's client (`vlab.py`) opens an ssh connection to the relay, where a *shell*
(`relay/shell.py`) finds a board, locks it, and forwards the connection to the
board's container. All coordination goes through Redis keys; there is no lock around
any sequence of commands.

| Part | State it keeps | Operations | Modelled in |
|---|---|---|---|
| Redis keys of a board (`vlabcommon/vlabredis.py`) | two pools of the board's class (`availableboards`, `unlockedboards`), `lock:username/time`, `session:username/starttime/pingtime`, `hwtest:*`, `user/server/port` | lock, unlock, start/end/ping a session, each with and without a check of user and time, pop a board, remove a board | `VlabStore` (the pops in `ZPopMin`) |
| Pop of a pool (`_zpopmin`) | a local `element`, Redis's mark on the connection | WATCH, ZRANGE, MULTI/ZREM/EXEC, retry | `ZPopMin` against `AtomicPool` |
| Relay shell (`relay/shell.py`) | requested serial, board, session start, `locked`, the ssh child | acquire (reuse, claim, pop, pop), serve (expire, ping, wait), give back | `Shell` |
| Session checker (`relay/checkboards.py`, every minute) | the board it looks at and the keys it has read | free boards with incomplete or outdated sessions and locks | `CheckBoards` |
| Hardware test (`relay/testboards.py`, every four hours or on request) | `hwtest:testing`, `hwtest:running`, results | withdraw, test, return the idle boards | `TestBoards` |
| Relay as a whole | the clock, the mark `locking` | the three above, many of each | `Relay` |
| Board hosts (`host/opt/VLAB`, udev rules) | device links, spooled jobs, the board's container with its port and cron job | attach, detach, scan, restart, reload | `BoardHost` (the effect of a restart on connections is in `Shell`) |
| Registration (`boardserver/register.py`, every minute in the container) | - | rewrites set membership, `server` and `port` | `BoardHost` |
| SSH check (`checkboards.py -s`) | the details it has read | remove unreachable boards | `BoardHost` |
| Relay's start (`relay/setupusers.py`) | an empty Redis | adds users and known boards, sets the port counter | `Outage`, `Tunnel` (partly) |
| User client (`vlab.py`) | its local port, the port on the relay it was given | asks for a port, connects with it | `Tunnel` |
| Usage log (`shell.py`'s logging, `web/logparser.py`) | the lines of `access.log`; open and completed sessions | append a line, parse, cache | `UsageLog`, `Dashboard` |
| Dashboard (`web/`) | the cached statistics | reads the keys and the log, sets the trigger of a test | `Dashboard` (the trigger is in `BoardHost`) |
| Old log parser, front end, administration | files | sequential | not modelled, see section 8 |

How they interact: shells and `checkboards.py` write the same board keys; a shell
marks the class with `locking` while it looks for a board, and `checkboards.py`
waits for that key to disappear before it looks at the class; `checkboards.py` and
every new shell restart the board's container, which ends older connections to it;
a shell notices that its session was given away only at its next ping; the hardware
test takes boards out of the same pools and keeps `checkboards.py` away with a flag that
has a time to live; hosts put boards into Redis and take them out, under the feet of shells
that use them, while the relay restarts their containers and may remove their boards too;
all of Redis is lost when the relay's container is recreated, and comes back only by what
runs at the hosts; a client reaches its board by two forwarded ports, of which one comes
from a counter in Redis; the dashboard puts together an answer from many reads of keys that
change, and from a log that each shell writes some time after the deed.

What is hard about it: every step of every process can fall between any two commands
of another; a shell is a child of `sshd` and dies with the user's connection between
any two commands; a slow process acts on old replies; limits are compared with clocks
read at different times.

What makes each part correct:

* **pop**: a call is one indivisible step, and no board is handed out twice;
* **allocation**: a user who was told of an exclusive lock has the board until the
  lock time is over; one board has one such user;
* **expiry and handover**: a lock is given up only when it is too old, and a user who
  has lost the board is disconnected;
* **recovery**: whatever dies wherever, a board comes back to the pools, and one run of
  `checkboards.py` that nobody interferes with is enough;
* **hardware test**: a board under test is nobody else's, and a failed board stays out;
* **registration**: a board is registered, with its true address, while it is plugged in,
  and not after that, however often the relay is restarted;
* **boards that come and go**: a board that is there comes back to its users, and nobody is
  left at one that is gone;
* **tunnels**: a client's local port leads to its own board;
* **dashboard**: what it says of a board or a user was so, and its statistics are not older
  than the question;
* **consistency of the keys**: the conditions of
  `tests/integration/test_redis_data_model.py`.

## 2. Modules

| Module | What it models |
|---|---|
| `SortedSet` | the Redis sorted set as the pools use it |
| `AtomicPool` | abstract specification of the two `allocate_..._board_of_class` functions |
| `ZPopMin` | `_zpopmin`, one Redis command per step; `Atomic!PoolSpec` is its abstraction |
| `VlabStore` | the keys of a board class and the writing functions of `vlabredis.py` |
| `Shell` | `relay/shell.py`, one Redis command per step |
| `CheckBoards` | `check_sessions` of `relay/checkboards.py`, one Redis command per step |
| `Allocator` | abstract specification of the undisturbed allocations: who has a board, and what its keys say |
| `TestBoards` | a run of `relay/testboards.py`, one Redis command per step |
| `Relay` | shells, runs of `checkboards.py` and `testboards.py`, the clock; the properties |
| `Recovery` | `Relay`, with the boards a run of `checkboards.py` has gone over |
| `BoardHost` | one board and its hosts: udev events, spooler, attach, detach, scan, restart, `register.py`, the SSH check |
| `HotPlug` | `Relay` with boards that hosts attach and detach, write by write, and may lack `server` or `port` |
| `Outage` | `BoardHost` with a relay that is recreated with an empty Redis |
| `Tunnel` | `getport`, the port counter, the two ssh connections of `vlab.py` |
| `UsageLog` | `Relay` with the lines its shells log, and the fold `web/logparser.py` makes of them |
| `Dashboard` | `UsageLog` with the dashboard's worker, one Redis command or look at the file per step |
| `MCZPopMin`, `MCRelay`, `MCRecovery`, `MCBoardHost`, `MCHotPlug`, `MCOutage`, `MCTunnel`, `MCDashboard` | constants for TLC |
| `ZPopMin_proof`, `Relay_proof`, `Lease_proof`, `Recovery_proof`, `Host_proof`, `Tunnel_proof`, `Usage_proof`, `Dashboard_proof` | proofs |

What extends what: `VlabStore` <- `Shell`, `CheckBoards`, `TestBoards` <- `Relay` <-
`Recovery`, `HotPlug` and `UsageLog` <- `Dashboard`; `BoardHost` <- `Outage`; `ZPopMin` has an
instance of `AtomicPool` and `Relay` one of `Allocator`; `Tunnel` stands alone, since the port
counter is no board's key.

A step of the model is one Redis command and the local code that runs on its reply,
the reading of the clock included. `pc[s]` names the command shell `s` issues next,
`cpc[k]` the one of checker `k`, `tpc[t]` the one of hardware test `t`; in `BoardHost`,
where a step may also be a docker command or a look at the device links, `job[h]`, `rpc[r]`
and `check`. The functions that only write are *data*: a process
that calls `end_session` gets the sequence of its writes as `script[p]`, and makes them
one by one, interleaved with everybody, before it does anything else. So a guard such
as `if user and time` is two reads followed by writes that are already decided, exactly
the window the code has.

Abstractions: the pools are sets in the relay (order and ties are in `ZPopMin`, and
`PopIsAtomic` there justifies the single step `Pop` here); one board class (classes share no
keys except the class set); texts, logs, the FPGA reset and ssh options are left out;
`conn[s]` stands for the ssh child. A test lasts any time and has any result. In `BoardHost`
the five keys of lock and session, which the scripts there only delete, are one key, and the
rest of the relay is reduced to three atomic actions (a user gets the board, a user gives it
back, a board without a session is put back); boards are independent there, so there is one.
`Outage` treats the writes of `setupusers.py` as one step, and leaves `boardrestart.py` out.
`HotPlug` leaves out hardware tests, killed shells and the clock, and takes `user`, `server` and
`port` for one key. In `UsageLog` a line is written some time after the command it tells of,
before the shell's next one; what a line says is its event, user, board and time, and the
hourly and per-user sums, which are folds of the same lines, are left out. In `Dashboard` a
behaviour has either requests for boards or requests for statistics: the two share nothing, and
the log is left out of the former. Redis and the log file are always there for it.
Docker's answer to `docker port` and `docker exec` on a container that has stopped is an
error, on which the scripts die; a container gets some port whenever it starts.

Each `.tla` file also holds a few operators marked *A slip*: plausible bugs of the definition
that follows. They are used by no specification; replacing the definition by its slip
makes the property named for it in `PROJECT.json` fail.

## 3. Runs

Times are in units of the limits: `MaxLockTime = 0` means that a lock is too old one
unit after it was taken. `MaxTime` bounds the clock and `Horizon` the time of the last
connection.

| Run | Instance | Shows |
|---|---|---|
| `zpopmin` | 2 clients, 2 boards, ties, 2 foreign writes | `AtomicSpec`, `HandedOutOnce`, `ReadStillFirst`, `CallReturns` |
| `lease` | 2 users, 1 hardware test, 1 board, limits 0, clock 0..1, users interchangeable | `LeaseKept`, `LeaseExclusive`, `LeaseUndisturbed`, `CalmInv`, `LeaseService` |
| `recovery` | 1 user killed anywhere, 1 board, 1 checker, clock 0..3 | `CalmInv`, `BoardSettled`, `LoserDisconnects`, `BoardReclaimed` |
| `handover` | 2 users, one an overlord, 1 board, lock expires at once | `LoserDisconnects` |
| `test_crash` | 2 hardware tests, one killed anywhere, both flags expire, 1 board, 1 checker, clock 0..2 | `TestKept`, `BoardReclaimed` |
| `host_restart` | 1 host, 2 ports, board plugged in twice, 1 restart | `GoneWhenQuiet`, `TrueWhenQuiet`, `ContainerKept`, `StaysRegistered` |
| `outage` | 1 host that is reloaded once, board plugged in and out, 1 SSH check, relay recreated at most once | `GoneAfterOutage`, `TrueAfterOutage`, `StaysRegistered`, `CheckRemoves` |
| `hotplug` | 1 user, 1 checker, 1 board that is attached or detached once | `LoserDisconnects`, `PluggedReclaimed`, `DetachedLeft` |
| `ports` | 3 clients, 2 on one machine, ports 3..5, 9 requests | `OwnBoard`, `PortInRange` |
| `dashboard` | 1 user killed anywhere, 1 board, clock 0..2, 3 lines of log | `UsersShown`, `BoardsShown`, `StatsCurrent`, `SessionsReported` |
| `double_lock`, `dashboard_cards` | small | the findings of section 6 |

Why the bounds are enough to be interesting: two shells and one checker are the least with
which every pair of parts races; one board makes every shell want the same one and two let
one user take both; the clock passes each limit at least once, on both sides of every
comparison. The hardware test needs two runs for the race on its running flag, and a clock
that passes the times to live of both flags. A board host has at most one event of each kind
under way and one job in the spool (`MaxJobs`), which are enough for every order of an
attach and a detach, since events overtake one another before they are spooled; two ports
tell a live from a stale one where a container is restarted (`host_restart`), and one is
enough where none is (`outage`). The `outage` run has the behaviours without an outage too.
In `ports` nine requests go round three ports three times, with every client's first request
possibly before the counter is set, and two of three clients fight for a local port. A
dashboard's request meets one shell's whole life; the user connects again while the log has
fewer than three lines, that is after a shell that was killed or lost its board, whose START
has no END: the case in which sessions could be confused. One `boardattach.py` or
`boarddetach.py` meets every point of a shell and of a run of `checkboards.py` in `hotplug`.
That is all its properties are checked for there: a board that was detached is not attached again,
no shell is killed other than by its board (killed shells are in `recovery`), and with one board a
run of `checkboards.py` that ends early passes over no other one. Moving a board from host to host is in the model but in no run
(8 million states without a temporal property); the theorems on `GoneWhenQuiet`, `TrueWhenQuiet`
and their forms after an outage are about any number of hosts and moves. Symmetry (`Swap`)
exchanges the two users together with their connections; it is used with invariants and with
`LeaseService`, whose initial and step conditions name no user.

The clock stops at `MaxTime`, and a run without a checker stops when every user has left, as
does one with the bound on connections, moves or requests used up: those configurations
switch the deadlock check off. `zpopmin` and `test_crash`, whose programs can always go on
(a checker never waits for ever as long as no shell is killed), check it.

## 4. Properties

*Undisturbed allocations.* The code does not promise a user the board against a process that
had already decided about it when the user took it (section 6 shows what then happens).
The history variable `calm` holds the shells that took a board while nobody else had a write
to it ahead or had condemned it, for as long as their claim lasts: they serve their user, are
within the lock time, have pinged in time, and no other shell of the same user is at the board.
For these, `LeaseKept` says that lock and session stay exactly as `start_session` wrote
them and the board stays out of both pools; `LeaseUndisturbed` that nobody even gets
into the position to change that; `LeaseExclusive` that no two of them are at one board.
This is what the guards with user *and* time, the order of the writes in
`start_session` and `end_session`, and the comparison with `MAX_LOCK_TIME` are for.

`LeaseService` says what this amounts to for somebody who knows neither shells nor scripts: the
relay implements `Allocator`. A lease begins with the last write of `start_session`, at a board
that has none; while it lasts the keys say whose it is and nobody writes to them; it ends before
its lock time does, and never passes straight on to the next user.

*Undisturbed tests.* In the same way `sound` holds the tests whose board was nobody's when
`hwtest:testing` was set, while the flag lasts and no other test comes to the board.
`TestKept`: no pool, lock or session gets the board back, and no `checkboards.py` looks at it
beyond the flag. That a test may outlast its flag is in the model: the flag lasts
`TestTTL`, a test any time.

*Liveness.* `LoserDisconnects`: a shell whose session was ended or replaced stops serving.
`BoardReclaimed`: a healthy board is in both pools again, or a shell has it, provided that
`locking` does not stay without a time to live. Fairness: time passes, Redis expires keys, a
running process is scheduled, cron starts `checkboards.py` again and again. No fairness is
assumed of users: nobody has to connect, disconnect or be killed, and no hardware test has
to start. The flag's time to live is what makes `BoardReclaimed` true when a test is killed,
and its proviso is needed because a shell killed between SET and EXPIRE of `locking` stops
`checkboards.py` for ever.

`BoardSettled` is the step this rests on, as a safety property. The history variable `tended` holds,
for each board, the run of `checkboards.py` that has come to its keys last and when, as long as no
other process has changed one of them. When the run has gone on and made its writes the board
is settled: in both pools, or with a session or lock that was complete and within its limit when the
run came to it (or it has failed its test and stays out). So it does not matter which of their keys
killed shells and tests had left there, and one run is enough; but it must read all three keys of
a session, both of a lock, and delete them all.

*Hosts.* `StaysRegistered`: a board that stays plugged in ends up registered with its true
host and port, and in the pools or with a user. `GoneWhenQuiet`: a board that was pulled out
has left nothing once nothing is under way, if no host was reloaded (`boardserver-load.sh`
removes every container and leaves its registration to the SSH check). `TrueWhenQuiet`: nor is
what is left there wrong: the relay looks for the board at the host it is plugged in at, and at the
port its container has there, whichever hosts and ports it had before. `ContainerKept`:
several attach events never cost a running container. All four are stated for behaviours in
which no `boardrestart.py` *clashes* (history variable `clash`): overlaps with a job of the
spooler at the same container, with another restart, or with the board being pulled out. TLC
shows that they fail otherwise: a restart and an attach that read the port before it changes
again leave a dead port in the container's cron job, and a detach that finds the container
between the stop and the start of a restart is ignored. `CheckRemoves`: a triggered SSH
check removes an unreachable board that has its `server` and `port` (one without, left by a
`register.py` that died between its writes, ends every run of `checkboards.py`). Fairness:
udev, `at`, the spooler, cron and every started script go on; nobody need plug a board,
restart a container or press the dashboard's button. Every minute's cron jobs are weakly
fair; the trigger's own time to live (300 s) is left out because a run of `checkboards.py`
comes every minute.

*The relay is restarted.* `docker-compose up --force-recreate` (README.md:112) gives the relay an
empty Redis, at any moment of what goes on at the hosts. A script that finds no Redis, or not
the board in it, gives up, whatever it has done so far. `StaysRegistered` and `CheckRemoves`
hold all the same (fairness in addition: a relay that goes down comes up), because the cron job
of a running container registers the board again. `GoneAfterOutage` is `GoneWhenQuiet` with a
proviso: if a `boardattach.py` or `register.py` had asked Redis for the board when the relay
went down (history variable `torn`), it may write to the new Redis after a `boarddetach.py` that
came too early to find the board there. `TrueAfterOutage` is `TrueWhenQuiet` with the same proviso.

*Boards that come and go.* In `HotPlug` the class is a set each program reads before it goes through
it, `server` and `port` may be missing, and the writes of an attach or a detach fall between any
two commands of a shell or of `checkboards.py`. `PluggedReclaimed`: a board that stays in the class,
attached for the first time or anew under a shell, is again and again in both pools or with a shell;
the order of the writes in `boardattach.py` (into the pools before the details are written and the
old lock and session deleted), a shell that dies because its board has no details yet, and a run of
`checkboards.py` that stops at such a board do not change that. Since the clock stands still here,
the proviso on `locking` also excludes users who connect again and again for ever.
`DetachedLeft`: no shell stays for ever at a board that has left the class. `LoserDisconnects` holds
here too: a board that is attached anew loses its session, and the shell notices.
That the pools contain only boards of the class is *not* true: a late `unlock_board` or
`end_session` puts a detached board back, and the next user who is given it is turned away.

*Tunnels.* A client looks whether its local port is free, is given a port on the relay, and binds
the local one much later; the relay's port comes from a counter that is incremented, compared
and set back in separate steps; a taken local port ends the client, a taken port on the relay
does not: its client would silently get the other one's board. `OwnBoard` says that this does not
happen, unless (history variable `spoilt`) two shells set the counter back at the same time, a
client keeps its port for a whole round of 5000, or 30000 ports are asked for while the relay
starts; a client that asked before the counter was set has a privileged port and no tunnel.
`PortInRange`: once the counter was set every port given out is one of the range.

*Dashboard.* `UsersShown`: the history variable `kept` holds the shells with an undisturbed
allocation (`calm`) since the request; whatever else goes on, each is shown with its board, user and
start. `BoardsShown`: `steady` holds the boards of which no key the dashboard reads has changed; a
free one is shown as available, a failed one as failed, and the count of failed boards is right
when all are steady. `StatsCurrent`: an answer tells of every line that was in the log when it was
asked for, although the size is read before the file and the file grows between the two.
`SessionsReported`: `ended` records each session with its start and end as its shell told of them;
`logparser.py` finds exactly these, whatever lines of killed shells are missing, as long as
no user has two connections to the class.

*Pop.* `AtomicSpec` is refinement of `AtomicPool`; `CallReturns` needs only that a client
that runs goes on running, since a failed EXEC means that somebody else wrote the set.

## 5. Proofs

Every theorem holds for arbitrary constants under the named assumptions of the modules
(`StoreAssumption`, `ShellAssumption`, `CheckAssumption`, `TestAssumption`, `RelayAssumption`,
`SortedSetAssumption`, `ZPopMinAssumption`, `HostAssumption`, `OutageAssumption`, `PlugAssumption`,
`PortAssumption`, `LogAssumption`): `Nil` is no user, board, number or mark, every shell
has a user, shells, checkers and tests are different processes, numbers that bound something
are natural numbers. The bounds (`MaxTime`, `MaxMoves`, `MaxLog` and so on) are constants too, so a
theorem is about every bound.

* `ZPopMin_proof`: `TypeOK`, and with it `ReadStillFirst` (what ZRANGE answered is still the
  head unless the connection is marked) are inductive; `Commit` is then `Take` of
  `AtomicPool` and every other command stutters or is a call or an abandoned one:
  `PopIsAtomic`. `NeverHandedOutTwice` follows from the same invariant.
* `Relay_proof`: the writes of each function of `vlabredis.py` and the effect of one write;
  `TypeCorrect`, one lemma per group of actions.
* `Lease_proof`: `CalmInv` is inductive. `LeaseKept` alone is not: while a shell is still
  writing its session the keys are half written, so the invariant says of every write of
  `start_session` that it is still in the script or has had its effect (`HalfWritten`); and
  a process that is about to write must be excluded before it writes (`Disturbed`). The step
  is shown from four descriptions of what a step can do, each proved action by action:
  `ShellForms` and `CheckForms` for what others do, `OwnForms` for the shell itself,
  `ExecEffect` for one write. A foreign shell can only write to a board it holds by user
  (then it shares the board, or the user is another one and the keys say so) or that it
  popped (but it is in no pool); a checker only after it saw a key missing (none is) or a
  time too old (none is); a hardware test only after it found neither session nor lock (both
  are there).
  `RelayLeasesBoards`: the relay refines `Allocator`. The lease of a board is the calm shell whose
  `start_session` is through; that there is at most one is `LeaseExclusive`. A step that
  leaves a shell calm leaves its keys as they are (`EntryKept`, from `LeaseUndisturbed`: a write is
  somebody's, and nobody has one ahead); one that makes a lease is the last write of
  `start_session`, at a board that had none (`LeaseBegins`), and it is not too old since no shell
  has started in the future (`StartedInv`).
  `TestIsKept`: the invariant adds to `TestKept` what the test itself has
  ahead of it: nothing while it is programming the board. A shell cannot come to the board,
  since both pools and both user keys are empty and it holds no earlier reply about it
  (`Alone`), and `checkboards.py` stops at the flag.
* `Recovery_proof`: `BoardsAreSettled`. `TendInv` says of a run that is at a board what it has seen of
  it so far (`Seen`: the keys it found are there still, the ones it missed are why `cmissing` is set),
  and of one that has gone on that it has freed the board or need not (`Left`). The writes it owes
  are a set of which each is ahead of it or has had its effect (`Due`), because `unlock_board` is
  still to be made when the loop has gone on to the next board. `OtherChecker` and
  `StaysAway` keep other runs and other boards out, `GoodLook` has a step per command.
  In the same module `HotTypeCorrect`: the scripts of the hosts write only what the relay's programs
  can read.
* `Host_proof`: `HostTypeCorrect`, `RunningContainerKept` and `PulledOutIsGone`, for any
  number of hosts, ports, restarts and moves of the board. The last one is the consequence
  of two facts of the invariant: a running container that has lost a device has a detach
  event coming, fired, spooled or being served (`LeaveInv`); and each of the keys `member`,
  `server` and `port` that is set has, at some host, a running container, one that is just
  being restarted, or a worker that is still to delete the key (`ListInv`). When nothing is
  under way only the running container is left, and without devices there is none. They need
  in turn that whoever is going to write a key has a running container (`WorkInv`,
  `RestInv`), and these hold because, as long as there is no `clash`, a restart has the host
  for itself (`Clashes => clash` is an invariant too). `RunningContainerKept` rests on
  `KeptInv`: after `boardattach.py` has seen that no container runs, only a restart could
  start one.
  `RegisteredWhereItIs` needs where every address comes from (`TrueInv`): what is about to be written
  to `server` or `port` is the writer's host and the port docker has mapped there (`NameInv`,
  `WireInv`, `MoveInv`), and what is there already is of a host that has its container, or is about
  to be deleted (`HomeInv`, `PortInv`).
  `PulledOutIsGoneAfterOutage` and `RegisteredWhereItIsAfterOutage` reuse both invariants. As long as
  nothing is torn, Redis knows nothing of the board while the relay is down or being set up, and nobody
  is about to tell it (`Forgotten`), so that what `ListInv`, `HomeInv` and `PortInv` ask of the keys
  that are set still holds when the relay comes up.
* `Tunnel_proof`: `ClientReachesOwnBoard` for any number of clients, machines and ports. `OwnBoard`
  is not inductive: why nobody else has a client's port on the relay is a fact about the counter. As
  long as nothing is spoilt, a port of the range tells how many were given out since (`Aged`: the
  counter minus the port, plus a round if it was given out before the counter was set back), so two
  clients with the same port would have the same age, and each gift makes everyone else older by one
  (`Apart`). A client that waits to set the counter back has the counter over the end (`Ring`); one
  that asked before the counter was set has a port below the range. Beside it `Locals` (a local port
  is taken once) and `Bound` (whoever connected with a port that may be forwarded has it).
  `PortsStayInRange` needs only `Started`: once set, the counter never falls below the range, late
  writes of it included.
* `Usage_proof`: `SessionsAreReported`. The parser is a fold over the log, written as a recursive
  function; that it has a value for every log and takes one more line at a time (`ParseSteps`,
  `ParseMore`) is shown by the well-founded order of the lengths, on a set of lengths, since
  the induction theorems with an operator parameter are out of reach. `ReportInv` says that the parser has found
  the sessions there were, and of every shell that is in session that the session the parser has
  open for its user is this one (`ShellLogged`), since the START of a new session replaces what a
  killed shell has left open.
* `Dashboard_proof`: every step of the composition is a step of the relay or leaves it alone
  (`DashSteps`): that is `DashboardIsRelay`, by which `TypeOK`, `CalmInv`, `LeaseService` and the rest
  hold in it too. What `UsersShown` says of many reads
  can be put together: an undisturbed session's keys do not change (`SessionStays`), so the
  reads of its board made so far agree with it (`Halfway`), the boards that are done are shown right
  (`Shown`), and the others are still to come (`Progress`): that is `KeptInv`. `BoardsAreShown` goes the
  same way for boards whose keys have not changed, and for the set of failed ones counted so far
  (`SteadyInv`). `StatsAreCurrent` rests
  on `CacheInv` (what was parsed is at least what was looked at) and on a log that only grows;
  `StatsAreTrue` on `ReportInv`.

Every invariant, every refinement and every action property that a passing run checks is proved.
Only model-checked are the findings of section 6, which are counterexamples, and the
liveness properties, since fairness is beyond the prover: `LoserDisconnects`, `BoardReclaimed`,
`PluggedReclaimed` and `DetachedLeft` of the relay, `StaysRegistered` and `CheckRemoves` of the hosts,
`CallReturns` of the pop. `BoardSettled` is the part of `BoardReclaimed` that needs no fairness.

## 6. Where the code and its documents disagree

1. `double_lock`: two users are both told that they hold the exclusive lock of one board. A popped
   board stays in the other pool until `lock_board` removes it.
2. `dashboard_cards`: the cards of the dashboard count a board that is available, and therefore in
   both pools, as *in use and unlocked* when another one is in use: with one board free and
   one in a locked session the card "In Use (Locked)" shows 0, and the table of the same answer one
   board as "In Use (Locked)". `LockedCounted` asks only that the card is not lower than the number of
   undisturbed users the table shows, at a moment when nothing happens. The state is the one of
   `tests/conftest.py:107-108`; `test_web_redis_queries.py:24-28` has its `in_use_locked`, and no
   test looks at the count. The clamp of `redis_queries.py:118-120` only avoids negatives.

Smaller ones, of which no run is kept (see also the notes of the hazards in `PROJECT.json`):

* a user who reconnects while the old shell is ending its session ends up in session on a board
  that is *available*, which anybody may be given, against `test_redis_data_model.py:43-50`;
* a board that a shell has popped but not locked yet is idle for the hardware test, is tested under
  its user, and when it fails the end of the session puts it back, against `testboards.py:5-6`;
* `check_ssh_to_boards` runs only when a hardware test was asked for, so a board whose detach event
  was ignored stays registered, against README.md:244;
* a `session:pingtime` written after `checkboards.py` has freed the board stays alone on it;
* two shells of one user lock two boards of a class, against `logparse.py:69`;
* two hardware tests started together both find no other one;
* a shell killed between SET and EXPIRE of `locking` stops `checkboards.py` for ever, against
  `checkboards.py:14-15`;
* a shell that gives back a board while it is detached leaves it in the pools without being in
  the class: the dashboard's `in_use` becomes negative, against "Clamp to avoid negatives"
  (`redis_queries.py:118-119`), and a user who is given the board is turned away;
* a failed board that was withdrawn is in no pool, so the cards count it as in use, and
  as failed as well, while the table has it as failed only;
* a board that failed its hardware test and is plugged in again is in both pools, against
  `testboards.py:5-6`;
* two clients that set the port counter back together get the same port, against "a free ephemeral
  port" (`shell.py:35`), and the counter is above 35000 in between, against
  `test_redis_connection.py:19-24`;
* statistics are cached until the log grows, `denials_today` of yesterday included, and so are the
  empty ones of a read that failed (`logparser.py:62-71, 171`);
* two connections of one user to a class share an entry of `open_sessions`: the end of the first
  is reported as the end of the second.

## 7. Plan

Done since the first plan: hosts against shells (`HotPlug`), the port counter (`Tunnel`), the dashboard
(`UsageLog`, `Dashboard`), restarts of the relay (`Outage`), the abstract lease service
(`Allocator`), what a run of `checkboards.py` achieves (`Recovery`), and a proof of every safety
property. Left, in this order:

1. `BoardSettled` for boards that come and go (`HotPlug`), where a run may also end early and a board
   that was detached be attached again: with a liveness property this is too large for a run.
2. `HotPlug` with hardware tests and the clock, and the leases of `Allocator` beside it.
3. The remaining steps towards `BoardReclaimed` and `StaysRegistered` as safety theorems: which
   processes may still stand between a settled board and its next user.

## 8. Not modelled

`vlabconfig.py` and the account part of `setupusers.py` (one sequential pass at start), the old
`relay/logparse.py` (superseded by `web/logparser.py`, whose head says that it is broken; nothing calls
it), the dashboard's front end, `manage.py` and `scripts/` (files and docker), `fakefail.py` (a manual
tool), the FPGA's state and its reset, container images, firmware, FPGA scripts. Of the dashboard:
its answers without Redis or without a log, and the flags `hwtest_running` and
`hwtest_trigger` of the answer.
