---- MODULE Allocator ----
(***************************************************************************)
(* What a user who is not caught in a race relies on: a board is leased to *)
(* one of them at a time.  From the step in which start_session is through *)
(* until the lease is over, the lock and the session of the board say      *)
(* whose it is and since when, no pool has it, and nobody writes to them;  *)
(* the lease is over before the lock time is; and no board passes from one *)
(* lease to the next without having been free in between.  This module     *)
(* says nothing of shells, scripts or runs of other programs.              *)
(***************************************************************************)
EXTENDS Naturals

CONSTANTS Boards, Users,
          Limit,         \* how long a lease may last
          Nil            \* the value of a key that is not there

VARIABLES holder,   \* holder[b]: the lease of board b, as a set of at most one
          entry,    \* entry[b]: what the keys say of b: lock, session and pools
          clock

leaseVars == <<holder, entry, clock>>

\* A user, and when the board was found.
Lease == Users \X Nat

\* The keys of a board with lease l, and of one nobody has ever used.
Signed(l) == [lock |-> l, session |-> l, pools |-> {}]
Unused(P) == [lock |-> <<Nil, Nil>>, session |-> <<Nil, Nil>>, pools |-> P]

\* The lease is no older than it may be.
Valid(l) == l[2] =< clock /\ clock =< l[2] + Limit

Free(b) == holder[b] = {}

-----------------------------------------------------------------------------
LeaseInit == /\ holder = [b \in Boards |-> {}]
             /\ entry \in [Boards -> {Unused(P) : P \in {{}, {"available", "unlocked"}}}]
             /\ clock = 0

\* The last write of start_session.
Grant(b) == /\ Free(b)
            /\ \E l \in holder'[b] : /\ l \in Lease
                                     /\ holder'[b] = {l}
                                     /\ entry'[b] = Signed(l)
                                     /\ Valid(l)'

Keep(b) == /\ ~Free(b)
           /\ holder'[b] = holder[b]
           /\ entry'[b] = entry[b]
           /\ \A l \in holder[b] : Valid(l)'

\* The lease is over, by whatever reason.  What the keys say is for others to
\* clear up, later.
Lapse(b) == /\ ~Free(b)
            /\ Free(b)'
            /\ entry'[b] = entry[b]

\* The keys of a board without a lease are anybody's.
Unleased(b) == Free(b) /\ Free(b)'

LeaseNext == /\ clock' \in {clock, clock + 1}
             /\ \A b \in Boards : Grant(b) \/ Keep(b) \/ Lapse(b) \/ Unleased(b)

LeaseSpec == LeaseInit /\ [][LeaseNext]_leaseVars
====
