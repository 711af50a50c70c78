---- MODULE Tunnel_proof ----
(***************************************************************************)
(* The ports of the relay go round: as long as nothing spoils that, a port *)
(* says how many were given out since, and no two clients have the same.   *)
(***************************************************************************)
EXTENDS Tunnel, TLAPS

Round == Last - First + 1

\* The port that was given out last, once the counter was set.
Newest == IF Value > Last THEN Last ELSE Value

\* A client with a port of the range; one that asked before the counter was set.
InRing(c) == Holds(c) /\ port[c] >= First
Early(c)  == Holds(c) /\ port[c] < First

Started == ready => counter # Nil /\ Value >= First

\* No two clients of one machine have the same local port.
Locals == \A c, d \in Clients : c # d /\ Local[c] = Local[d] => ~Joined(c) \/ ~Joined(d)

Noted == Spoils => spoilt

\* A port tells its age, or that of the round before.
Aged(c) == /\ ready
           /\ port[c] =< Last
           /\ port[c] =< Newest => since[c] = Newest - port[c]
           /\ port[c] > Newest => since[c] = Newest - port[c] + Round

Apart(c, d) == /\ InRing(c) /\ InRing(d) => since[c] # since[d]
               /\ Early(c) /\ Early(d) => port[c] # port[d]

Ring == /\ \A c \in Clients : pc[c] = "wrap" => Value > Last
        /\ \A c \in Clients : ~ready /\ Holds(c) => port[c] =< Value
        /\ \A c \in Clients : InRing(c) => Aged(c)
        /\ \A c \in Clients : \A d \in Clients \ {c} : Apart(c, d)

Bound == \A c \in Clients : pc[c] = "open" /\ port[c] >= Unprivileged => bound[c]

IInv == /\ TypeOK /\ Started /\ Locals /\ Noted
        /\ ~spoilt => Ring /\ Bound

-----------------------------------------------------------------------------
LEMMA ValueNat == ASSUME counter \in Nat \cup {Nil} PROVE Value \in Nat
BY DEF Value

\* What a step of c leaves of the other clients, and what it makes of c.
LEMMA Moves ==
    ASSUME TypeOK, NEW c \in Clients, NEW l, Goto(c, l)
    PROVE  /\ pc'[c] = l
           /\ \A d \in Clients \ {c} : pc'[d] = pc[d]
BY DEF Goto, TypeOK

LEMMA Drops ==
    ASSUME TypeOK, NEW c \in Clients, Drop(c)
    PROVE  /\ ~Holds(c)' /\ ~Joined(c)' /\ pc'[c] = "idle" /\ ~bound'[c]
           /\ \A d \in Clients \ {c} :
                 /\ pc'[d] = pc[d] /\ port'[d] = port[d]
                 /\ bound'[d] = bound[d] /\ since'[d] = since[d]
           /\ UNCHANGED <<ready, counter>>
BY Moves DEF Drop, TypeOK, Holds, Joined

LEMMA Gives ==
    ASSUME TypeOK, NEW c \in Clients, NEW p, Given(c, p)
    PROVE  /\ Holds(c)' /\ ~Joined(c)' /\ pc'[c] = "told"
           /\ port'[c] = p /\ since'[c] = 0
           /\ \A d \in Clients \ {c} :
                 /\ pc'[d] = pc[d] /\ port'[d] = port[d]
                 /\ Holds(d) => since'[d] = since[d] + 1
           /\ UNCHANGED <<ready, bound>>
BY Moves DEF Given, TypeOK, Holds, Joined

\* The steps of one client.
ClientStep(c) == Ask(c) \/ Incr(c) \/ Wrap(c) \/ Leave(c) \/ Join(c) \/ Forward(c)

LEMMA NextSteps ==
    ASSUME Next PROVE Observe /\ (SetPort \/ \E c \in Clients : ClientStep(c))
BY DEF Next, ClientStep

LEMMA TypeStep ==
    ASSUME TypeOK, [Next]_vars
    PROVE  TypeOK'
<1>1. CASE UNCHANGED vars
  BY <1>1 DEF TypeOK, vars, Holds
<1>2. ASSUME Observe PROVE spoilt' \in BOOLEAN
  BY <1>2 DEF Observe
<1>3. CASE SetPort /\ Observe
  BY <1>2, <1>3, PortAssumption DEF SetPort, TypeOK, Holds
<1>4. ASSUME NEW c \in Clients, Ask(c), Observe PROVE TypeOK'
  <2>1. asks' \in 0..MaxAsks
    BY <1>4, PortAssumption DEF Ask, TypeOK
  <2> QED
    BY <1>2, <1>4, <2>1 DEF Ask, Goto, TypeOK, Holds
<1>5. ASSUME NEW c \in Clients, NEW p \in Nat, Given(c, p), pc[c] \in {"ask", "wrap"},
             counter' \in Nat, Observe
      PROVE  TypeOK'
  <2>1. since' \in [Clients -> Nat]
    BY <1>5 DEF Given, TypeOK
  <2>2. p # Nil
    BY PortAssumption
  <2> QED
    BY <1>2, <1>5, <2>1, <2>2 DEF Given, Goto, TypeOK, Holds
<1>6. ASSUME NEW c \in Clients, Incr(c), Observe PROVE TypeOK'
  <2>1. counter' \in Nat /\ Value + 1 \in Nat /\ pc[c] = "ask"
    BY <1>6, ValueNat DEF Incr, TypeOK
  <2>2. CASE Given(c, Value + 1)
    BY <1>5, <1>6, <2>1, <2>2
  <2>3. CASE Goto(c, "wrap") /\ UNCHANGED <<ready, port, bound, asks, since>>
    BY <1>2, <1>6, <2>1, <2>3 DEF Goto, TypeOK, Holds
  <2> QED
    BY <1>6, <2>2, <2>3 DEF Incr
<1>7. ASSUME NEW c \in Clients, Wrap(c), Observe PROVE TypeOK'
  BY <1>5, <1>7, PortAssumption DEF Wrap
<1>8. ASSUME NEW c \in Clients, Drop(c), Observe PROVE TypeOK'
  BY <1>2, <1>8 DEF Drop, Goto, TypeOK, Holds
<1>9. ASSUME NEW c \in Clients, Join(c) \/ Forward(c), Observe PROVE TypeOK'
  BY <1>2, <1>8, <1>9 DEF Join, Forward, Goto, TypeOK, Holds
<1> QED
  BY <1>1, <1>3, <1>4, <1>6, <1>7, <1>8, <1>9, NextSteps DEF ClientStep, Leave

LEMMA StartedStep ==
    ASSUME TypeOK, Started, Next
    PROVE  Started'
<1>1. CASE SetPort
  BY <1>1, PortAssumption DEF SetPort, Started, Value
<1>2. ASSUME NEW c \in Clients, Incr(c) PROVE Started'
  <2>1. counter' = Value + 1 /\ Value \in Nat
    BY <1>2, ValueNat DEF Incr, TypeOK
  <2>2. counter' # Nil /\ Value' = Value + 1
    BY <2>1, PortAssumption DEF Value
  <2>3. ready' = ready
    BY <1>2 DEF Incr, Given
  <2> QED
    BY <2>1, <2>2, <2>3, PortAssumption DEF Started
<1>3. ASSUME NEW c \in Clients, Wrap(c) PROVE Started'
  BY <1>3, PortAssumption DEF Wrap, Given, Started, Value
<1>4. ASSUME UNCHANGED <<ready, counter>> PROVE Started'
  BY <1>4 DEF Started, Value
<1>5. ASSUME NEW c \in Clients, Ask(c) \/ Leave(c) \/ Join(c) \/ Forward(c)
      PROVE  UNCHANGED <<ready, counter>>
  BY <1>5 DEF Ask, Leave, Join, Forward, Drop
<1> QED
  BY <1>1, <1>2, <1>3, <1>4, <1>5, NextSteps DEF ClientStep

\* Only Join lets a client have its local port.
LEMMA LocalsStep ==
    ASSUME TypeOK, Locals, Next
    PROVE  Locals'
<1>1. ASSUME \A d \in Clients : Joined(d)' => Joined(d) PROVE Locals'
  BY <1>1 DEF Locals
<1>2. CASE SetPort
  BY <1>1, <1>2 DEF SetPort, Joined
<1>3. ASSUME NEW c \in Clients, Ask(c) \/ Incr(c) \/ Wrap(c) \/ Leave(c) \/ Forward(c)
      PROVE  Locals'
  <2>1. \A d \in Clients : Joined(d)' => Joined(d)
    BY <1>3 DEF Ask, Incr, Wrap, Leave, Forward, Given, Drop, Goto, Joined, TypeOK
  <2> QED
    BY <1>1, <2>1
<1>4. ASSUME NEW c \in Clients, Join(c) PROVE Locals'
  <2>1. CASE LocalFree(c) /\ Goto(c, "joined")
    <3>1. \A d \in Clients \ {c} : Joined(d)' => Joined(d)
      BY <2>1, Moves DEF Joined
    <3>2. \A d \in Clients \ {c} : Local[d] = Local[c] => ~Joined(d)'
      BY <2>1, <3>1 DEF LocalFree
    <3> QED
      BY <3>1, <3>2 DEF Locals
  <2>2. CASE Drop(c)
    BY <1>1, <2>2, Drops DEF Joined
  <2> QED
    BY <1>4, <2>1, <2>2 DEF Join
<1> QED
  BY <1>2, <1>3, <1>4, NextSteps DEF ClientStep

LEMMA NotedStep == ASSUME Noted, Observe PROVE Noted'
BY DEF Noted, Observe

-----------------------------------------------------------------------------
(* The ring, as long as nothing spoils it *)

\* What holds before and after a step that is not spoilt.
Sane == /\ TypeOK /\ Started /\ Locals /\ Ring /\ Bound
        /\ ~Spoils /\ ~Spoils'
        /\ TypeOK' /\ Started'

\* A step that gives out no port and leaves the counter alone.
LEMMA RingKept ==
    ASSUME Sane,
           UNCHANGED <<ready, counter>>,
           \A d \in Clients : pc'[d] = "wrap" => pc[d] = "wrap",
           \A d \in Clients : Holds(d)' => Holds(d) /\ port'[d] = port[d] /\ since'[d] = since[d]
    PROVE  Ring'
<1>1. Value' = Value /\ Newest' = Newest
  BY DEF Newest, Value
<1>2. ASSUME NEW c \in Clients, InRing(c)' PROVE Aged(c)'
  <2>1. InRing(c) /\ port'[c] = port[c] /\ since'[c] = since[c]
    BY <1>2 DEF InRing
  <2> QED
    BY <1>1, <2>1 DEF Sane, Ring, Aged
<1>3. ASSUME NEW c \in Clients, NEW d \in Clients \ {c} PROVE Apart(c, d)'
  BY <1>3 DEF Sane, Ring, Apart, InRing, Early
<1> QED
  BY <1>1, <1>2, <1>3 DEF Sane, Ring

\* Before the counter is set, all ports are below the range.
LEMMA RingSet ==
    ASSUME Sane, SetPort
    PROVE  Ring'
<1>1. \A c \in Clients : pc[c] # "wrap"
  <2>1. ~ready /\ Value < First
    BY ValueNat, PortAssumption DEF Sane, SetPort, Spoils, Flooded, TypeOK
  <2> QED
    BY <2>1, ValueNat, PortAssumption DEF Sane, Ring, TypeOK
<1>2. \A c \in Clients : ~InRing(c)
  <2>1. ~ready /\ Value < First
    BY ValueNat, PortAssumption DEF Sane, SetPort, Spoils, Flooded, TypeOK
  <2>2. ASSUME NEW c \in Clients, InRing(c) PROVE FALSE
    <3>1. port[c] =< Value /\ port[c] >= First /\ port[c] \in Nat
      BY <2>1, <2>2, PortAssumption DEF InRing, Sane, Ring, TypeOK
    <3> QED
      BY <2>1, <3>1, ValueNat, PortAssumption DEF Sane, TypeOK
  <2> QED
    BY <2>2
<1>3. \A c \in Clients : ~InRing(c)' /\ (Early(c)' => Early(c))
  BY <1>2 DEF SetPort, InRing, Early, Holds
<1>4. \A c \in Clients : \A d \in Clients \ {c} : Apart(c, d)'
  BY <1>3 DEF Sane, Ring, Apart, SetPort
<1> QED
  BY <1>1, <1>3, <1>4 DEF SetPort, Ring

\* A port is given out: p is the newest one of the next state.
LEMMA RingGiven ==
    ASSUME Sane, NEW c \in Clients, NEW p \in Nat, Given(c, p),
           pc[c] \in {"ask", "wrap"},
           ready => /\ p \in First..Last /\ Newest' = p
                    /\ IF Newest = Last THEN p = First ELSE p = Newest + 1,
           ~ready => p = Value + 1 /\ Value' = p,
           \A d \in Clients \ {c} : pc[d] # "wrap"
    PROVE  Ring'
<1>1. \A d \in Clients \ {c} :
         /\ Holds(d)' <=> Holds(d)
         /\ port'[d] = port[d]
         /\ Holds(d) => since'[d] = since[d] + 1
  BY Gives DEF Sane, Holds
<1>2. /\ Holds(c)' /\ port'[c] = p /\ since'[c] = 0 /\ ready' = ready
      /\ \A d \in Clients : pc'[d] # "wrap"
  BY Gives DEF Sane
<1>3. ~ready => p < First
  BY <1>2, ValueNat, PortAssumption DEF Sane, Spoils, Flooded, TypeOK
<1>4. ASSUME NEW d \in Clients, ~ready, Holds(d)' PROVE port'[d] =< Value'
  <2>1. CASE d = c
    BY <1>2, <1>4, <2>1
  <2>2. CASE d # c
    <3>1. port[d] =< Value /\ port[d] \in Nat /\ Value \in Nat
      BY <1>1, <1>4, <2>2, ValueNat, PortAssumption DEF Sane, Ring, TypeOK
    <3> QED
      BY <1>1, <1>4, <2>2, <3>1
  <2> QED
    BY <2>1, <2>2
<1>5. ASSUME NEW d \in Clients, InRing(d)' PROVE Aged(d)'
  <2>1. CASE d = c
    BY <1>2, <1>3, <1>5, <2>1, PortAssumption DEF InRing, Aged
  <2>2. CASE d # c
    <3>1. /\ InRing(d) /\ Aged(d) /\ ready
          /\ port'[d] = port[d] /\ since'[d] = since[d] + 1
      BY <1>1, <1>5, <2>2 DEF Sane, Ring, InRing, Aged
    <3>2. port[d] \in Nat /\ since[d] \in Nat /\ port[d] >= First
      BY <3>1 DEF InRing, Holds, Sane, TypeOK
    <3>3. since'[d] =< Last - First
      BY <1>5, <3>1, PortAssumption DEF InRing, Sane, Spoils, Lapped, TypeOK
    <3>4. Newest \in Nat /\ Newest =< Last /\ Newest >= First
      BY <3>1, ValueNat, PortAssumption DEF Newest, Sane, Started, TypeOK
    <3> QED
      BY <1>2, <3>1, <3>2, <3>3, <3>4, PortAssumption DEF Aged, Round
  <2> QED
    BY <2>1, <2>2
<1>6. ASSUME NEW d \in Clients, NEW e \in Clients \ {d} PROVE Apart(d, e)'
  <2>1. CASE d # c /\ e # c
    <3>1. Apart(d, e)
      BY DEF Sane, Ring
    <3> QED
      BY <1>1, <2>1, <3>1 DEF Apart, InRing, Early, Sane, TypeOK
  <2>2. ASSUME NEW f \in Clients \ {c}, Holds(f)
        PROVE  since'[f] # 0 /\ (~ready => port'[f] # p)
               /\ (port'[f] < First /\ p < First => ~ready)
    <3>1. since'[f] = since[f] + 1 /\ since[f] \in Nat
      BY <1>1, <2>2 DEF Sane, TypeOK
    <3>2. ~ready => port'[f] =< Value
      BY <1>1, <2>2 DEF Sane, Ring
    <3>3. port'[f] \in Nat
      BY <1>1, <2>2 DEF Sane, TypeOK, Holds
    <3> QED
      BY <3>1, <3>2, <3>3, ValueNat, PortAssumption DEF Sane, TypeOK
  <2>3. CASE d = c \/ e = c
    BY <1>1, <1>2, <2>2, <2>3 DEF Apart, InRing, Early
  <2> QED
    BY <2>1, <2>3
<1> QED
  BY <1>2, <1>4, <1>5, <1>6 DEF Ring

LEMMA RingIncr ==
    ASSUME Sane, NEW c \in Clients, Incr(c)
    PROVE  Ring'
<1>1. Value \in Nat /\ counter' = Value + 1 /\ pc[c] = "ask" /\ TypeOK
  BY ValueNat DEF Sane, TypeOK, Incr
<1>2. Value' = Value + 1
  BY <1>1, PortAssumption DEF Value
<1>3. CASE ~Over(Value + 1) /\ Given(c, Value + 1)
  <2>1. Value + 1 =< Last
    BY <1>1, <1>3, PortAssumption DEF Over
  <2>2. \A d \in Clients : pc[d] # "wrap"
    BY <1>1, <2>1, PortAssumption DEF Sane, Ring
  <2>3. Newest = Value /\ Newest' = Value + 1
    BY <1>1, <1>2, <2>1, PortAssumption DEF Newest
  <2>4. ready => Value >= First
    BY DEF Sane, Started
  <2> QED
    BY <1>1, <1>2, <1>3, <2>1, <2>2, <2>3, <2>4, RingGiven, PortAssumption
<1>4. CASE Over(Value + 1) /\ Goto(c, "wrap") /\ UNCHANGED <<ready, port, bound, asks, since>>
  <2>1. Value + 1 > Last
    BY <1>4 DEF Over
  <2>2. Newest' = Newest
    BY <1>1, <1>2, <2>1, PortAssumption DEF Newest
  <2>3. \A d \in Clients : Holds(d)' <=> Holds(d)
    BY <1>1, <1>4, Moves DEF Holds
  <2>4. ASSUME NEW d \in Clients, ~ready, Holds(d) PROVE port[d] =< Value + 1
    BY <1>1, <2>4 DEF Sane, Ring, TypeOK, Holds
  <2>5. ASSUME NEW d \in Clients, InRing(d) PROVE Aged(d)'
    BY <1>4, <2>2, <2>5 DEF Sane, Ring, Aged
  <2>6. \A d \in Clients : \A e \in Clients \ {d} : Apart(d, e)'
    BY <1>4, <2>3 DEF Sane, Ring, Apart, InRing, Early
  <2> QED
    BY <1>1, <1>2, <1>4, <2>1, <2>2, <2>3, <2>4, <2>5, <2>6 DEF Ring, InRing
<1> QED
  BY <1>3, <1>4 DEF Incr

LEMMA RingWrap ==
    ASSUME Sane, NEW c \in Clients, Wrap(c)
    PROVE  Ring'
<1>1. Value \in Nat /\ Value > Last /\ pc[c] = "wrap" /\ Given(c, First)
  BY ValueNat DEF Sane, TypeOK, Wrap, Ring
<1>2. ready
  BY <1>1, PortAssumption DEF Sane, Spoils, Flooded
<1>3. Newest = Last /\ Newest' = First
  BY <1>1, PortAssumption DEF Wrap, Newest, Value
<1>4. \A d \in Clients \ {c} : pc[d] # "wrap"
  BY <1>1 DEF Sane, Spoils, Together
<1> QED
  BY <1>1, <1>2, <1>3, <1>4, RingGiven, PortAssumption

LEMMA RingStep ==
    ASSUME Sane, Next
    PROVE  Ring'
<1>1. ASSUME NEW c \in Clients, Drop(c) PROVE Ring'
  <2>1. /\ UNCHANGED <<ready, counter>>
        /\ \A d \in Clients : pc'[d] = "wrap" => pc[d] = "wrap"
        /\ \A d \in Clients : Holds(d)' => Holds(d) /\ port'[d] = port[d] /\ since'[d] = since[d]
    BY <1>1, Drops DEF Sane, Holds
  <2> QED
    BY <2>1, RingKept
<1>2. ASSUME NEW c \in Clients, NEW l \in {"ask", "joined", "open"}, Goto(c, l),
             l # "ask" => Holds(c), UNCHANGED <<ready, counter, port, since>>
      PROVE  Ring'
  <2>1. /\ \A d \in Clients : pc'[d] = "wrap" => pc[d] = "wrap"
        /\ \A d \in Clients : Holds(d)' => Holds(d)
    BY <1>2, Moves DEF Sane, Holds
  <2> QED
    BY <1>2, <2>1, RingKept
<1>3. ASSUME NEW c \in Clients, Ask(c) \/ Join(c) \/ Forward(c) PROVE Ring'
  BY <1>1, <1>2, <1>3 DEF Ask, Join, Forward, Holds
<1> QED
  BY <1>1, <1>3, RingSet, RingIncr, RingWrap, NextSteps DEF ClientStep, Leave

\* Nobody else forwards the port of a client whose shell comes to forward it.
LEMMA BoundStep ==
    ASSUME Sane, Next
    PROVE  Bound'
<1>1. ASSUME \A d \in Clients : pc'[d] = "open" =>
                pc[d] = "open" /\ port'[d] = port[d] /\ bound'[d] = bound[d]
      PROVE  Bound'
  BY <1>1 DEF Sane, Bound
<1>2. CASE SetPort
  BY <1>1, <1>2 DEF SetPort
<1>3. ASSUME NEW c \in Clients, NEW p, Given(c, p) PROVE Bound'
  BY <1>1, <1>3, Gives DEF Sane
<1>4. ASSUME NEW c \in Clients, Drop(c) PROVE Bound'
  BY <1>1, <1>4, Drops DEF Sane
<1>5. ASSUME NEW c \in Clients, NEW l, Goto(c, l), l # "open", UNCHANGED <<port, bound>>
      PROVE  Bound'
  BY <1>1, <1>5, Moves DEF Sane
<1>6. ASSUME NEW c \in Clients, Ask(c) \/ Incr(c) \/ Wrap(c) \/ Join(c) \/ Leave(c)
      PROVE  Bound'
  BY <1>3, <1>4, <1>5, <1>6 DEF Ask, Incr, Wrap, Join, Leave
<1>7. ASSUME NEW c \in Clients, Forward(c) PROVE Bound'
  <2>1. ASSUME NEW d \in Clients, bound[d], port[d] = port[c] PROVE FALSE
    <3>1. d # c /\ Holds(d) /\ Holds(c)
      BY <1>7, <2>1 DEF Forward, Sane, TypeOK, Holds
    <3>2. port[c] \in Nat /\ port[d] = port[c]
      BY <2>1, <3>1 DEF Sane, TypeOK
    <3>3. Apart(c, d)
      BY <3>1 DEF Sane, Ring
    <3>4. CASE port[c] >= First
      <4>1. InRing(c) /\ InRing(d)
        BY <3>1, <3>2, <3>4 DEF InRing
      <4>2. Aged(c) /\ Aged(d)
        BY <4>1 DEF Sane, Ring
      <4>3. Newest \in Nat
        BY ValueNat, PortAssumption DEF Newest, Sane, TypeOK
      <4> QED
        BY <3>1, <3>2, <3>3, <4>1, <4>2, <4>3 DEF Apart, Aged
    <3>5. CASE port[c] < First
      BY <3>1, <3>2, <3>3, <3>5 DEF Apart, Early
    <3> QED
      BY <3>2, <3>4, <3>5, PortAssumption
  <2>2. \A d \in Clients \ {c} : pc'[d] = pc[d] /\ bound'[d] = bound[d]
    BY <1>7, Moves DEF Forward, Sane, TypeOK
  <2>3. port' = port
    BY <1>7 DEF Forward
  <2>4. bound'[c] = (port[c] >= Unprivileged /\ \A d \in Clients : bound[d] => port[d] # port[c])
    BY <1>7 DEF Forward, Sane, TypeOK
  <2>5. port[c] >= Unprivileged => bound'[c]
    BY <2>1, <2>4
  <2> QED
    BY <2>2, <2>3, <2>5 DEF Bound, Sane
<1> QED
  BY <1>2, <1>6, <1>7, NextSteps DEF ClientStep

-----------------------------------------------------------------------------
LEMMA IInvInit == Init => IInv
<1> SUFFICES ASSUME Init PROVE IInv
  OBVIOUS
<1>1. TypeOK
  <2>1. asks \in 0..MaxAsks /\ since \in [Clients -> Nat]
    BY PortAssumption DEF Init
  <2>2. bound \in [Clients -> BOOLEAN] /\ spoilt \in BOOLEAN /\ ready \in BOOLEAN
    BY DEF Init
  <2>3. \A c \in Clients : pc[c] = "idle" /\ port[c] = Nil /\ ~bound[c]
    BY DEF Init
  <2>4. /\ pc \in [Clients -> {"idle", "ask", "wrap", "told", "joined", "open"}]
        /\ port \in [Clients -> Nat \cup {Nil}] /\ counter \in Nat \cup {Nil}
    BY DEF Init
  <2> QED
    BY <2>1, <2>2, <2>3, <2>4 DEF TypeOK, Holds
<1>2. Noted
  BY PortAssumption DEF Init, Noted, Spoils, Together, Lapped, Flooded, Holds, Value
<1>3. Started /\ Locals /\ Ring /\ Bound
  BY DEF Init, Started, Locals, Joined, Ring, Holds, InRing, Early, Apart, Bound
<1> QED
  BY <1>1, <1>2, <1>3 DEF IInv

LEMMA IInvStep == IInv /\ [Next]_vars => IInv'
<1>1. ASSUME IInv, Next PROVE IInv'
  <2>1. TypeOK' /\ Started' /\ Locals' /\ Noted'
    BY <1>1, TypeStep, StartedStep, LocalsStep, NotedStep, NextSteps DEF IInv
  <2>2. ASSUME ~spoilt' PROVE Sane
    BY <1>1, <2>1, <2>2, NextSteps DEF IInv, Sane, Observe, Noted
  <2> QED
    BY <1>1, <2>1, <2>2, RingStep, BoundStep DEF IInv
<1>2. ASSUME IInv, UNCHANGED vars PROVE IInv'
  BY <1>2 DEF vars, IInv, TypeOK, Started, Locals, Noted, Ring, Bound, Spoils, Together,
              Lapped, Flooded, Value, Newest, Holds, Joined, InRing, Early, Aged, Apart
<1> QED
  BY <1>1, <1>2

LEMMA Invariance == Spec => []IInv
BY IInvInit, IInvStep, PTL DEF Spec

\* The type invariant holds for every number of clients and every range of ports.
THEOREM TypeCorrect == Spec => []TypeOK
<1>1. IInv => TypeOK
  BY DEF IInv
<1> QED
  BY <1>1, Invariance, PTL

\* Every client reaches its own board, however many there are, as long as nothing
\* spoils the round of the ports (shell.py:36-42, 168-169; vlab.py:189).
THEOREM ClientReachesOwnBoard == Spec => []OwnBoard
<1>1. IInv => OwnBoard
  <2> SUFFICES ASSUME IInv, NEW c \in Clients, pc[c] = "open"
               PROVE  /\ \A d \in Clients \ {c} : Local[d] = Local[c] => ~Joined(d)
                      /\ ~spoilt /\ port[c] >= Unprivileged => bound[c]
    BY DEF OwnBoard
  <2>1. Joined(c)
    BY DEF Joined
  <2> QED
    BY <2>1 DEF IInv, Locals, Bound
<1> QED
  BY <1>1, Invariance, PTL

\* Every port given out once the relay has started is in the range (shell.py:37-41).
THEOREM PortsStayInRange == Spec => PortInRange
<1>1. IInv /\ [Next]_vars =>
        [ready => \A c \in Clients : Holds(c)' /\ ~Holds(c) => port'[c] \in First..Last]_vars
  <2> SUFFICES ASSUME IInv, Next, ready, NEW c \in Clients, Holds(c)', ~Holds(c)
               PROVE  port'[c] \in First..Last
    OBVIOUS
  <2>1. Value \in Nat /\ Value >= First /\ TypeOK
    BY ValueNat DEF IInv, Started, TypeOK
  <2>2. PICK d \in Clients : ClientStep(d)
    BY NextSteps DEF SetPort
  <2>3. ASSUME NEW l, Goto(d, l) PROVE d = c /\ l \notin {"idle", "ask"}
    BY <2>1, <2>3, Moves DEF Holds
  <2>4. Incr(c) \/ Wrap(c)
    <3>1. ~Ask(d) /\ ~Drop(d)
      BY <2>3 DEF Ask, Drop
    <3>2. \E l : Goto(d, l)
      BY <2>2, <3>1 DEF ClientStep, Incr, Wrap, Leave, Join, Forward, Given
    <3>3. d = c
      BY <2>3, <3>2
    <3>4. pc[c] \notin {"told", "joined"}
      BY <2>1 DEF Holds
    <3> QED
      BY <2>2, <3>1, <3>3, <3>4 DEF ClientStep, Leave, Join, Forward
  <2>5. CASE Incr(c)
    <3>1. ~Goto(c, "wrap")
      BY <2>1, Moves DEF Holds
    <3>2. ~Over(Value + 1) /\ Given(c, Value + 1)
      BY <2>5, <3>1 DEF Incr
    <3>3. port'[c] = Value + 1
      BY <2>1, <3>2, Gives
    <3> QED
      BY <2>1, <3>2, <3>3, PortAssumption DEF Over
  <2>6. CASE Wrap(c)
    <3>1. port'[c] = First
      BY <2>1, <2>6, Gives DEF Wrap
    <3> QED
      BY <3>1, PortAssumption
  <2> QED
    BY <2>4, <2>5, <2>6
<1> QED
  BY <1>1, Invariance, PTL DEF Spec, PortInRange
====
