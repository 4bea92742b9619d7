------------------------ MODULE TransportSystemProofs ------------------------
(***************************************************************************)
(* Proofs about the transport reducer and the platform that runs it, for   *)
(* any pool of fronts, any ports and whichever lanes the fronts carry, with *)
(* and without late results.                                               *)
(***************************************************************************)
EXTENDS TransportSystem, SequenceTheorems, TLAPS

Kinds == {"direct", "veil_probing", "veil_active", "veil_cooldown", "offline"}

(* The states of the reducer, as far as the proofs tell them apart. *)
IsRoute(s) ==
    /\ s.kind \in Kinds
    /\ s.kind = "veil_active" =>
          s \in [kind : {"veil_active"}, relay : Relays, port : Ports, since_ms : Nat,
                 soft_fails : SoftCounts]

(* The port that gRPC is to be routed through. *)
Target(s) == IF s.kind = "veil_active" THEN s.port ELSE NoPort

Effects ==
    {STOP, START, INVALIDATE} \cup {SetPort(p) : p \in Ports \cup {NoPort}}
        \cup [kind : {"demote_relay"}, relay : Relays]
        \cup [kind : {"schedule_cooldown_end"}, at_ms : Nat]

Reports == [kind : {"proxy_started"}, relay : Relays, port : Ports]
               \cup [kind : {"proxy_start_failed"}]

(* What a list of effects holds, and in which order. *)
Has(q, effect) == \E i \in DOMAIN q : q[i] = effect
HasPort(q) == \E i \in DOMAIN q : q[i].kind = "set_veil_port"
StopThenStart(q) ==
    \A i \in DOMAIN q : q[i] = STOP => \E j \in DOMAIN q : j > i /\ q[j] = START
PortThenDrop(q) ==
    \A i \in DOMAIN q : q[i].kind = "set_veil_port" =>
        \E j \in DOMAIN q : j > i /\ q[j] = INVALIDATE
OnlyPort(q, port) ==
    \A i \in DOMAIN q : q[i].kind = "set_veil_port" => q[i] = SetPort(port)

Typed ==
    /\ mode \in Modes /\ IsRoute(route)
    /\ todo \in Seq(Effects) /\ reports \in Seq(Reports)
    /\ veilPort \in Ports \cup {NoPort}
    /\ channel \in [Lanes -> Ports \cup {"direct", NoChannel}]

(* What is routed is the target, or is about to be set to it. *)
PortInv ==
    /\ OnlyPort(todo, Target(route))
    /\ HasPort(todo) \/ veilPort = Target(route)

(* A channel that does not belong to the route is about to be dropped. *)
ChannelInv ==
    /\ route.kind = "veil_active" =>
          /\ PortThenDrop(todo)
          /\ \/ Has(todo, INVALIDATE)
             \/ \A lane \in Lanes : channel[lane] \in {NoChannel, route.port}
    /\ route.kind = "offline" =>
          Has(todo, INVALIDATE) \/ \A lane \in Lanes : channel[lane] = NoChannel
    /\ mode = "on" =>
          Has(todo, INVALIDATE) \/ \A lane \in Lanes : channel[lane] # "direct"

(* A proxy that the route does not use is about to be stopped, or the       *)
(* router is still to hear that it came up.                                 *)
ProxyInv ==
    route.kind # "veil_active" /\ proxy # NoProxy =>
        Has(todo, STOP) \/ \E i \in DOMAIN reports : reports[i].kind = "proxy_started"

(* While probing, whatever cancels the starts is followed by a new one. *)
StartInv ==
    route.kind = "veil_probing" =>
        /\ StopThenStart(todo)
        /\ starting # {} \/ reports # <<>> \/ Has(todo, START)

ModeInv ==
    /\ mode = "on" => route.kind # "direct"
    /\ mode = "off" => route.kind \in {"direct", "offline"}

TransportInv == Typed /\ ModeInv /\ PortInv /\ ChannelInv /\ ProxyInv /\ StartInv

-----------------------------------------------------------------------------
(* Effect lists.                                                            *)

(* A list that holds two others, one after the other, is their             *)
(* concatenation.                                                           *)
LEMMA JoinedIs ==
    ASSUME NEW S, NEW l \in Seq(S), NEW r \in Seq(S), NEW t \in Seq(S),
           Len(t) = Len(l) + Len(r),
           \A i \in 1 .. Len(l) : t[i] = l[i],
           \A i \in 1 .. Len(r) : t[Len(l) + i] = r[i]
    PROVE  l \o r = t
<1> DEFINE u == l \o r
<1>1. /\ u \in Seq(S) /\ Len(u) = Len(l) + Len(r)
      /\ \A i \in 1 .. Len(l) + Len(r) : u[i] = IF i <= Len(l) THEN l[i] ELSE r[i - Len(l)]
  BY ConcatProperties, Zenon
<1>2. Len(l) \in Nat /\ Len(r) \in Nat
  BY LenProperties
<1> HIDE DEF u
<1>3. ASSUME NEW i \in 1 .. Len(u)
      PROVE  u[i] = t[i]
  <2>1. CASE i <= Len(l)
    BY <1>1, <1>2, <2>1
  <2>2. CASE i > Len(l)
    <3>1. i - Len(l) \in 1 .. Len(r) /\ Len(l) + (i - Len(l)) = i /\ ~(i <= Len(l))
      BY <1>1, <1>2, <2>2
    <3>2. u[i] = r[i - Len(l)]
      BY <1>1, <3>1
    <3>3. t[Len(l) + (i - Len(l))] = r[i - Len(l)]
      BY <3>1
    <3> QED BY <3>1, <3>2, <3>3
  <2> QED BY <1>1, <1>2, <2>1, <2>2
<1>4. u = t
  BY <1>1, <1>3, SeqEqual
<1> QED BY <1>4 DEF u

(* The lists that are put together from two. *)
LEMMA Lists ==
    /\ DropVeil \o <<INVALIDATE>> = <<STOP, UNROUTE, INVALIDATE>>
    /\ DropVeil \o <<INVALIDATE, START>> = <<STOP, UNROUTE, INVALIDATE, START>>
    /\ \A r \in Relays : RotateAway(r) = <<Demote(r), STOP, UNROUTE, START, INVALIDATE>>
    /\ <<>> \o <<INVALIDATE>> = <<INVALIDATE>>
    /\ <<>> \o <<INVALIDATE, START>> = <<INVALIDATE, START>>
<1>1. ASSUME NEW x, NEW y, NEW z
      PROVE  <<x, y>> \o <<z>> = <<x, y, z>>
  <2> DEFINE S == {x, y, z}
             l == <<x, y>>
             r == <<z>>
             t == <<x, y, z>>
  <2>1. /\ l \in Seq(S) /\ Len(l) = 2 /\ l[1] = x /\ l[2] = y
        /\ r \in Seq(S) /\ Len(r) = 1 /\ r[1] = z
        /\ t \in Seq(S) /\ Len(t) = 3 /\ t[1] = x /\ t[2] = y /\ t[3] = z
    OBVIOUS
  <2> HIDE DEF S, l, r, t
  <2>2. /\ Len(t) = Len(l) + Len(r)
        /\ \A i \in 1 .. Len(l) : t[i] = l[i]
        /\ \A i \in 1 .. Len(r) : t[Len(l) + i] = r[i]
    BY <2>1
  <2>3. l \o r = t
    BY <2>1, <2>2, JoinedIs, Zenon
  <2> QED BY <2>3 DEF l, r, t
<1>2. ASSUME NEW x, NEW y, NEW z, NEW w
      PROVE  <<x, y>> \o <<z, w>> = <<x, y, z, w>>
  <2> DEFINE S == {x, y, z, w}
             l == <<x, y>>
             r == <<z, w>>
             t == <<x, y, z, w>>
  <2>1. /\ l \in Seq(S) /\ Len(l) = 2 /\ l[1] = x /\ l[2] = y
        /\ r \in Seq(S) /\ Len(r) = 2 /\ r[1] = z /\ r[2] = w
        /\ t \in Seq(S) /\ Len(t) = 4 /\ t[1] = x /\ t[2] = y /\ t[3] = z /\ t[4] = w
    OBVIOUS
  <2> HIDE DEF S, l, r, t
  <2>2. /\ Len(t) = Len(l) + Len(r)
        /\ \A i \in 1 .. Len(l) : t[i] = l[i]
        /\ \A i \in 1 .. Len(r) : t[Len(l) + i] = r[i]
    BY <2>1
  <2>3. l \o r = t
    BY <2>1, <2>2, JoinedIs, Zenon
  <2> QED BY <2>3 DEF l, r, t
<1>3. ASSUME NEW v, NEW x, NEW y, NEW z, NEW w
      PROVE  <<v>> \o <<x, y, z, w>> = <<v, x, y, z, w>>
  <2> DEFINE S == {v, x, y, z, w}
             l == <<v>>
             r == <<x, y, z, w>>
             t == <<v, x, y, z, w>>
  <2>1. /\ l \in Seq(S) /\ Len(l) = 1 /\ l[1] = v
        /\ r \in Seq(S) /\ Len(r) = 4 /\ r[1] = x /\ r[2] = y /\ r[3] = z /\ r[4] = w
        /\ t \in Seq(S) /\ Len(t) = 5
        /\ t[1] = v /\ t[2] = x /\ t[3] = y /\ t[4] = z /\ t[5] = w
    OBVIOUS
  <2> HIDE DEF S, l, r, t
  <2>2. /\ Len(t) = Len(l) + Len(r)
        /\ \A i \in 1 .. Len(l) : t[i] = l[i]
        /\ \A i \in 1 .. Len(r) : t[Len(l) + i] = r[i]
    BY <2>1
  <2>3. l \o r = t
    BY <2>1, <2>2, JoinedIs, Zenon
  <2> QED BY <2>3 DEF l, r, t
<1>4. <<>> \o <<INVALIDATE>> = <<INVALIDATE>> /\ <<>> \o <<INVALIDATE, START>> = <<INVALIDATE, START>>
  OBVIOUS
<1> QED BY <1>1, <1>2, <1>3, <1>4 DEF DropVeil, RotateAway, ROTATE

(* What each list of effects holds and in which order: one fact per list    *)
(* that some rule of the reducer gives.                                     *)
LEMMA ListFacts ==
    /\ LET q == <<>> IN
         /\ q \in Seq(Effects) /\ \A p : OnlyPort(q, p)
         /\ StopThenStart(q) /\ PortThenDrop(q)
    /\ LET q == <<INVALIDATE>> IN
         /\ q \in Seq(Effects) /\ (\A p : OnlyPort(q, p))
         /\ Has(q, INVALIDATE) /\ StopThenStart(q) /\ PortThenDrop(q)
    /\ LET q == DropVeil IN
         /\ q \in Seq(Effects) /\ OnlyPort(q, NoPort) /\ HasPort(q) /\ Has(q, STOP)
    /\ LET q == <<STOP, UNROUTE, INVALIDATE>> IN
         /\ q \in Seq(Effects) /\ OnlyPort(q, NoPort) /\ HasPort(q)
         /\ Has(q, STOP) /\ Has(q, INVALIDATE)
    /\ LET q == <<INVALIDATE, START>> IN
         /\ q \in Seq(Effects) /\ (\A p : OnlyPort(q, p))
         /\ Has(q, INVALIDATE) /\ Has(q, START) /\ StopThenStart(q)
    /\ LET q == <<START, INVALIDATE>> IN
         /\ q \in Seq(Effects) /\ (\A p : OnlyPort(q, p))
         /\ Has(q, INVALIDATE) /\ Has(q, START) /\ StopThenStart(q)
    /\ LET q == <<STOP, UNROUTE, INVALIDATE, START>> IN
         /\ q \in Seq(Effects) /\ OnlyPort(q, NoPort) /\ HasPort(q)
         /\ Has(q, STOP) /\ Has(q, INVALIDATE) /\ Has(q, START) /\ StopThenStart(q)
    /\ LET q == ROTATE IN
         /\ q \in Seq(Effects) /\ OnlyPort(q, NoPort) /\ HasPort(q)
         /\ Has(q, STOP) /\ Has(q, INVALIDATE) /\ Has(q, START) /\ StopThenStart(q)
    /\ \A r \in Relays :
         LET q == <<Demote(r), STOP, UNROUTE, START, INVALIDATE>> IN
         /\ q \in Seq(Effects) /\ OnlyPort(q, NoPort) /\ HasPort(q)
         /\ Has(q, STOP) /\ Has(q, INVALIDATE) /\ Has(q, START) /\ StopThenStart(q)
    /\ \A p \in Ports :
         LET q == <<SetPort(p), INVALIDATE>> IN
         /\ q \in Seq(Effects) /\ OnlyPort(q, p) /\ HasPort(q)
         /\ Has(q, INVALIDATE) /\ PortThenDrop(q)
    /\ \A at \in Nat :
         LET q == <<UNROUTE, ScheduleEnd(at)>> IN
         /\ q \in Seq(Effects) /\ OnlyPort(q, NoPort) /\ HasPort(q)
<1>0. /\ {STOP, START, INVALIDATE, UNROUTE} \subseteq Effects
      /\ \A r \in Relays : Demote(r) \in Effects
      /\ \A p \in Ports : SetPort(p) \in Effects
      /\ \A at \in Nat : ScheduleEnd(at) \in Effects
  BY DEF Effects, UNROUTE, Demote, ScheduleEnd
<1>1. LET q == <<>> IN
       /\ q \in Seq(Effects) /\ (\A p : OnlyPort(q, p)) /\ StopThenStart(q)
       /\ PortThenDrop(q)
  <2> DEFINE q == <<>>
  <2>1. q \in Seq(Effects)
    BY <1>0
  <2>2. DOMAIN q = {}
    OBVIOUS
  <2> HIDE DEF q
  <2>4. (\A p : OnlyPort(q, p)) /\ StopThenStart(q) /\ PortThenDrop(q)
    BY <2>2 DEF OnlyPort, StopThenStart, PortThenDrop, STOP
  <2> QED BY <2>1, <2>4 DEF q
<1>2. LET q == <<INVALIDATE>> IN
       /\ q \in Seq(Effects) /\ (\A p : OnlyPort(q, p)) /\ Has(q, INVALIDATE)
       /\ StopThenStart(q) /\ PortThenDrop(q)
  <2> DEFINE q == <<INVALIDATE>>
  <2>1. q \in Seq(Effects)
    BY <1>0
  <2>2. DOMAIN q = 1 .. 1 /\ q[1] = INVALIDATE
    OBVIOUS
  <2> HIDE DEF q
  <2>3. Has(q, INVALIDATE)
    BY <2>2 DEF Has
  <2>4. (\A p : OnlyPort(q, p)) /\ StopThenStart(q) /\ PortThenDrop(q)
    BY <2>2 DEF OnlyPort, StopThenStart, PortThenDrop, INVALIDATE, STOP
  <2> QED BY <2>1, <2>3, <2>4 DEF q
<1>3. LET q == DropVeil IN
       /\ q \in Seq(Effects) /\ OnlyPort(q, NoPort) /\ HasPort(q)
       /\ Has(q, STOP)
  <2> DEFINE q == DropVeil
  <2>1. q \in Seq(Effects)
    BY <1>0 DEF DropVeil
  <2>2. DOMAIN q = 1 .. 2 /\ q[1] = STOP /\ q[2] = UNROUTE
    BY DEF DropVeil
  <2> HIDE DEF q
  <2>3. HasPort(q) /\ Has(q, STOP)
    BY <2>2 DEF Has, HasPort, SetPort, UNROUTE
  <2>4. OnlyPort(q, NoPort)
    BY <2>2 DEF OnlyPort, STOP, UNROUTE, SetPort
  <2> QED BY <2>1, <2>3, <2>4 DEF q
<1>4. LET q == <<STOP, UNROUTE, INVALIDATE>> IN
       /\ q \in Seq(Effects) /\ OnlyPort(q, NoPort) /\ HasPort(q)
       /\ Has(q, STOP) /\ Has(q, INVALIDATE)
  <2> DEFINE q == <<STOP, UNROUTE, INVALIDATE>>
  <2>1. q \in Seq(Effects)
    BY <1>0
  <2>2. DOMAIN q = 1 .. 3 /\ q[1] = STOP /\ q[2] = UNROUTE /\ q[3] = INVALIDATE
    OBVIOUS
  <2> HIDE DEF q
  <2>3. HasPort(q) /\ Has(q, STOP) /\ Has(q, INVALIDATE)
    BY <2>2 DEF Has, HasPort, SetPort, UNROUTE
  <2>4. OnlyPort(q, NoPort)
    BY <2>2 DEF OnlyPort, STOP, UNROUTE, INVALIDATE, SetPort
  <2> QED BY <2>1, <2>3, <2>4 DEF q
<1>5. LET q == <<INVALIDATE, START>> IN
       /\ q \in Seq(Effects) /\ (\A p : OnlyPort(q, p)) /\ Has(q, INVALIDATE)
       /\ Has(q, START) /\ StopThenStart(q)
  <2> DEFINE q == <<INVALIDATE, START>>
  <2>1. q \in Seq(Effects)
    BY <1>0
  <2>2. DOMAIN q = 1 .. 2 /\ q[1] = INVALIDATE /\ q[2] = START
    OBVIOUS
  <2> HIDE DEF q
  <2>3. Has(q, INVALIDATE) /\ Has(q, START)
    BY <2>2 DEF Has
  <2>4. (\A p : OnlyPort(q, p)) /\ StopThenStart(q)
    BY <2>2 DEF OnlyPort, StopThenStart, INVALIDATE, START, STOP
  <2> QED BY <2>1, <2>3, <2>4 DEF q
<1>6. LET q == <<START, INVALIDATE>> IN
       /\ q \in Seq(Effects) /\ (\A p : OnlyPort(q, p)) /\ Has(q, INVALIDATE)
       /\ Has(q, START) /\ StopThenStart(q)
  <2> DEFINE q == <<START, INVALIDATE>>
  <2>1. q \in Seq(Effects)
    BY <1>0
  <2>2. DOMAIN q = 1 .. 2 /\ q[1] = START /\ q[2] = INVALIDATE
    OBVIOUS
  <2> HIDE DEF q
  <2>3. Has(q, INVALIDATE) /\ Has(q, START)
    BY <2>2 DEF Has
  <2>4. (\A p : OnlyPort(q, p)) /\ StopThenStart(q)
    BY <2>2 DEF OnlyPort, StopThenStart, START, INVALIDATE, STOP
  <2> QED BY <2>1, <2>3, <2>4 DEF q
<1>7. LET q == <<STOP, UNROUTE, INVALIDATE, START>> IN
       /\ q \in Seq(Effects) /\ OnlyPort(q, NoPort) /\ HasPort(q)
       /\ Has(q, STOP) /\ Has(q, INVALIDATE) /\ Has(q, START)
       /\ StopThenStart(q)
  <2> DEFINE q == <<STOP, UNROUTE, INVALIDATE, START>>
  <2>1. q \in Seq(Effects)
    BY <1>0
  <2>2. DOMAIN q = 1 .. 4 /\ q[1] = STOP /\ q[2] = UNROUTE /\ q[3] = INVALIDATE /\ q[4] = START
    OBVIOUS
  <2> HIDE DEF q
  <2>3. HasPort(q) /\ Has(q, STOP) /\ Has(q, INVALIDATE) /\ Has(q, START)
    BY <2>2 DEF Has, HasPort, SetPort, UNROUTE
  <2>4. OnlyPort(q, NoPort) /\ StopThenStart(q)
    BY <2>2 DEF OnlyPort, StopThenStart, STOP, UNROUTE, INVALIDATE, START, SetPort
  <2> QED BY <2>1, <2>3, <2>4 DEF q
<1>8. LET q == ROTATE IN
       /\ q \in Seq(Effects) /\ OnlyPort(q, NoPort) /\ HasPort(q)
       /\ Has(q, STOP) /\ Has(q, INVALIDATE) /\ Has(q, START)
       /\ StopThenStart(q)
  <2> DEFINE q == ROTATE
  <2>1. q \in Seq(Effects)
    BY <1>0 DEF ROTATE
  <2>2. DOMAIN q = 1 .. 4 /\ q[1] = STOP /\ q[2] = UNROUTE /\ q[3] = START /\ q[4] = INVALIDATE
    BY DEF ROTATE
  <2> HIDE DEF q
  <2>3. HasPort(q) /\ Has(q, STOP) /\ Has(q, INVALIDATE) /\ Has(q, START)
    BY <2>2 DEF Has, HasPort, SetPort, UNROUTE
  <2>4. OnlyPort(q, NoPort) /\ StopThenStart(q)
    BY <2>2 DEF OnlyPort, StopThenStart, STOP, UNROUTE, START, INVALIDATE, SetPort
  <2> QED BY <2>1, <2>3, <2>4 DEF q
<1>9. ASSUME NEW r \in Relays
      PROVE  LET q == <<Demote(r), STOP, UNROUTE, START, INVALIDATE>> IN
       /\ q \in Seq(Effects) /\ OnlyPort(q, NoPort) /\ HasPort(q)
       /\ Has(q, STOP) /\ Has(q, INVALIDATE) /\ Has(q, START)
       /\ StopThenStart(q)
  <2> DEFINE q == <<Demote(r), STOP, UNROUTE, START, INVALIDATE>>
  <2>1. q \in Seq(Effects)
    BY <1>0
  <2>2. DOMAIN q = 1 .. 5 /\ q[1] = Demote(r) /\ q[2] = STOP /\ q[3] = UNROUTE /\ q[4] = START /\ q[5] = INVALIDATE
    OBVIOUS
  <2> HIDE DEF q
  <2>3. HasPort(q) /\ Has(q, STOP) /\ Has(q, INVALIDATE) /\ Has(q, START)
    BY <2>2 DEF Has, HasPort, SetPort, UNROUTE
  <2>4. OnlyPort(q, NoPort) /\ StopThenStart(q)
    BY <2>2 DEF OnlyPort, StopThenStart, Demote, STOP, UNROUTE, START, INVALIDATE, SetPort
  <2> QED BY <2>1, <2>3, <2>4 DEF q
<1>10. ASSUME NEW p \in Ports
      PROVE  LET q == <<SetPort(p), INVALIDATE>> IN
       /\ q \in Seq(Effects) /\ OnlyPort(q, p) /\ HasPort(q)
       /\ Has(q, INVALIDATE) /\ PortThenDrop(q)
  <2> DEFINE q == <<SetPort(p), INVALIDATE>>
  <2>1. q \in Seq(Effects)
    BY <1>0
  <2>2. DOMAIN q = 1 .. 2 /\ q[1] = SetPort(p) /\ q[2] = INVALIDATE
    OBVIOUS
  <2> HIDE DEF q
  <2>3. HasPort(q) /\ Has(q, INVALIDATE)
    BY <2>2 DEF Has, HasPort, SetPort
  <2>4. OnlyPort(q, p) /\ PortThenDrop(q)
    BY <2>2 DEF OnlyPort, PortThenDrop, SetPort, INVALIDATE
  <2> QED BY <2>1, <2>3, <2>4 DEF q
<1>11. ASSUME NEW at \in Nat
      PROVE  LET q == <<UNROUTE, ScheduleEnd(at)>> IN
       /\ q \in Seq(Effects) /\ OnlyPort(q, NoPort) /\ HasPort(q)
  <2> DEFINE q == <<UNROUTE, ScheduleEnd(at)>>
  <2>1. q \in Seq(Effects)
    BY <1>0
  <2>2. DOMAIN q = 1 .. 2 /\ q[1] = UNROUTE /\ q[2] = ScheduleEnd(at)
    OBVIOUS
  <2> HIDE DEF q
  <2>3. HasPort(q)
    BY <2>2 DEF HasPort, SetPort, UNROUTE
  <2>4. OnlyPort(q, NoPort)
    BY <2>2 DEF OnlyPort, UNROUTE, ScheduleEnd, SetPort
  <2> QED BY <2>1, <2>3, <2>4 DEF q
<1> QED BY <1>1, <1>2, <1>3, <1>4, <1>5, <1>6, <1>7, <1>8, <1>9, <1>10, <1>11

-----------------------------------------------------------------------------
(* The reducer.                                                             *)

(* What every rule guarantees, if it takes the client from s to out.state   *)
(* on event e under mode m: `on` does not go direct and `off` leaves VEIL;  *)
(* the port is set where it changes; channels are dropped where they may no *)
(* longer belong; leaving VEIL stops the proxy, as does hearing of a late   *)
(* one; and a start follows whatever makes the client wait for one.         *)
Sound(s, m, e, out) ==
    /\ IsRoute(out.state) /\ out.effects \in Seq(Effects)
    /\ m = "on" /\ (s.kind = "direct" => e.kind = "veil_mode_changed") =>
          out.state.kind # "direct"
    /\ m = "off" /\ (s.kind \in {"direct", "offline"} \/ e.kind = "veil_mode_changed") =>
          out.state.kind \in {"direct", "offline"}
    /\ OnlyPort(out.effects, Target(out.state))
    /\ HasPort(out.effects) \/ Target(out.state) = Target(s)
    /\ out.state.kind = "veil_active" =>
          /\ PortThenDrop(out.effects)
          /\ Has(out.effects, INVALIDATE) \/ s.kind = "veil_active"
    /\ out.state.kind = "offline" => Has(out.effects, INVALIDATE) \/ s.kind = "offline"
    /\ m = "on" /\ e.kind = "veil_mode_changed" =>
          Has(out.effects, INVALIDATE) \/ s.kind \in {"veil_active", "offline"}
    /\ out.state.kind # "veil_active" /\ (s.kind = "veil_active" \/ e.kind = "proxy_started") =>
          Has(out.effects, STOP)
    /\ out.state.kind = "veil_probing" =>
          /\ StopThenStart(out.effects)
          /\ \/ Has(out.effects, START)
             \/ s.kind = "veil_probing" /\ e.kind \notin {"proxy_started", "proxy_start_failed"}

(* The events the platform makes. *)
IsEvent(e) ==
    /\ e.kind = "proxy_started" => e.relay \in Relays /\ e.port \in Ports
    /\ e.kind \in {"rpc_failed", "rpc_succeeded"} => e.lane \in Lanes

(* The route stays of its kind. *)
LEMMA StaySound ==
    ASSUME NEW s, IsRoute(s), NEW m \in Modes, NEW e, NEW t, IsRoute(t), t.kind = s.kind,
           t.kind = "veil_active" => t.port = s.port, NEW q \in {<<>>, <<INVALIDATE>>},
           s.kind = "direct" => ~(m = "on" /\ e.kind = "veil_mode_changed"),
           m = "off" /\ e.kind = "veil_mode_changed" => s.kind \in {"direct", "offline"},
           e.kind = "proxy_started" => s.kind = "veil_active",
           e.kind = "proxy_start_failed" => s.kind # "veil_probing",
           m = "on" /\ e.kind = "veil_mode_changed" =>
               q = <<INVALIDATE>> \/ s.kind \in {"veil_active", "offline"}
    PROVE  Sound(s, m, e, Out(t, q))
<1>1. /\ q \in Seq(Effects) /\ (\A p : OnlyPort(q, p))
      /\ StopThenStart(q) /\ PortThenDrop(q) /\ (q = <<INVALIDATE>> => Has(q, INVALIDATE))
  BY ListFacts, Zenon
<1>2. Target(t) = Target(s)
  BY DEF Target
<1> QED BY <1>1, <1>2 DEF Sound, Out

(* The client starts over. *)
LEMMA LandSound ==
    ASSUME NEW s, IsRoute(s), NEW m \in Modes, NEW e, NEW before \in {<<>>, DropVeil},
           before = <<>> => /\ s.kind \in {"direct", "veil_cooldown"}
                            /\ e.kind # "proxy_started"
    PROVE  Sound(s, m, e, Land(m, before))
<1>1. CASE m = "on"
  <2> DEFINE q == before \o <<INVALIDATE, START>>
  <2>1. \/ q = <<INVALIDATE, START>> /\ before = <<>>
        \/ q = <<STOP, UNROUTE, INVALIDATE, START>>
    BY Lists
  <2> HIDE DEF q
  <2>2. /\ q \in Seq(Effects) /\ OnlyPort(q, NoPort)
        /\ before # <<>> => HasPort(q) /\ Has(q, STOP)
        /\ Has(q, INVALIDATE) /\ Has(q, START) /\ StopThenStart(q)
    <3>1. CASE q = <<INVALIDATE, START>> /\ before = <<>>
      <4>1. LET l == <<INVALIDATE, START>> IN
            /\ l \in Seq(Effects) /\ OnlyPort(l, NoPort)
            /\ Has(l, INVALIDATE) /\ Has(l, START) /\ StopThenStart(l)
        BY ListFacts, Zenon
      <4> QED BY <3>1, <4>1, Zenon
    <3>2. CASE q = <<STOP, UNROUTE, INVALIDATE, START>>
      BY <3>2, ListFacts, Zenon
    <3> QED BY <2>1, <3>1, <3>2
  <2>3. Land(m, before) = Out(Probing, q)
    BY <1>1 DEF Land, q
  <2>4. before = <<>> => Target(Probing) = Target(s)
    BY DEF Target, Probing
  <2> QED BY <1>1, <2>2, <2>3, <2>4 DEF Sound, Out, Probing, IsRoute, Kinds, Target
<1>2. CASE m # "on"
  <2> DEFINE q == before \o <<INVALIDATE>>
  <2>1. \/ q = <<INVALIDATE>> /\ before = <<>>
        \/ q = <<STOP, UNROUTE, INVALIDATE>>
    BY Lists
  <2> HIDE DEF q
  <2>2. /\ q \in Seq(Effects) /\ OnlyPort(q, NoPort)
        /\ before # <<>> => HasPort(q) /\ Has(q, STOP)
        /\ Has(q, INVALIDATE)
    <3>1. CASE q = <<INVALIDATE>> /\ before = <<>>
      <4>1. LET l == <<INVALIDATE>> IN
            l \in Seq(Effects) /\ OnlyPort(l, NoPort) /\ Has(l, INVALIDATE)
        BY ListFacts, Zenon
      <4> QED BY <3>1, <4>1, Zenon
    <3>2. CASE q = <<STOP, UNROUTE, INVALIDATE>>
      BY <3>2, ListFacts, Zenon
    <3> QED BY <2>1, <3>1, <3>2
  <2>3. Land(m, before) = Out(Direct(0), q)
    BY <1>2 DEF Land, q
  <2>4. before = <<>> => Target(Direct(0)) = Target(s)
    BY DEF Target, Direct
  <2> QED BY <1>2, <2>2, <2>3, <2>4 DEF Sound, Out, Direct, IsRoute, Kinds, Target
<1> QED BY <1>1, <1>2

(* A late proxy is torn down. *)
LEMMA TearDownSound ==
    ASSUME NEW s, IsRoute(s), NEW m \in Modes, NEW e, e.kind = "proxy_started",
           s.kind \in {"direct", "veil_cooldown", "offline"}
    PROVE  Sound(s, m, e, Out(s, DropVeil))
<1>1. /\ DropVeil \in Seq(Effects) /\ OnlyPort(DropVeil, NoPort)
      /\ HasPort(DropVeil) /\ Has(DropVeil, STOP)
  BY ListFacts, Zenon
<1>2. Target(s) = NoPort
  BY DEF Target
<1> QED BY <1>1, <1>2 DEF Sound, Out

(* The proxy is replaced. *)
LEMMA RotateSound ==
    ASSUME NEW s, IsRoute(s), s.kind = "veil_active", NEW m \in Modes, NEW e,
           e.kind # "veil_mode_changed", NEW q \in {ROTATE, RotateAway(s.relay)}
    PROVE  Sound(s, m, e, Out(Probing, q))
<1>1. s.relay \in Relays
  BY DEF IsRoute
<1>2. /\ q \in Seq(Effects) /\ OnlyPort(q, NoPort) /\ HasPort(q)
      /\ Has(q, STOP) /\ Has(q, INVALIDATE) /\ Has(q, START) /\ StopThenStart(q)
  BY <1>1, Lists, ListFacts, Zenon
<1> QED BY <1>2 DEF Sound, Out, Probing, IsRoute, Kinds, Target

-----------------------------------------------------------------------------
(* What the reducer does on the direct path.                                *)
LEMMA DirectSound ==
    ASSUME NEW s, IsRoute(s), s.kind = "direct", NEW m \in Modes, NEW e, IsEvent(e)
    PROVE  Sound(s, m, e, OnDirect(s, m, e, DefaultConfig))
<1>1. ASSUME NEW w, e.kind \in {"rpc_failed", "stream_failed"}
      PROVE  Sound(s, m, e, DirectFailed(s, m, w, DefaultConfig))
  <2>1. \/ DirectFailed(s, m, w, DefaultConfig) = Out(Direct(s.fails + w), <<>>)
        \/ m = "auto" /\ DirectFailed(s, m, w, DefaultConfig) = Out(Probing, <<START, INVALIDATE>>)
    <3> DEFINE up == /\ s.fails + w >= DefaultConfig.direct_fail_threshold
                     /\ m = "auto"
                     /\ DefaultConfig.allow_direct_to_veil_escalation
    <3>1. CASE up
      BY <3>1 DEF DirectFailed
    <3>2. CASE ~up
      BY <3>2 DEF DirectFailed
    <3> QED BY <3>1, <3>2
  <2>2. Sound(s, m, e, Out(Direct(s.fails + w), <<>>))
    BY <1>1, StaySound DEF Direct, IsRoute, Kinds
  <2>3. ASSUME m = "auto" PROVE Sound(s, m, e, Out(Probing, <<START, INVALIDATE>>))
    <3> DEFINE q == <<START, INVALIDATE>>
    <3>1. /\ q \in Seq(Effects) /\ OnlyPort(q, NoPort)
          /\ Has(q, INVALIDATE) /\ Has(q, START) /\ StopThenStart(q)
      BY ListFacts, Zenon
    <3> HIDE DEF q
    <3>2. Sound(s, m, e, Out(Probing, q))
      BY <1>1, <2>3, <3>1 DEF Sound, Out, Probing, IsRoute, Kinds, Target
    <3> QED BY <3>2 DEF q
  <2> QED BY <2>1, <2>2, <2>3
<1>2. ASSUME e.kind \in {"rpc_succeeded", "stream_opened"}
      PROVE  Sound(s, m, e, Out(Direct(0), <<>>))
  BY <1>2, StaySound DEF Direct, IsRoute, Kinds
<1>3. ASSUME e.kind # "proxy_started"
      PROVE  Sound(s, m, e, Land(m, <<>>))
  BY <1>3, LandSound
<1>4. ASSUME e.kind = "proxy_started"
      PROVE  Sound(s, m, e, Out(s, DropVeil))
  BY <1>4, TearDownSound
<1>5. ASSUME e.kind # "proxy_started", ~(e.kind = "veil_mode_changed" /\ m = "on")
      PROVE  Sound(s, m, e, Out(s, <<>>))
  BY <1>5, StaySound
<1>6. \/ /\ e.kind \in {"rpc_failed", "stream_failed"}
         /\ \E w \in {1, Weight(e.failure, DefaultConfig)} :
               OnDirect(s, m, e, DefaultConfig) = DirectFailed(s, m, w, DefaultConfig)
      \/ /\ e.kind \in {"rpc_succeeded", "stream_opened"}
         /\ OnDirect(s, m, e, DefaultConfig) = Out(Direct(0), <<>>)
      \/ e.kind # "proxy_started" /\ OnDirect(s, m, e, DefaultConfig) = Land(m, <<>>)
      \/ e.kind = "proxy_started" /\ OnDirect(s, m, e, DefaultConfig) = Out(s, DropVeil)
      \/ /\ e.kind # "proxy_started" /\ ~(e.kind = "veil_mode_changed" /\ m = "on")
         /\ OnDirect(s, m, e, DefaultConfig) = Out(s, <<>>)
  BY DEF OnDirect
<1> QED BY <1>1, <1>2, <1>3, <1>4, <1>5, <1>6

(* What the reducer does while the proxy starts.                            *)
LEMMA ProbingSound ==
    ASSUME NEW s, IsRoute(s), s.kind = "veil_probing", NEW m \in Modes, NEW e, IsEvent(e)
    PROVE  Sound(s, m, e, OnProbing(s, m, e, DefaultConfig, 0))
<1> DEFINE out == OnProbing(s, m, e, DefaultConfig, 0)
           at == 0 + DefaultConfig.veil_cooldown_ms
<1>1. CASE e.kind = "proxy_started"
  <2> DEFINE t == Active(e.relay, e.port, 0, NoSoftFails)
             q == <<SetPort(e.port), INVALIDATE>>
  <2>1. out = Out(t, q)
    BY <1>1 DEF OnProbing
  <2>2. e.relay \in Relays /\ e.port \in Ports
    BY <1>1 DEF IsEvent
  <2>3. q \in Seq(Effects) /\ OnlyPort(q, e.port) /\ HasPort(q)
        /\ Has(q, INVALIDATE) /\ PortThenDrop(q)
    BY <2>2, ListFacts, Zenon
  <2> HIDE DEF q
  <2>4. NoSoftFails \in SoftCounts
    BY DEF NoSoftFails, SoftCounts, DefaultConfig
  <2>5. IsRoute(t) /\ t.kind = "veil_active" /\ Target(t) = e.port
    BY <2>2, <2>4 DEF IsRoute, Kinds, Active, Target
  <2> HIDE DEF t
  <2>6. Sound(s, m, e, Out(t, q))
    BY <1>1, <2>3, <2>5 DEF Sound, Out
  <2> QED BY <2>1, <2>6
<1>2. CASE e.kind = "proxy_start_failed"
  <2> DEFINE q == <<UNROUTE, ScheduleEnd(at)>>
  <2>1. out = Out(Cooldown(at), q)
    BY <1>2 DEF OnProbing
  <2>2. at \in Nat
    BY DEF DefaultConfig
  <2> HIDE DEF at
  <2>3. q \in Seq(Effects) /\ OnlyPort(q, NoPort) /\ HasPort(q)
    BY <2>2, ListFacts, Zenon
  <2> HIDE DEF q
  <2>4. Sound(s, m, e, Out(Cooldown(at), q))
    BY <1>2, <2>3 DEF Sound, Out, Cooldown, IsRoute, Kinds, Target
  <2> QED BY <2>1, <2>4
<1>3. CASE e.kind \notin {"proxy_started", "proxy_start_failed"}
  <2>1. Sound(s, m, e, Land(m, DropVeil))
    BY LandSound, DropVeil # <<>> DEF DropVeil
  <2>2. ASSUME ~(m = "off" /\ e.kind = "veil_mode_changed")
        PROVE  Sound(s, m, e, Out(s, <<INVALIDATE>>))
    BY <1>3, <2>2, StaySound
  <2>3. ASSUME ~(m \in {"on", "off"} /\ e.kind = "veil_mode_changed")
        PROVE  Sound(s, m, e, Out(s, <<>>))
    BY <1>3, <2>3, StaySound
  <2>4. \/ out = Land(m, DropVeil)
        \/ out = Out(s, <<INVALIDATE>>) /\ ~(m = "off" /\ e.kind = "veil_mode_changed")
        \/ out = Out(s, <<>>) /\ ~(m \in {"on", "off"} /\ e.kind = "veil_mode_changed")
    BY <1>3 DEF OnProbing
  <2> HIDE DEF out
  <2> QED BY <2>1, <2>2, <2>3, <2>4 DEF out
<1> QED BY <1>1, <1>2, <1>3

(* What the reducer does with VEIL up.                                      *)
LEMMA ActiveSound ==
    ASSUME NEW s, IsRoute(s), s.kind = "veil_active", NEW m \in Modes, NEW e, IsEvent(e)
    PROVE  Sound(s, m, e, OnActive(s, m, e, DefaultConfig))
<1> DEFINE out == OnActive(s, m, e, DefaultConfig)
<1>1. s \in [kind : {"veil_active"}, relay : Relays, port : Ports, since_ms : Nat,
             soft_fails : SoftCounts]
  BY DEF IsRoute
<1>2. ASSUME e.kind # "veil_mode_changed", NEW q \in {ROTATE, RotateAway(s.relay)}
      PROVE  Sound(s, m, e, Out(Probing, q))
  BY <1>2, RotateSound
<1>3. ASSUME NEW lane \in Lanes, NEW n \in 0 .. DefaultConfig.veil_soft_fail_threshold - 1,
             NEW q \in {<<>>, <<INVALIDATE>>}, e.kind # "veil_mode_changed"
      PROVE  Sound(s, m, e, Out([s EXCEPT !.soft_fails[lane] = n], q))
  <2> DEFINE t == [s EXCEPT !.soft_fails[lane] = n]
  <2>1. s.soft_fails \in SoftCounts
    BY <1>1
  <2>2. [s.soft_fails EXCEPT ![lane] = n] \in SoftCounts
    BY <1>3, <2>1 DEF SoftCounts
  <2>3. t \in [kind : {"veil_active"}, relay : Relays, port : Ports, since_ms : Nat,
               soft_fails : SoftCounts] /\ t.port = s.port
    BY <1>1, <2>2
  <2> HIDE DEF t
  <2>4. IsRoute(t) /\ t.kind = "veil_active"
    BY <2>3 DEF IsRoute, Kinds
  <2>5. Sound(s, m, e, Out(t, q))
    BY <1>3, <2>3, <2>4, StaySound
  <2> QED BY <2>5 DEF t
<1>4. ASSUME NEW lane \in Lanes, e.kind # "veil_mode_changed"
      PROVE  /\ Sound(s, m, e, LaneFailed(s, lane, DefaultConfig))
             /\ Sound(s, m, e, Out(LaneCleared(s, lane), <<>>))
  <2>1. s.soft_fails[lane] \in 0 .. 2 /\ DefaultConfig.veil_soft_fail_threshold = 3
    BY <1>1, <1>4 DEF SoftCounts, DefaultConfig
  <2>2. \/ LaneFailed(s, lane, DefaultConfig) = Out(Probing, RotateAway(s.relay))
        \/ /\ s.soft_fails[lane] + 1 \in 0 .. 2
           /\ LaneFailed(s, lane, DefaultConfig) =
                 Out([s EXCEPT !.soft_fails[lane] = s.soft_fails[lane] + 1], <<INVALIDATE>>)
    BY <2>1 DEF LaneFailed
  <2>3. Sound(s, m, e, LaneFailed(s, lane, DefaultConfig))
    <3>1. Sound(s, m, e, Out(Probing, RotateAway(s.relay)))
      BY <1>2, <1>4
    <3>2. ASSUME s.soft_fails[lane] + 1 \in 0 .. 2
          PROVE  Sound(s, m, e, Out([s EXCEPT !.soft_fails[lane] = s.soft_fails[lane] + 1],
                                    <<INVALIDATE>>))
      <4>1. s.soft_fails[lane] + 1 \in 0 .. DefaultConfig.veil_soft_fail_threshold - 1
        BY <2>1, <3>2
      <4> QED BY <1>3, <1>4, <4>1
    <3> QED BY <2>2, <3>1, <3>2
  <2>4. Sound(s, m, e, Out(LaneCleared(s, lane), <<>>))
    <3>1. 0 \in 0 .. DefaultConfig.veil_soft_fail_threshold - 1
      BY <2>1
    <3>2. Sound(s, m, e, Out([s EXCEPT !.soft_fails[lane] = 0], <<>>))
      BY <1>3, <1>4, <3>1
    <3> QED BY <3>2 DEF LaneCleared
  <2> QED BY <2>3, <2>4
<1>5. ASSUME m # "on", e.kind = "rpc_succeeded"
      PROVE  Sound(s, m, e, Out(Direct(0), DropVeil))
  <2>1. /\ DropVeil \in Seq(Effects) /\ OnlyPort(DropVeil, NoPort)
        /\ HasPort(DropVeil) /\ Has(DropVeil, STOP)
    BY ListFacts, Zenon
  <2> QED BY <1>5, <2>1 DEF Sound, Out, Direct, IsRoute, Kinds, Target
<1>6. ASSUME NEW q \in {<<>>, <<INVALIDATE>>}, ~(m = "off" /\ e.kind = "veil_mode_changed")
      PROVE  Sound(s, m, e, Out(s, q))
  BY <1>6, StaySound
<1>7. Sound(s, m, e, Land(m, DropVeil))
  BY LandSound, DropVeil # <<>> DEF DropVeil
<1>8. \/ /\ e.kind # "veil_mode_changed"
         /\ \E q \in {ROTATE, RotateAway(s.relay)} : out = Out(Probing, q)
      \/ /\ e.kind \in {"rpc_failed", "rpc_succeeded"}
         /\ \/ out = LaneFailed(s, e.lane, DefaultConfig)
            \/ out = Out(LaneCleared(s, e.lane), <<>>)
      \/ m # "on" /\ e.kind = "rpc_succeeded" /\ out = Out(Direct(0), DropVeil)
      \/ /\ ~(m = "off" /\ e.kind = "veil_mode_changed")
         /\ \E q \in {<<>>, <<INVALIDATE>>} : out = Out(s, q)
      \/ out = Land(m, DropVeil)
  BY DEF OnActive
<1> HIDE DEF out
<1>9. e.kind \in {"rpc_failed", "rpc_succeeded"} => e.lane \in Lanes /\ e.kind # "veil_mode_changed"
  BY DEF IsEvent
<1>10. Sound(s, m, e, out)
  BY <1>2, <1>4, <1>5, <1>6, <1>7, <1>8, <1>9
<1> QED BY <1>10 DEF out

(* What the reducer does while cooling down.                                *)
LEMMA CooldownSound ==
    ASSUME NEW s, IsRoute(s), s.kind = "veil_cooldown", NEW m \in Modes, NEW e, IsEvent(e)
    PROVE  Sound(s, m, e, OnCooldown(s, m, e))
<1>1. e.kind # "proxy_started" => Sound(s, m, e, Land(m, <<>>))
  BY LandSound
<1>2. Sound(s, m, e, Land(m, DropVeil))
  BY LandSound, DropVeil # <<>> DEF DropVeil
<1>3. e.kind = "proxy_started" => Sound(s, m, e, Out(s, DropVeil))
  BY TearDownSound
<1>4. e.kind # "proxy_started" /\ ~(m # "auto" /\ e.kind = "veil_mode_changed") =>
         Sound(s, m, e, Out(s, <<>>))
  BY StaySound
<1>5. \/ e.kind # "proxy_started" /\ OnCooldown(s, m, e) = Land(m, <<>>)
      \/ OnCooldown(s, m, e) = Land(m, DropVeil)
      \/ e.kind = "proxy_started" /\ OnCooldown(s, m, e) = Out(s, DropVeil)
      \/ /\ e.kind # "proxy_started" /\ ~(m # "auto" /\ e.kind = "veil_mode_changed")
         /\ OnCooldown(s, m, e) = Out(s, <<>>)
  BY DEF OnCooldown
<1> QED BY <1>1, <1>2, <1>3, <1>4, <1>5

(* What the reducer does without a network.                                 *)
LEMMA OfflineSound ==
    ASSUME NEW s, IsRoute(s), s.kind = "offline", NEW m \in Modes, NEW e, IsEvent(e)
    PROVE  Sound(s, m, e, OnOffline(s, e))
<1>1. e.kind = "proxy_started" => Sound(s, m, e, Out(s, DropVeil))
  BY TearDownSound
<1>2. e.kind # "proxy_started" => Sound(s, m, e, Out(s, <<>>))
  BY StaySound
<1> QED BY <1>1, <1>2 DEF OnOffline

(* What the reducer does when the network path changes.                     *)
LEMMA PathSound ==
    ASSUME NEW s, IsRoute(s), NEW m \in Modes, NEW e, e.kind = "network_path_changed"
    PROVE  Sound(s, m, e, OnPath(m, e))
<1>1. Sound(s, m, e, Land(m, DropVeil))
  BY LandSound, DropVeil # <<>> DEF DropVeil
<1>2. Sound(s, m, e, Out(Offline, <<STOP, UNROUTE, INVALIDATE>>))
  <2> DEFINE q == <<STOP, UNROUTE, INVALIDATE>>
  <2>1. /\ q \in Seq(Effects) /\ OnlyPort(q, NoPort) /\ HasPort(q)
        /\ Has(q, STOP) /\ Has(q, INVALIDATE)
    BY ListFacts, Zenon
  <2> HIDE DEF q
  <2>2. Sound(s, m, e, Out(Offline, q))
    BY <2>1 DEF Sound, Out, Offline, IsRoute, Kinds, Target
  <2> QED BY <2>2 DEF q
<1> QED BY <1>1, <1>2 DEF OnPath

(* Every rule of the reducer is sound, from every state, under every mode. *)
THEOREM ReduceSound ==
    ASSUME NEW s, IsRoute(s), NEW m \in Modes, NEW e, IsEvent(e)
    PROVE  Sound(s, m, e, Reduce(s, m, e, DefaultConfig, 0))
<1>1. s.kind \in Kinds
  BY DEF IsRoute
<1>2. CASE e.kind = "network_path_changed"
  BY <1>2, PathSound DEF Reduce
<1>3. CASE e.kind # "network_path_changed"
  <2>1. CASE s.kind = "direct"
    BY <1>3, <2>1, DirectSound DEF Reduce
  <2>2. CASE s.kind = "veil_probing"
    BY <1>3, <2>2, ProbingSound DEF Reduce
  <2>3. CASE s.kind = "veil_active"
    BY <1>3, <2>3, ActiveSound DEF Reduce
  <2>4. CASE s.kind = "veil_cooldown"
    BY <1>3, <2>4, CooldownSound DEF Reduce
  <2>5. CASE s.kind = "offline"
    BY <1>3, <2>5, OfflineSound DEF Reduce
  <2> QED BY <1>1, <2>1, <2>2, <2>3, <2>4, <2>5 DEF Kinds
<1> QED BY <1>2, <1>3

-----------------------------------------------------------------------------
(* The platform.                                                            *)

(* What is left of a list once its first effect is performed. *)
LEMMA AfterFirst ==
    ASSUME NEW q \in Seq(Effects), q # <<>>
    PROVE  /\ Head(q) \in Effects /\ Tail(q) \in Seq(Effects)
           /\ \A x : Has(q, x) /\ Head(q) # x => Has(Tail(q), x)
           /\ HasPort(q) /\ Head(q).kind # "set_veil_port" => HasPort(Tail(q))
           /\ \A p : OnlyPort(q, p) =>
                 /\ OnlyPort(Tail(q), p)
                 /\ Head(q).kind = "set_veil_port" => Head(q) = SetPort(p)
           /\ StopThenStart(q) =>
                 StopThenStart(Tail(q)) /\ (Head(q) = STOP => Has(Tail(q), START))
           /\ PortThenDrop(q) =>
                 /\ PortThenDrop(Tail(q))
                 /\ Head(q).kind = "set_veil_port" => Has(Tail(q), INVALIDATE)
<1> DEFINE t == Tail(q)
           h == Head(q)
<1>1. /\ h \in Effects /\ t \in Seq(Effects) /\ Len(t) = Len(q) - 1
      /\ \A i \in 1 .. Len(t) : t[i] = q[i + 1]
  BY HeadTailProperties
<1>2. h = q[1]
  OBVIOUS
<1>3. DOMAIN q = 1 .. Len(q) /\ DOMAIN t = 1 .. Len(t) /\ Len(q) \in Nat /\ Len(q) > 0
  BY <1>1, LenProperties, EmptySeq
<1> HIDE DEF t, h
<1>4. ASSUME NEW i \in DOMAIN q
      PROVE  (i = 1 /\ q[i] = h) \/ (i - 1 \in DOMAIN t /\ t[i - 1] = q[i])
  <2>1. CASE i = 1
    BY <2>1, <1>2
  <2>2. CASE i # 1
    <3>1. i - 1 \in 1 .. Len(t) /\ (i - 1) + 1 = i
      BY <2>2, <1>1, <1>3
    <3> QED BY <3>1, <1>1, <1>3
  <2> QED BY <2>1, <2>2
<1>5. ASSUME NEW i \in DOMAIN t
      PROVE  i + 1 \in DOMAIN q /\ t[i] = q[i + 1] /\ i \in Int
  BY <1>1, <1>3
<1>6. \A x : Has(q, x) /\ h # x => Has(t, x)
  BY <1>4 DEF Has
<1>7. HasPort(q) /\ h.kind # "set_veil_port" => HasPort(t)
  BY <1>4 DEF HasPort
<1>8. \A p : OnlyPort(q, p) => OnlyPort(t, p) /\ (h.kind = "set_veil_port" => h = SetPort(p))
  BY <1>2, <1>3, <1>5 DEF OnlyPort
<1>9. ASSUME NEW i \in DOMAIN q, NEW j \in DOMAIN q, j > i
      PROVE  j - 1 \in DOMAIN t /\ t[j - 1] = q[j] /\ j - 1 > i - 1
  <2>1. i \in Int /\ j \in Int /\ j # 1
    BY <1>3, <1>9
  <2> QED BY <1>4, <1>9, <2>1
<1>10. StopThenStart(q) => StopThenStart(t) /\ (h = STOP => Has(t, START))
  <2> SUFFICES ASSUME StopThenStart(q)
               PROVE  StopThenStart(t) /\ (h = STOP => Has(t, START))
    OBVIOUS
  <2>1. ASSUME h = STOP PROVE Has(t, START)
    <3>1. PICK j \in DOMAIN q : j > 1 /\ q[j] = START
      <4>1. 1 \in DOMAIN q /\ q[1] = STOP
        BY <1>2, <1>3, <2>1
      <4> QED BY <4>1 DEF StopThenStart
    <3>2. j - 1 \in DOMAIN t /\ t[j - 1] = START
      BY <1>3, <1>9, <3>1
    <3> QED BY <3>2 DEF Has
  <2>2. ASSUME NEW i \in DOMAIN t, t[i] = STOP
        PROVE  \E j \in DOMAIN t : j > i /\ t[j] = START
    <3>1. i + 1 \in DOMAIN q /\ q[i + 1] = STOP /\ i \in Int
      BY <1>5, <2>2
    <3>2. PICK j \in DOMAIN q : j > i + 1 /\ q[j] = START
      BY <3>1 DEF StopThenStart
    <3>3. j - 1 \in DOMAIN t /\ t[j - 1] = START
      BY <1>9, <3>1, <3>2
    <3>4. j \in Int /\ j - 1 > i
      BY <1>3, <3>1, <3>2
    <3> QED BY <3>3, <3>4
  <2> QED BY <2>1, <2>2 DEF StopThenStart
<1>11. PortThenDrop(q) =>
          PortThenDrop(t) /\ (h.kind = "set_veil_port" => Has(t, INVALIDATE))
  <2> SUFFICES ASSUME PortThenDrop(q)
               PROVE  PortThenDrop(t) /\ (h.kind = "set_veil_port" => Has(t, INVALIDATE))
    OBVIOUS
  <2>1. ASSUME h.kind = "set_veil_port" PROVE Has(t, INVALIDATE)
    <3>1. PICK j \in DOMAIN q : j > 1 /\ q[j] = INVALIDATE
      BY <1>2, <1>3, <2>1 DEF PortThenDrop
    <3>2. j - 1 \in DOMAIN t /\ t[j - 1] = INVALIDATE
      BY <1>3, <1>9, <3>1
    <3> QED BY <3>2 DEF Has
  <2>2. ASSUME NEW i \in DOMAIN t, t[i].kind = "set_veil_port"
        PROVE  \E j \in DOMAIN t : j > i /\ t[j] = INVALIDATE
    <3>1. i + 1 \in DOMAIN q /\ q[i + 1].kind = "set_veil_port" /\ i \in Int
      BY <1>5, <2>2
    <3>2. PICK j \in DOMAIN q : j > i + 1 /\ q[j] = INVALIDATE
      BY <3>1 DEF PortThenDrop
    <3>3. j - 1 \in DOMAIN t /\ t[j - 1] = INVALIDATE
      BY <1>9, <3>1, <3>2
    <3>4. j \in Int /\ j - 1 > i
      BY <1>3, <3>1, <3>2
    <3> QED BY <3>3, <3>4
  <2> QED BY <2>1, <2>2 DEF PortThenDrop
<1> QED BY <1>1, <1>6, <1>7, <1>8, <1>10, <1>11 DEF t, h

(* Nothing is left to perform. *)
LEMMA NothingLeft == (\A x : ~Has(<<>>, x)) /\ ~HasPort(<<>>)
<1>1. DOMAIN <<>> = {}
  OBVIOUS
<1> QED BY <1>1 DEF Has, HasPort

(* The router handles an event: nothing but mode, route and todo changes,   *)
(* and the report that it hears leaves the queue.                           *)
Handled(e, m) ==
    /\ Handle(e, m) /\ mode' = m
    /\ m # mode => e.kind = "veil_mode_changed"
    /\ UNCHANGED <<veilPort, proxy, starting, channel>>
    /\ \/ reports' = reports
       \/ reports # <<>> /\ e = Head(reports) /\ reports' = Tail(reports)

(* An event that is handled, with the effects it asks for, keeps the        *)
(* invariant.                                                               *)
LEMMA HandledStep ==
    ASSUME TransportInv, NEW m \in Modes, NEW e, IsEvent(e), Handled(e, m)
    PROVE  TransportInv'
<1> DEFINE out == Reduce(route, m, e, DefaultConfig, 0)
<1>0. Typed /\ ModeInv /\ PortInv /\ ChannelInv /\ ProxyInv /\ StartInv
  BY DEF TransportInv
<1>1. Sound(route, m, e, out)
  BY <1>0, ReduceSound DEF Typed
<1>2. /\ todo = <<>> /\ route' = out.state /\ todo' = out.effects /\ mode' = m
      /\ m # mode => e.kind = "veil_mode_changed"
      /\ UNCHANGED <<veilPort, proxy, starting, channel>>
      /\ \/ reports' = reports
         \/ reports # <<>> /\ e = Head(reports) /\ reports' = Tail(reports)
  BY DEF Handled, Handle
<1> HIDE DEF out
<1>3. (\A x : ~Has(todo, x)) /\ ~HasPort(todo)
  BY <1>2, NothingLeft
<1>5. Typed'
  <2>1. IsRoute(route)' /\ todo' \in Seq(Effects)
    BY <1>1, <1>2 DEF Sound, IsRoute
  <2>2. reports' \in Seq(Reports)
    BY <1>0, <1>2, HeadTailProperties DEF Typed
  <2> QED BY <1>0, <1>2, <2>1, <2>2 DEF Typed
<1>6. ModeInv'
  BY <1>0, <1>1, <1>2 DEF ModeInv, Sound
<1>7. PortInv'
  <2>1. veilPort' = Target(route)
    BY <1>0, <1>2, <1>3 DEF PortInv
  <2>2. OnlyPort(todo', Target(route')) /\ (HasPort(todo') \/ Target(route') = Target(route))
    BY <1>1, <1>2 DEF Sound
  <2> QED BY <2>1, <2>2 DEF PortInv, OnlyPort, HasPort, Target
<1>8. ChannelInv'
  <2>1. ASSUME route'.kind = "veil_active"
        PROVE  /\ PortThenDrop(todo')
               /\ Has(todo', INVALIDATE) \/ \A lane \in Lanes : channel'[lane] \in {NoChannel, route'.port}
    <3>1. PortThenDrop(todo') /\ (Has(todo', INVALIDATE) \/ route.kind = "veil_active")
      BY <1>1, <1>2, <2>1 DEF Sound
    <3>2. CASE ~Has(todo', INVALIDATE)
      <4>1. route.kind = "veil_active" /\ \A lane \in Lanes : channel[lane] \in {NoChannel, route.port}
        BY <1>0, <1>3, <3>1, <3>2 DEF ChannelInv
      <4>2. ~HasPort(todo')
        BY <3>1, <3>2 DEF PortThenDrop, HasPort, Has
      <4>3. route'.port = route.port
        BY <1>1, <1>2, <2>1, <4>1, <4>2 DEF Sound, Target
      <4> QED BY <1>2, <3>1, <4>1, <4>3
    <3> QED BY <3>1, <3>2
  <2>2. ASSUME route'.kind = "offline"
        PROVE  Has(todo', INVALIDATE) \/ \A lane \in Lanes : channel'[lane] = NoChannel
    BY <1>0, <1>1, <1>2, <1>3, <2>2 DEF Sound, ChannelInv
  <2>3. ASSUME mode' = "on"
        PROVE  Has(todo', INVALIDATE) \/ \A lane \in Lanes : channel'[lane] # "direct"
    <3>1. CASE mode = "on"
      BY <1>0, <1>2, <1>3, <3>1 DEF ChannelInv
    <3>2. CASE mode # "on" /\ ~Has(todo', INVALIDATE)
      <4>1. route.kind \in {"veil_active", "offline"}
        BY <1>1, <1>2, <2>3, <3>2 DEF Sound
      <4>2. route.kind = "veil_active" => route.port \in Ports /\ "direct" \notin Ports
        BY <1>0, PoolAssumption DEF Typed, IsRoute
      <4> QED BY <1>0, <1>2, <1>3, <4>1, <4>2 DEF ChannelInv, NoChannel
    <3> QED BY <3>1, <3>2
  <2> QED BY <2>1, <2>2, <2>3 DEF ChannelInv, PortThenDrop, Has
<1>9. ProxyInv'
  <2> SUFFICES ASSUME route'.kind # "veil_active", proxy' # NoProxy, ~Has(todo', STOP)
               PROVE  \E i \in DOMAIN reports' : reports'[i].kind = "proxy_started"
    BY DEF ProxyInv, Has
  <2>1. route.kind # "veil_active" /\ e.kind # "proxy_started"
    BY <1>1, <1>2 DEF Sound
  <2>2. PICK i \in DOMAIN reports : reports[i].kind = "proxy_started"
    BY <1>0, <1>2, <1>3, <2>1 DEF ProxyInv
  <2>3. CASE reports # <<>> /\ e = Head(reports) /\ reports' = Tail(reports)
    <3>1. /\ Len(Tail(reports)) = Len(reports) - 1
          /\ \A j \in 1 .. Len(Tail(reports)) : Tail(reports)[j] = reports[j + 1]
      BY <1>0, <2>3, HeadTailProperties DEF Typed
    <3>2. /\ DOMAIN reports = 1 .. Len(reports) /\ Len(reports) \in Nat
          /\ DOMAIN Tail(reports) = 1 .. Len(Tail(reports))
      BY <1>0, <2>3, LenProperties, HeadTailProperties DEF Typed
    <3>3. Head(reports) = reports[1]
      BY <2>3
    <3>4. i # 1
      BY <2>1, <2>2, <2>3, <3>3
    <3>5. i - 1 \in 1 .. Len(Tail(reports)) /\ (i - 1) + 1 = i
      BY <3>1, <3>2, <3>4
    <3>6. i - 1 \in DOMAIN Tail(reports) /\ Tail(reports)[i - 1] = reports[i]
      BY <3>1, <3>2, <3>5
    <3> QED BY <2>2, <2>3, <3>6
  <2> QED BY <1>2, <2>2, <2>3
<1>10. StartInv'
  <2> SUFFICES ASSUME route'.kind = "veil_probing"
               PROVE  /\ StopThenStart(todo')
                      /\ starting' # {} \/ reports' # <<>> \/ Has(todo', START)
    BY DEF StartInv, StopThenStart, Has
  <2>1. /\ StopThenStart(todo')
        /\ \/ Has(todo', START)
           \/ /\ route.kind = "veil_probing"
              /\ e.kind \notin {"proxy_started", "proxy_start_failed"}
    BY <1>1, <1>2 DEF Sound
  <2>2. ASSUME reports # <<>>, e = Head(reports)
        PROVE  e.kind \in {"proxy_started", "proxy_start_failed"}
    <3>1. e \in Reports
      BY <1>0, <2>2, HeadTailProperties DEF Typed
    <3> QED BY <3>1 DEF Reports
  <2>3. route.kind = "veil_probing" => starting # {} \/ reports # <<>>
    BY <1>0, <1>3 DEF StartInv
  <2> QED BY <1>2, <2>1, <2>2, <2>3
<1> QED BY <1>5, <1>6, <1>7, <1>8, <1>9, <1>10 DEF TransportInv

(* The router performs one effect. *)
LEMMA PerformStep ==
    ASSUME TransportInv, Perform
    PROVE  TransportInv'
<1>0. Typed /\ ModeInv /\ PortInv /\ ChannelInv /\ ProxyInv /\ StartInv
  BY DEF TransportInv
<1> DEFINE h == Head(todo)
<1>1. todo # <<>> /\ todo' = Tail(todo) /\ UNCHANGED <<mode, route>>
  BY DEF Perform
<1>2. /\ h \in Effects /\ todo' \in Seq(Effects)
      /\ \A x : Has(todo, x) /\ h # x => Has(todo', x)
      /\ HasPort(todo) /\ h.kind # "set_veil_port" => HasPort(todo')
      /\ \A p : OnlyPort(todo, p) =>
            OnlyPort(todo', p) /\ (h.kind = "set_veil_port" => h = SetPort(p))
      /\ StopThenStart(todo) => StopThenStart(todo') /\ (h = STOP => Has(todo', START))
      /\ PortThenDrop(todo) =>
            PortThenDrop(todo') /\ (h.kind = "set_veil_port" => Has(todo', INVALIDATE))
  BY <1>0, <1>1, AfterFirst DEF Typed
<1> HIDE DEF h
<1>3. ModeInv'
  BY <1>0, <1>1 DEF ModeInv
<1>4. OnlyPort(todo', Target(route))
  BY <1>0, <1>2 DEF PortInv
<1>5. ASSUME h.kind # "set_veil_port", veilPort' = veilPort
      PROVE  PortInv'
  <2>1. HasPort(todo') \/ veilPort = Target(route)
    BY <1>0, <1>2, <1>5 DEF PortInv
  <2> QED BY <1>1, <1>4, <1>5, <2>1 DEF PortInv, OnlyPort, HasPort, Target
<1>6. ASSUME h # INVALIDATE, channel' = channel
      PROVE  ChannelInv'
  <2>1. Has(todo, INVALIDATE) => Has(todo', INVALIDATE)
    BY <1>2, <1>6
  <2>2. PortThenDrop(todo) => PortThenDrop(todo')
    BY <1>2
  <2>3. /\ route.kind = "veil_active" =>
              /\ PortThenDrop(todo')
              /\ \/ Has(todo', INVALIDATE)
                 \/ \A lane \in Lanes : channel[lane] \in {NoChannel, route.port}
        /\ route.kind = "offline" =>
              Has(todo', INVALIDATE) \/ \A lane \in Lanes : channel[lane] = NoChannel
        /\ mode = "on" =>
              Has(todo', INVALIDATE) \/ \A lane \in Lanes : channel[lane] # "direct"
    BY <1>0, <2>1, <2>2 DEF ChannelInv
  <2> QED BY <1>1, <1>6, <2>3 DEF ChannelInv, PortThenDrop, Has
<1>7. ASSUME h # STOP, UNCHANGED <<proxy, reports>>
      PROVE  ProxyInv'
  <2>1. Has(todo, STOP) => Has(todo', STOP)
    BY <1>2, <1>7
  <2>2. route.kind # "veil_active" /\ proxy # NoProxy =>
           Has(todo', STOP) \/ \E i \in DOMAIN reports : reports[i].kind = "proxy_started"
    BY <1>0, <2>1 DEF ProxyInv
  <2> QED BY <1>1, <1>7, <2>2 DEF ProxyInv, Has
<1>8. ASSUME route.kind = "veil_probing" =>
                starting' # {} \/ reports' # <<>> \/ Has(todo', START)
      PROVE  StartInv'
  <2>1. route.kind = "veil_probing" => StopThenStart(todo')
    BY <1>0, <1>2 DEF StartInv
  <2> QED BY <1>1, <1>8, <2>1 DEF StartInv, StopThenStart, Has
<1>9. ASSUME h # START, UNCHANGED <<starting, reports>>
      PROVE  StartInv'
  <2>1. Has(todo, START) => Has(todo', START)
    BY <1>2, <1>9
  <2>2. route.kind = "veil_probing" => starting' # {} \/ reports' # <<>> \/ Has(todo', START)
    BY <1>0, <1>9, <2>1 DEF StartInv
  <2> QED BY <1>8, <2>2
<1>10. ASSUME UNCHANGED <<veilPort, channel, reports>>
       PROVE  Typed'
  BY <1>0, <1>1, <1>2, <1>10 DEF Typed, IsRoute
<1> USE DEF traffic, platform
<1>11. CASE PerformStop
  <2>1. /\ h = STOP /\ proxy' = NoProxy /\ UNCHANGED <<veilPort, channel>>
        /\ reports' \in {reports, <<>>}
    BY <1>11 DEF PerformStop, h
  <2>2. h.kind # "set_veil_port" /\ h # INVALIDATE
    BY <2>1 DEF STOP, INVALIDATE
  <2>3. reports' \in Seq(Reports)
    BY <1>0, <2>1, EmptySeq DEF Typed
  <2>4. Typed'
    BY <1>0, <1>1, <1>2, <2>1, <2>3 DEF Typed, IsRoute
  <2>5. ProxyInv'
    BY <2>1 DEF ProxyInv, NoProxy
  <2>6. StartInv'
    BY <1>0, <1>2, <1>8, <2>1 DEF StartInv
  <2> QED BY <1>3, <1>5, <1>6, <2>1, <2>2, <2>4, <2>5, <2>6 DEF TransportInv
<1>12. CASE PerformStart
  <2>1. /\ h = START /\ starting' # {}
        /\ UNCHANGED <<veilPort, channel, reports, proxy>>
    BY <1>12 DEF PerformStart, h
  <2>2. h.kind # "set_veil_port" /\ h # INVALIDATE /\ h # STOP
    BY <2>1 DEF START, STOP, INVALIDATE
  <2> QED BY <1>3, <1>5, <1>6, <1>7, <1>8, <1>10, <2>1, <2>2 DEF TransportInv
<1>13. CASE PerformSetPort
  <2>1. /\ h.kind = "set_veil_port" /\ veilPort' = h.port
        /\ UNCHANGED <<channel, reports, proxy, starting>>
    BY <1>13 DEF PerformSetPort, h
  <2>2. h # START /\ h # STOP /\ h # INVALIDATE
    BY <2>1 DEF START, STOP, INVALIDATE
  <2>3. h = SetPort(Target(route))
    BY <1>0, <1>2, <2>1 DEF PortInv
  <2>4. veilPort' = Target(route)
    BY <2>1, <2>3 DEF SetPort
  <2>5. Target(route) \in Ports \cup {NoPort}
    BY <1>0 DEF Typed, IsRoute, Target
  <2>6. Typed'
    BY <1>0, <1>1, <1>2, <2>1, <2>4, <2>5 DEF Typed, IsRoute
  <2>7. PortInv'
    BY <1>1, <1>4, <2>4 DEF PortInv, OnlyPort, Target
  <2> QED BY <1>3, <1>6, <1>7, <1>9, <2>1, <2>2, <2>6, <2>7 DEF TransportInv
<1>14. CASE PerformInvalidate
  <2>1. /\ h = INVALIDATE /\ channel' = [lane \in Lanes |-> NoChannel]
        /\ UNCHANGED <<veilPort, reports, proxy, starting>>
    BY <1>14 DEF PerformInvalidate, h
  <2>2. h.kind # "set_veil_port" /\ h # START /\ h # STOP
    BY <2>1 DEF START, STOP, INVALIDATE
  <2>3. Typed'
    BY <1>0, <1>1, <1>2, <2>1 DEF Typed, IsRoute
  <2>4. route.kind = "veil_active" => PortThenDrop(todo')
    BY <1>0, <1>2 DEF ChannelInv
  <2>5. ChannelInv'
    BY <1>1, <2>1, <2>4 DEF ChannelInv, PortThenDrop, NoChannel
  <2> QED BY <1>3, <1>5, <1>7, <1>9, <2>1, <2>2, <2>3, <2>5 DEF TransportInv
<1>15. CASE PerformDemote \/ PerformSchedule
  <2>1. /\ h.kind \in {"demote_relay", "schedule_cooldown_end"}
        /\ UNCHANGED <<veilPort, channel, reports, proxy, starting>>
    BY <1>15 DEF PerformDemote, PerformSchedule, h
  <2>2. h.kind # "set_veil_port" /\ h # START /\ h # STOP /\ h # INVALIDATE
    BY <2>1 DEF START, STOP, INVALIDATE
  <2> QED BY <1>3, <1>5, <1>6, <1>7, <1>9, <1>10, <2>1, <2>2 DEF TransportInv
<1> QED BY <1>11, <1>12, <1>13, <1>14, <1>15 DEF Perform

(* A start ends: the router is to hear of it. *)
LEMMA EndOfStartStep ==
    ASSUME TransportInv, NEW r \in Relays,
           FailStart(r) \/ \E port \in Ports : ComeUp(r, port)
    PROVE  TransportInv'
<1>0. Typed /\ ModeInv /\ PortInv /\ ChannelInv /\ ProxyInv /\ StartInv
  BY DEF TransportInv
<1>1. PICK rep \in Reports :
        /\ reports' = Append(reports, rep)
        /\ UNCHANGED <<mode, route, todo, veilPort, channel>>
        /\ proxy' = proxy \/ rep.kind = "proxy_started"
  <2>1. CASE FailStart(r)
    <3>1. [kind |-> "proxy_start_failed"] \in Reports
      BY DEF Reports
    <3> QED BY <2>1, <3>1 DEF FailStart, traffic
  <2>2. ASSUME NEW port \in Ports, ComeUp(r, port)
        PROVE  \E rep \in Reports :
                 /\ reports' = Append(reports, rep)
                 /\ UNCHANGED <<mode, route, todo, veilPort, channel>>
                 /\ proxy' = proxy \/ rep.kind = "proxy_started"
    <3> DEFINE rep == [kind |-> "proxy_started", relay |-> r, port |-> port]
    <3>1. rep \in Reports /\ rep.kind = "proxy_started"
      BY DEF Reports
    <3>2. reports' = Append(reports, rep) /\ UNCHANGED <<mode, route, todo, veilPort, channel>>
      BY <2>2 DEF ComeUp, traffic
    <3> QED BY <3>1, <3>2
  <2> QED BY <2>1, <2>2
<1>2. /\ reports' \in Seq(Reports) /\ reports' # <<>>
      /\ Len(reports') = Len(reports) + 1
      /\ \A i \in 1 .. Len(reports) : reports'[i] = reports[i]
      /\ reports'[Len(reports) + 1] = rep
  BY <1>0, <1>1, AppendProperties DEF Typed
<1>3. /\ DOMAIN reports = 1 .. Len(reports) /\ DOMAIN reports' = 1 .. Len(reports')
      /\ Len(reports) \in Nat
  BY <1>0, <1>2, LenProperties DEF Typed
<1>4. ProxyInv'
  <2>1. CASE rep.kind = "proxy_started"
    <3>1. Len(reports) + 1 \in DOMAIN reports'
      BY <1>2, <1>3
    <3> QED BY <1>2, <2>1, <3>1 DEF ProxyInv
  <2>2. CASE proxy' = proxy
    <3>1. \A i \in DOMAIN reports : i \in DOMAIN reports' /\ reports'[i] = reports[i]
      BY <1>2, <1>3
    <3> QED BY <1>0, <1>1, <2>2, <3>1 DEF ProxyInv, Has
  <2> QED BY <1>1, <2>1, <2>2
<1>5. StartInv'
  BY <1>0, <1>1, <1>2 DEF StartInv, StopThenStart
<1> QED BY <1>0, <1>1, <1>2, <1>4, <1>5
        DEF TransportInv, Typed, IsRoute, ModeInv, PortInv, OnlyPort, HasPort, Target,
            ChannelInv, PortThenDrop, Has

(* A lane opens a channel. *)
LEMMA OpenStep ==
    ASSUME TransportInv, NEW lane \in Lanes, OpenChannel(lane)
    PROVE  TransportInv'
<1>0. Typed /\ ModeInv /\ PortInv /\ ChannelInv /\ ProxyInv /\ StartInv
  BY DEF TransportInv
<1>1. /\ route.kind # "offline" /\ (veilPort = NoPort => mode # "on")
      /\ channel' = [channel EXCEPT ![lane] = IF veilPort = NoPort THEN "direct" ELSE veilPort]
      /\ UNCHANGED <<mode, route, todo, veilPort, proxy, starting, reports>>
  BY DEF OpenChannel, platform
<1>2. Typed'
  BY <1>0, <1>1 DEF Typed, IsRoute
<1>3. \A l \in Lanes : channel'[l] = IF l = lane
                                     THEN IF veilPort = NoPort THEN "direct" ELSE veilPort
                                     ELSE channel[l]
  BY <1>0, <1>1 DEF Typed
<1>4. ASSUME route.kind = "veil_active", ~Has(todo, INVALIDATE)
      PROVE  \A l \in Lanes : channel'[l] \in {NoChannel, route.port}
  <2>1. \A l \in Lanes : channel[l] \in {NoChannel, route.port}
    BY <1>0, <1>4 DEF ChannelInv
  <2>2. ~HasPort(todo)
    BY <1>0, <1>4 DEF ChannelInv, PortThenDrop, HasPort, Has
  <2>3. veilPort = route.port /\ route.port # NoPort
    BY <1>0, <1>4, <2>2, PoolAssumption DEF PortInv, Target, Typed, IsRoute
  <2> QED BY <1>3, <2>1, <2>3
<1>5. ASSUME mode = "on", ~Has(todo, INVALIDATE)
      PROVE  \A l \in Lanes : channel'[l] # "direct"
  <2>1. \A l \in Lanes : channel[l] # "direct"
    BY <1>0, <1>5 DEF ChannelInv
  <2>2. veilPort # NoPort /\ veilPort # "direct"
    BY <1>0, <1>1, <1>5, PoolAssumption DEF Typed
  <2> QED BY <1>3, <2>1, <2>2
<1>6. ChannelInv'
  BY <1>0, <1>1, <1>4, <1>5 DEF ChannelInv, PortThenDrop, Has
<1> QED BY <1>0, <1>1, <1>2, <1>6
        DEF TransportInv, ModeInv, PortInv, OnlyPort, HasPort, Target, ProxyInv, StartInv,
            StopThenStart, Has

-----------------------------------------------------------------------------
(* The invariant.                                                           *)

(* The invariant holds at the start.                                        *)
LEMMA InitInv == Init => TransportInv
<1> SUFFICES ASSUME Init PROVE TransportInv
  OBVIOUS
<1>1. /\ mode \in Modes /\ veilPort = NoPort /\ proxy = NoProxy /\ reports = <<>>
      /\ channel = [lane \in Lanes |-> NoChannel]
  BY DEF Init
<1>2. route = IF mode = "on" THEN Probing ELSE Direct(0)
  BY DEF Init, Initial
<1>3. IsRoute(route) /\ Target(route) = NoPort
  BY <1>2 DEF IsRoute, Target, Kinds, Probing, Direct
<1>4. reports \in Seq(Reports)
  BY <1>1, EmptySeq
<1>5. todo = (IF mode = "on" THEN <<START>> ELSE <<>>)
  BY DEF Init
<1>6. LET q == <<START>> IN
        q \in Seq(Effects) /\ (\A p : OnlyPort(q, p)) /\ Has(q, START) /\ StopThenStart(q)
  <2> DEFINE q == <<START>>
  <2>1. q \in Seq(Effects)
    BY DEF Effects
  <2>2. DOMAIN q = 1 .. 1 /\ q[1] = START
    OBVIOUS
  <2> HIDE DEF q
  <2>3. (\A p : OnlyPort(q, p)) /\ Has(q, START) /\ StopThenStart(q)
    BY <2>2 DEF OnlyPort, Has, StopThenStart, START, STOP
  <2> QED BY <2>1, <2>3 DEF q
<1>7. <<>> \in Seq(Effects) /\ \A p : OnlyPort(<<>>, p)
  BY ListFacts, Zenon
<1>8. /\ todo \in Seq(Effects) /\ OnlyPort(todo, NoPort)
      /\ mode = "on" => Has(todo, START) /\ StopThenStart(todo)
  BY <1>5, <1>6, <1>7, Zenon
<1>9. Typed
  BY <1>1, <1>3, <1>4, <1>8 DEF Typed
<1>10. route.kind = IF mode = "on" THEN "veil_probing" ELSE "direct"
  BY <1>2 DEF Probing, Direct
<1>11. ModeInv /\ ProxyInv
  BY <1>1, <1>10 DEF ModeInv, ProxyInv, Modes
<1>12. PortInv /\ ChannelInv /\ StartInv
  BY <1>1, <1>3, <1>8, <1>10 DEF PortInv, ChannelInv, StartInv, NoChannel
<1> QED BY <1>9, <1>11, <1>12 DEF TransportInv

(* The router hears how a start ended. *)
LEMMA HearStep ==
    ASSUME TransportInv, HearReport
    PROVE  TransportInv'
<1>1. mode \in Modes /\ reports \in Seq(Reports) /\ reports # <<>>
  BY DEF TransportInv, Typed, HearReport
<1>2. Head(reports) \in Reports
  BY <1>1, HeadTailProperties
<1>3. IsEvent(Head(reports))
  BY <1>2 DEF IsEvent, Reports
<1>4. Handled(Head(reports), mode)
  BY <1>1 DEF Handled, HearReport, platform, traffic
<1> QED BY <1>1, <1>3, <1>4, HandledStep

(* The router hears of anything but a start: every other event it handles   *)
(* leaves the proxy, the port and the channels to the effects.              *)
LEMMA OtherEventStep ==
    ASSUME TransportInv,
           \/ TimerFires \/ ManualReset \/ SystemEvent \/ StreamEvent
           \/ \E m \in Modes : ChangeMode(m)
           \/ \E reachable \in BOOLEAN : ChangePath(reachable)
           \/ \E lane \in Lanes :
                 \/ RpcSucceeds(lane) \/ FrontBlocked(lane)
                 \/ \E foreground \in BOOLEAN : RpcFails(lane, foreground)
    PROVE  TransportInv'
<1>0. mode \in Modes
  BY DEF TransportInv, Typed
<1> DEFINE Rest == UNCHANGED <<veilPort, proxy, starting, channel, reports>>
<1>1. ASSUME NEW e, IsEvent(e), Handle(e, mode), UNCHANGED mode, Rest
      PROVE  TransportInv'
  <2>1. Handled(e, mode)
    BY <1>1 DEF Handled
  <2> QED BY <1>0, <1>1, <2>1, HandledStep
<1>2. Meddle => Rest
  BY DEF Meddle, platform, traffic
<1>3. CASE TimerFires
  <2>1. Handle([kind |-> "cooldown_elapsed"], mode) /\ UNCHANGED mode /\ Rest
    BY <1>3 DEF TimerFires, traffic
  <2>2. IsEvent([kind |-> "cooldown_elapsed"])
    BY DEF IsEvent
  <2> QED BY <1>1, <2>1, <2>2
<1>4. CASE ManualReset
  <2>1. Handle([kind |-> "manual_reset"], mode) /\ UNCHANGED mode /\ Rest
    BY <1>2, <1>4 DEF ManualReset
  <2>2. IsEvent([kind |-> "manual_reset"])
    BY DEF IsEvent
  <2> QED BY <1>1, <2>1, <2>2
<1>5. CASE SystemEvent
  <2>1. PICK kind \in {"background_wake", "veil_config_changed"} : Handle([kind |-> kind], mode)
    BY <1>5 DEF SystemEvent
  <2>2. UNCHANGED mode /\ Rest
    BY <1>2, <1>5 DEF SystemEvent
  <2>3. IsEvent([kind |-> kind])
    BY DEF IsEvent
  <2> QED BY <1>1, <2>1, <2>2, <2>3
<1>6. CASE StreamEvent
  <2>1. UNCHANGED mode /\ Rest
    BY <1>2, <1>6 DEF StreamEvent
  <2>2. PICK e : Handle(e, mode) /\ e.kind \in {"stream_opened", "stream_failed"}
    <3>1. CASE Handle([kind |-> "stream_opened", via |-> Via(channel["auth"])], mode)
      BY <3>1
    <3>2. ASSUME NEW failure,
                 Handle([kind |-> "stream_failed", failure |-> failure,
                         via |-> Via(channel["auth"])], mode)
          PROVE  \E e : Handle(e, mode) /\ e.kind \in {"stream_opened", "stream_failed"}
      BY <3>2
    <3> QED BY <1>6, <3>1, <3>2 DEF StreamEvent
  <2>3. IsEvent(e)
    BY <2>2 DEF IsEvent
  <2> QED BY <1>1, <2>1, <2>2, <2>3
<1>7. ASSUME NEW m \in Modes, ChangeMode(m)
      PROVE  TransportInv'
  <2> DEFINE e == [kind |-> "veil_mode_changed"]
  <2>1. IsEvent(e) /\ e.kind = "veil_mode_changed"
    BY DEF IsEvent
  <2>2. Handle(e, m) /\ mode' = m /\ Rest
    BY <1>2, <1>7 DEF ChangeMode
  <2> HIDE DEF e
  <2>3. Handled(e, m)
    BY <2>1, <2>2 DEF Handled
  <2> QED BY <2>1, <2>3, HandledStep
<1>8. ASSUME NEW reachable \in BOOLEAN, ChangePath(reachable)
      PROVE  TransportInv'
  <2> DEFINE e == [kind |-> "network_path_changed", reachable |-> reachable]
  <2>1. Handle(e, mode) /\ UNCHANGED mode /\ Rest
    BY <1>2, <1>8 DEF ChangePath
  <2>2. IsEvent(e)
    BY DEF IsEvent
  <2> QED BY <1>1, <2>1, <2>2
<1>9. ASSUME NEW lane \in Lanes, RpcSucceeds(lane)
      PROVE  TransportInv'
  <2> DEFINE e == [kind |-> "rpc_succeeded", via |-> Via(rpc[lane]), lane |-> lane]
  <2>1. Handle(e, mode) /\ UNCHANGED mode /\ Rest
    BY <1>9 DEF RpcSucceeds, platform
  <2>2. IsEvent(e)
    BY DEF IsEvent
  <2> QED BY <1>1, <2>1, <2>2
<1>10. ASSUME NEW lane \in Lanes, FrontBlocked(lane)
       PROVE  TransportInv'
  <2>1. PICK failure \in FrontFailures :
          Handle([kind |-> "rpc_failed", failure |-> failure, via |-> "veil",
                  foreground |-> TRUE, lane |-> lane], mode)
    BY <1>10 DEF FrontBlocked
  <2>2. UNCHANGED mode /\ Rest
    BY <1>2, <1>10 DEF FrontBlocked
  <2>3. IsEvent([kind |-> "rpc_failed", failure |-> failure, via |-> "veil",
                 foreground |-> TRUE, lane |-> lane])
    BY DEF IsEvent
  <2> QED BY <1>1, <2>1, <2>2, <2>3
<1>11. ASSUME NEW lane \in Lanes, NEW foreground \in BOOLEAN, RpcFails(lane, foreground)
       PROVE  TransportInv'
  <2>1. PICK failure \in Failures(lane) :
          Handle([kind |-> "rpc_failed", failure |-> failure, via |-> Via(rpc[lane]),
                  foreground |-> foreground, lane |-> lane], mode)
    BY <1>11 DEF RpcFails
  <2>2. UNCHANGED mode /\ Rest
    BY <1>11 DEF RpcFails, platform
  <2>3. IsEvent([kind |-> "rpc_failed", failure |-> failure, via |-> Via(rpc[lane]),
                 foreground |-> foreground, lane |-> lane])
    BY DEF IsEvent
  <2> QED BY <1>1, <2>1, <2>2, <2>3
<1> QED BY <1>3, <1>4, <1>5, <1>6, <1>7, <1>8, <1>9, <1>10, <1>11

(* Steps that touch nothing the invariant speaks of. *)
LEMMA QuietStep ==
    ASSUME TransportInv, UNCHANGED vars \/ \E lane \in Lanes : IssueRpc(lane)
    PROVE  TransportInv'
<1>1. UNCHANGED <<mode, route, todo, reports, veilPort, proxy, starting, channel>>
  BY DEF vars, IssueRpc, platform, traffic
<1> QED BY <1>1
        DEF TransportInv, Typed, IsRoute, ModeInv, PortInv, OnlyPort, HasPort, Target,
            ChannelInv, PortThenDrop, Has, ProxyInv, StartInv, StopThenStart

(* Every step keeps the invariant.                                          *)
LEMMA InvStep == TransportInv /\ [Next]_vars => TransportInv'
<1> SUFFICES ASSUME TransportInv, [Next]_vars PROVE TransportInv'
  OBVIOUS
<1>1. CASE UNCHANGED vars
  BY <1>1, QuietStep
<1>2. CASE Perform
  BY <1>2, PerformStep
<1>3. CASE HearReport
  BY <1>3, HearStep
<1>4. ASSUME NEW r \in Relays, FailStart(r) \/ \E port \in Ports : ComeUp(r, port)
      PROVE  TransportInv'
  BY <1>4, EndOfStartStep
<1>5. ASSUME NEW lane \in Lanes, OpenChannel(lane)
      PROVE  TransportInv'
  BY <1>5, OpenStep
<1>6. ASSUME NEW lane \in Lanes, IssueRpc(lane)
      PROVE  TransportInv'
  BY <1>6, QuietStep
<1>7. CASE \/ TimerFires \/ ManualReset \/ SystemEvent \/ StreamEvent
           \/ \E m \in Modes : ChangeMode(m)
           \/ \E reachable \in BOOLEAN : ChangePath(reachable)
           \/ \E lane \in Lanes :
                 \/ RpcSucceeds(lane) \/ FrontBlocked(lane)
                 \/ \E foreground \in BOOLEAN : RpcFails(lane, foreground)
  BY <1>7, OtherEventStep
<1> QED BY <1>1, <1>2, <1>3, <1>4, <1>5, <1>6, <1>7, Zenon DEF Next

(* Whatever the interleaving of events, effects, starts and RPCs, what the  *)
(* platform holds is what the route asks for, or an effect or a report that *)
(* is still to be handled puts it right.                                    *)
THEOREM EffectsPutItRight == Spec => []TransportInv
BY InitInv, InvStep, PTL DEF Spec

-----------------------------------------------------------------------------
(* The mode `on` never lands on the direct path, and once the effects are   *)
(* performed no direct channel is left (the `on` rows of the cases).        *)
THEOREM OnNeverDirect == Spec => []NeverDirectWhenOn
<1>1. TransportInv => NeverDirectWhenOn
  <2> SUFFICES ASSUME TransportInv, mode = "on"
               PROVE  /\ route.kind # "direct"
                      /\ todo = <<>> => \A lane \in Lanes : channel[lane] # "direct"
    BY DEF NeverDirectWhenOn
  <2>1. route.kind # "direct"
    BY DEF TransportInv, ModeInv
  <2>2. ASSUME todo = <<>>
        PROVE  \A lane \in Lanes : channel[lane] # "direct"
    <3>1. ~Has(todo, INVALIDATE)
      BY <2>2, NothingLeft, Zenon
    <3> QED BY <3>1 DEF TransportInv, ChannelInv
  <2> QED BY <2>1, <2>2
<1> QED BY <1>1, EffectsPutItRight, PTL

(* gRPC is routed through the port of the route, and through none when VEIL *)
(* is not active.                                                           *)
THEOREM PortIsTheRoutes == Spec => []PortFollowsRoute
<1>1. TransportInv => PortFollowsRoute
  <2> SUFFICES ASSUME TransportInv, todo = <<>>
               PROVE  veilPort = Target(route)
    BY DEF PortFollowsRoute, Target
  <2>1. ~HasPort(todo)
    BY NothingLeft, Zenon
  <2> QED BY <2>1 DEF TransportInv, PortInv
<1> QED BY <1>1, EffectsPutItRight, PTL

(* While VEIL is active no lane keeps a channel from before. *)
THEOREM ChannelsAreTheRoutes == Spec => []ChannelsFollowPort
<1>1. TransportInv => ChannelsFollowPort
  <2> SUFFICES ASSUME TransportInv, todo = <<>>, route.kind = "veil_active"
               PROVE  \A lane \in Lanes : channel[lane] \in {NoChannel, veilPort}
    BY DEF ChannelsFollowPort
  <2>1. ~HasPort(todo) /\ ~Has(todo, INVALIDATE)
    BY NothingLeft, Zenon
  <2>2. veilPort = route.port
    BY <2>1 DEF TransportInv, PortInv, Target
  <2> QED BY <2>1, <2>2 DEF TransportInv, ChannelInv
<1> QED BY <1>1, EffectsPutItRight, PTL

(* A late proxy start never leaves a proxy running that nobody uses. *)
THEOREM LateProxyIsStopped == Spec => []NoOrphanProxy
<1>1. TransportInv => NoOrphanProxy
  <2> SUFFICES ASSUME TransportInv, todo = <<>>, reports = <<>>,
                      route.kind \notin {"veil_active", "veil_probing"}
               PROVE  proxy = NoProxy
    BY DEF NoOrphanProxy
  <2>1. ~Has(todo, STOP)
    BY NothingLeft, Zenon
  <2>2. DOMAIN reports = {}
    OBVIOUS
  <2> QED BY <2>1, <2>2 DEF TransportInv, ProxyInv
<1> QED BY <1>1, EffectsPutItRight, PTL

(* The client never probes with no start asked for, under way or to be      *)
(* heard of.                                                                *)
THEOREM ProbingIsStarting == Spec => []ProbingHasStart
<1>1. TransportInv => ProbingHasStart
  BY DEF TransportInv, StartInv, ProbingHasStart, Has
<1> QED BY <1>1, EffectsPutItRight, PTL

(* Off means off, whatever reports come late. *)
THEOREM OffIsOff == Spec => []OffLeavesVeil
<1>1. TransportInv => OffLeavesVeil
  BY DEF TransportInv, ModeInv, OffLeavesVeil
<1> QED BY <1>1, EffectsPutItRight, PTL

=============================================================================
