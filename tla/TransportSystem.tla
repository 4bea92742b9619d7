-------------------------- MODULE TransportSystem --------------------------
(***************************************************************************)
(* The transport reducer in the platform that runs it.  The router handles *)
(* one event at a time: Reduce gives the next route, and its effects are   *)
(* performed one by one before the next event.  Around it, concurrently:   *)
(* RPCs open channels, are issued and complete late on two lanes; proxy    *)
(* starts finish or fail late; the cooldown timer fires; the person, the   *)
(* network and the operating system interfere.                             *)
(*                                                                         *)
(* The platform is not in the repository: it is modelled from the effects  *)
(* and events the cases name and from the comments on them.  Time is left  *)
(* out (now = 0): a timer may fire at any moment once it is set.           *)
(***************************************************************************)
EXTENDS TransportRoute, FiniteSets

CONSTANTS
    Relays,         \* the fronts in the pool
    Carries,        \* Carries[r]: the lanes front r really carries
    Ports,          \* local ports a proxy may come up on
    LateResults,    \* may an RPC or a proxy start that was cancelled still report its end?
    MaxFails,       \* bound: direct failures counted while escalation is not allowed
    MaxMeddling     \* bound: events from the person, the network and the system

ASSUME PoolAssumption ==
    /\ Carries \in [Relays -> SUBSET Lanes]
    /\ NoPort \notin Ports /\ "direct" \notin Ports
    /\ LateResults \in BOOLEAN
ASSUME BoundsAssumption == {MaxFails, MaxMeddling} \subseteq Nat

VARIABLES
    mode,       \* the person's choice: auto, on or off
    route,      \* the reducer's state
    todo,       \* effects of the last event still to be performed
    veilPort,   \* the port gRPC is routed through, or NoPort
    proxy,      \* the local proxy: NoProxy, or its relay and port
    starting,   \* fronts a proxy start is under way on
    reports,    \* outcomes of starts the router has not heard yet, in order
    demoted,    \* fronts the pool holds a failure against, the latest last
    timer,      \* is a cooldown timer pending?
    channel,    \* channel[lane]: the cached gRPC channel: none, direct or a port
    rpc,        \* rpc[lane]: how the RPC in flight travels, or idle
    meddled     \* how many events of MaxMeddling have happened

platform == <<veilPort, proxy, starting, demoted, timer>>
traffic == <<channel, rpc>>
vars == <<mode, route, todo, platform, reports, traffic, meddled>>

NoProxy == [relay |-> "no relay", port |-> NoPort]
NoChannel == "no channel"
Idle == "idle"
Via(how) == IF how = "direct" THEN "direct" ELSE "veil"

Blamed == {demoted[i] : i \in DOMAIN demoted}
Without(r) == SelectSeq(demoted, LAMBDA x : x # r)

EffectKinds == {"request_proxy_stop", "request_proxy_start", "invalidate_grpc_client",
                "set_veil_port", "demote_relay", "schedule_cooldown_end"}

SoftCounts == [Lanes -> 0 .. DefaultConfig.veil_soft_fail_threshold - 1]

TypeOK ==
    /\ mode \in Modes
    /\ route \in {Direct(f) : f \in 0 .. MaxFails + 1} \cup {Probing, Offline}
                  \cup {Cooldown(DefaultConfig.veil_cooldown_ms)}
                  \cup {Active(r, p, 0, s) : r \in Relays, p \in Ports, s \in SoftCounts}
    /\ \A i \in DOMAIN todo : todo[i].kind \in EffectKinds
    /\ veilPort \in Ports \cup {NoPort}
    /\ proxy \in [relay : Relays, port : Ports] \cup {NoProxy}
    /\ starting \subseteq Relays /\ Blamed \subseteq Relays
    /\ \A i \in DOMAIN reports : reports[i].kind \in {"proxy_started", "proxy_start_failed"}
    /\ timer \in BOOLEAN
    /\ channel \in [Lanes -> Ports \cup {"direct", NoChannel}]
    /\ rpc \in [Lanes -> Ports \cup {"direct", Idle}]
    /\ meddled \in 0 .. MaxMeddling

(* The client starts with the network up; on `on` it asks for a proxy. *)
Init ==
    /\ mode \in Modes
    /\ route = Initial(mode, TRUE)
    /\ todo = IF mode = "on" THEN <<START>> ELSE <<>>
    /\ veilPort = NoPort /\ proxy = NoProxy
    /\ starting = {} /\ reports = <<>> /\ demoted = <<>> /\ timer = FALSE
    /\ channel = [lane \in Lanes |-> NoChannel]
    /\ rpc = [lane \in Lanes |-> Idle]
    /\ meddled = 0

-----------------------------------------------------------------------------
(* The router takes one event, once the effects of the last are performed.  *)
Handle(e, m) ==
    LET out == Reduce(route, m, e, DefaultConfig, 0) IN
    /\ todo = <<>>
    /\ route' = out.state
    /\ todo' = out.effects

(* A start prefers a front with no failure held against it; when there is   *)
(* none it prefers another than the front blamed last.                      *)
Candidates ==
    IF Relays \ Blamed # {} THEN Relays \ Blamed
    ELSE IF Cardinality(Relays) = 1 THEN Relays
    ELSE Relays \ {demoted[Len(demoted)]}

(* Perform the next effect.  Stopping the proxy also cancels the starts     *)
(* under way; one may already be too far along, and then ends all the same. *)
PerformStop ==
    /\ Head(todo) = STOP
    /\ proxy' = NoProxy
    /\ starting' \in SUBSET {r \in starting : LateResults}
    /\ reports' = IF LateResults THEN reports ELSE <<>>
    /\ UNCHANGED <<veilPort, demoted, timer, traffic>>

PerformStart ==
    /\ Head(todo) = START
    /\ \E r \in Candidates : starting' = starting \cup {r}
    /\ UNCHANGED <<veilPort, proxy, demoted, timer, reports, traffic>>

PerformSetPort ==
    /\ Head(todo).kind = "set_veil_port"
    /\ veilPort' = Head(todo).port
    /\ UNCHANGED <<proxy, starting, demoted, timer, reports, traffic>>

(* Dropping the gRPC client closes its channels and cancels their RPCs; the *)
(* result of one may already be on its way to the router.                   *)
PerformInvalidate ==
    /\ Head(todo) = INVALIDATE
    /\ channel' = [lane \in Lanes |-> NoChannel]
    /\ \E late \in SUBSET {lane \in Lanes : LateResults} :
          rpc' = [lane \in Lanes |-> IF lane \in late THEN rpc[lane] ELSE Idle]
    /\ UNCHANGED <<platform, reports>>

PerformDemote ==
    /\ Head(todo).kind = "demote_relay"
    /\ demoted' = Append(Without(Head(todo).relay), Head(todo).relay)
    /\ UNCHANGED <<veilPort, proxy, starting, timer, reports, traffic>>

PerformSchedule ==
    /\ Head(todo).kind = "schedule_cooldown_end"
    /\ timer' = TRUE
    /\ UNCHANGED <<veilPort, proxy, starting, demoted, reports, traffic>>

Perform ==
    /\ todo # <<>>
    /\ todo' = Tail(todo)
    /\ \/ PerformStop \/ PerformStart \/ PerformSetPort
       \/ PerformInvalidate \/ PerformDemote \/ PerformSchedule
    /\ UNCHANGED <<mode, route, meddled>>

-----------------------------------------------------------------------------
(* A start under way comes up: it replaces any proxy still running, and a   *)
(* start that comes up on a front forgives it.                              *)
ComeUp(r, port) ==
    /\ r \in starting
    /\ port # proxy.port
    /\ starting' = starting \ {r}
    /\ proxy' = [relay |-> r, port |-> port]
    /\ demoted' = Without(r)
    /\ reports' = Append(reports, [kind |-> "proxy_started", relay |-> r, port |-> port])
    /\ UNCHANGED <<mode, route, todo, veilPort, timer, traffic, meddled>>

(* A start under way fails. *)
FailStart(r) ==
    /\ r \in starting
    /\ starting' = starting \ {r}
    /\ reports' = Append(reports, [kind |-> "proxy_start_failed"])
    /\ UNCHANGED <<mode, route, todo, veilPort, proxy, demoted, timer, traffic, meddled>>

(* The router hears of the outcome of a start. *)
HearReport ==
    /\ reports # <<>>
    /\ Handle(Head(reports), mode)
    /\ reports' = Tail(reports)
    /\ UNCHANGED <<mode, platform, traffic, meddled>>

(* The cooldown timer fires. *)
TimerFires ==
    /\ timer
    /\ Handle([kind |-> "cooldown_elapsed"], mode)
    /\ timer' = FALSE
    /\ UNCHANGED <<mode, veilPort, proxy, starting, demoted, reports, traffic, meddled>>

-----------------------------------------------------------------------------
(* A lane opens the channel it caches: through the proxy's port if one is   *)
(* routed, else directly - but never directly under `on`: with no front up  *)
(* the client is offline.                                                   *)
OpenChannel(lane) ==
    /\ channel[lane] = NoChannel
    /\ route.kind # "offline"
    /\ veilPort = NoPort => mode # "on"
    /\ channel' = [channel EXCEPT ![lane] = IF veilPort = NoPort THEN "direct" ELSE veilPort]
    /\ UNCHANGED <<mode, route, todo, platform, reports, rpc, meddled>>

(* A lane issues an RPC on its cached channel. *)
IssueRpc(lane) ==
    /\ rpc[lane] = Idle /\ channel[lane] # NoChannel
    /\ rpc' = [rpc EXCEPT ![lane] = channel[lane]]
    /\ UNCHANGED <<mode, route, todo, platform, reports, channel, meddled>>

(* The failures an RPC on this lane can meet: on the direct path the        *)
(* network's or the server's; through a port no proxy listens on, a stale   *)
(* proxy; through a front that does not carry the lane, a timeout; through  *)
(* one that does, only the server's own (a front that is blocked as such is *)
(* FrontBlocked).                                                           *)
Failures(lane) ==
    IF rpc[lane] = "direct" THEN {"transport_unknown", "application_error"}
    ELSE IF rpc[lane] # proxy.port THEN {"stale_local_proxy"}
    ELSE IF lane \notin Carries[proxy.relay] THEN {"stream_timeout"}
    ELSE {"application_error"}

CanSucceed(lane) ==
    \/ rpc[lane] = "direct"
    \/ rpc[lane] = proxy.port /\ lane \in Carries[proxy.relay]

(* While escalation is not allowed the streak would grow for ever. *)
Bounded == route.kind = "direct" => route.fails < MaxFails

RpcSucceeds(lane) ==
    /\ rpc[lane] # Idle /\ CanSucceed(lane)
    /\ Handle([kind |-> "rpc_succeeded", via |-> Via(rpc[lane]), lane |-> lane], mode)
    /\ rpc' = [rpc EXCEPT ![lane] = Idle]
    /\ UNCHANGED <<mode, platform, reports, channel, meddled>>

RpcFails(lane, foreground) ==
    /\ rpc[lane] # Idle /\ Bounded
    /\ \E failure \in Failures(lane) :
          Handle([kind |-> "rpc_failed", failure |-> failure, via |-> Via(rpc[lane]),
                  foreground |-> foreground, lane |-> lane], mode)
    /\ rpc' = [rpc EXCEPT ![lane] = Idle]
    /\ UNCHANGED <<mode, platform, reports, channel, meddled>>

-----------------------------------------------------------------------------
(* Events from outside that no fairness makes happen. *)
Meddle ==
    /\ meddled < MaxMeddling
    /\ meddled' = meddled + 1
    /\ UNCHANGED <<platform, reports, traffic>>

(* The person changes the mode or resets the transport. *)
ChangeMode(m) ==
    /\ m # mode
    /\ mode' = m
    /\ Handle([kind |-> "veil_mode_changed"], m)
    /\ Meddle

ManualReset == Handle([kind |-> "manual_reset"], mode) /\ UNCHANGED mode /\ Meddle

(* The network path changes. *)
ChangePath(reachable) ==
    /\ Handle([kind |-> "network_path_changed", reachable |-> reachable], mode)
    /\ UNCHANGED mode /\ Meddle

(* The app wakes from the background, or its VEIL configuration changes. *)
SystemEvent ==
    /\ \E kind \in {"background_wake", "veil_config_changed"} : Handle([kind |-> kind], mode)
    /\ UNCHANGED mode /\ Meddle

(* A front's TLS or tunnel is blocked, or the stream - it travels on the    *)
(* authenticated lane's channel - opens or dies.                            *)
FrontBlocked(lane) ==
    /\ rpc[lane] \in Ports
    /\ \E failure \in FrontFailures :
          Handle([kind |-> "rpc_failed", failure |-> failure, via |-> "veil",
                  foreground |-> TRUE, lane |-> lane], mode)
    /\ UNCHANGED mode /\ Meddle

StreamEvent ==
    /\ channel["auth"] # NoChannel /\ Bounded
    /\ \/ Handle([kind |-> "stream_opened", via |-> Via(channel["auth"])], mode)
       \/ \E failure \in MidSessionDeaths \cup OpenFailures :
             Handle([kind |-> "stream_failed", failure |-> failure,
                     via |-> Via(channel["auth"])], mode)
    /\ UNCHANGED mode /\ Meddle

Next ==
    \/ Perform \/ HearReport \/ TimerFires
    \/ \E r \in Relays : FailStart(r) \/ \E port \in Ports : ComeUp(r, port)
    \/ \E lane \in Lanes :
          \/ OpenChannel(lane) \/ IssueRpc(lane) \/ RpcSucceeds(lane) \/ FrontBlocked(lane)
          \/ \E foreground \in BOOLEAN : RpcFails(lane, foreground)
    \/ \E m \in Modes : ChangeMode(m)
    \/ \E reachable \in BOOLEAN : ChangePath(reachable)
    \/ ManualReset \/ SystemEvent \/ StreamEvent

Spec == Init /\ [][Next]_vars

(* What the platform's schedulers give: effects are performed, the events   *)
(* queued for the router are handled in turn, a start ends and does not     *)
(* fail for ever, and a client in use keeps making foreground RPCs on both  *)
(* lanes.  Handling an event waits for the effects of the one before, so    *)
(* events need strong fairness: the router's queue is served in order.      *)
Fairness ==
    /\ WF_vars(Perform) /\ SF_vars(HearReport) /\ SF_vars(TimerFires)
    /\ \A r \in Relays :
          /\ WF_vars(FailStart(r) \/ \E port \in Ports : ComeUp(r, port))
          /\ SF_vars(\E port \in Ports : ComeUp(r, port))
    /\ \A lane \in Lanes :
          /\ WF_vars(OpenChannel(lane)) /\ WF_vars(IssueRpc(lane))
          /\ SF_vars(RpcSucceeds(lane)) /\ SF_vars(RpcFails(lane, TRUE))

FairSpec == Spec /\ Fairness

-----------------------------------------------------------------------------
(* "On never goes direct": no event lands the client on the direct path,    *)
(* and once the router has performed its effects no channel cached from     *)
(* before the person chose `on` is left there.                              *)
NeverDirectWhenOn ==
    mode = "on" =>
        /\ route.kind # "direct"
        /\ todo = <<>> => \A lane \in Lanes : channel[lane] # "direct"

(* gRPC is routed through a proxy's port exactly while VEIL is active, and  *)
(* through the port of the proxy the route believes in: no order of starts, *)
(* late reports and teardowns leaves a port behind.                         *)
PortFollowsRoute ==
    todo = <<>> =>
        veilPort = IF route.kind = "veil_active" THEN route.port ELSE NoPort

(* While VEIL is active no lane keeps a channel from before: none direct,   *)
(* none to the port of a proxy that was replaced.                           *)
ChannelsFollowPort ==
    todo = <<>> /\ route.kind = "veil_active" =>
        \A lane \in Lanes : channel[lane] \in {NoChannel, veilPort}

(* A proxy is never left running with nobody to use it: when nothing is     *)
(* under way and VEIL is not active, no proxy runs.                         *)
NoOrphanProxy ==
    /\ todo = <<>> /\ starting = {} /\ reports = <<>>
    /\ route.kind \notin {"veil_active", "veil_probing"}
    => proxy = NoProxy

(* The client never waits for a proxy that nobody is starting: while it     *)
(* probes, a start is still to be asked for, under way or to be heard of.   *)
ProbingHasStart ==
    route.kind = "veil_probing" =>
        \/ starting # {} \/ reports # <<>>
        \/ \E i \in DOMAIN todo : todo[i] = START

(* Off means off: the person who turned VEIL off is not on a VEIL route,    *)
(* nor does a streak of failures or a late proxy bring the route back.      *)
OffLeavesVeil ==
    mode = "off" => route.kind \in {"direct", "offline"}

(* Neither a start nor a cooldown lasts for ever.                           *)
WaitingEnds ==
    /\ (route.kind = "veil_probing") ~> (route.kind # "veil_probing")
    /\ (route.kind = "veil_cooldown") ~> (route.kind # "veil_cooldown")

(* A front that takes the connection and then carries nothing on some lane  *)
(* does not hold the client for ever: under `on`, with the network up, the  *)
(* client ends up routed through a running proxy whose front carries both   *)
(* lanes, and stays there.                                                  *)
SettlesOnGoodFront ==
    <>[](mode = "on" /\ route.kind # "offline") =>
        <>[](/\ route.kind = "veil_active" /\ route.port = proxy.port
             /\ Carries[proxy.relay] = Lanes)

=============================================================================
