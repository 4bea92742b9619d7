--------------------------- MODULE TransportRoute ---------------------------
(***************************************************************************)
(* When a client leaves the direct path for VEIL and when it comes back:   *)
(* the reducer whose cases conformance/check_transport_route.py builds.    *)
(* Reduce(state, mode, event, config, now) is the next state and the       *)
(* effects the platform then performs, in order.                           *)
(*                                                                         *)
(* The source fixes the reducer by cases.  Every case is an instance of a  *)
(* rule below (TransportRouteCases replays them all); where a rule also    *)
(* speaks of a state no case starts in, its comment says so.  A pair of    *)
(* state and event that no rule names is ignored.                          *)
(***************************************************************************)
EXTENDS Naturals, Sequences

CONSTANT NoPort     \* set_veil_port(None): gRPC is not routed through a proxy

Modes == {"auto", "on", "off"}
Lanes == {"auth", "sealed"}

Direct(fails) == [kind |-> "direct", fails |-> fails]
Probing == [kind |-> "veil_probing"]
Active(relay, port, since, softFails) ==
    [kind |-> "veil_active", relay |-> relay, port |-> port,
     since_ms |-> since, soft_fails |-> softFails]
Cooldown(until) == [kind |-> "veil_cooldown", until_ms |-> until]
Offline == [kind |-> "offline"]

NoSoftFails == [lane \in Lanes |-> 0]

DefaultConfig ==
    [direct_fail_threshold |-> 2, mid_session_death_weight |-> 2,
     allow_direct_to_veil_escalation |-> TRUE, veil_cooldown_ms |-> 30000,
     veil_soft_fail_threshold |-> 3]

-----------------------------------------------------------------------------
(* Effects.                                                                 *)
STOP == [kind |-> "request_proxy_stop"]
START == [kind |-> "request_proxy_start"]
INVALIDATE == [kind |-> "invalidate_grpc_client"]
SetPort(port) == [kind |-> "set_veil_port", port |-> port]
UNROUTE == SetPort(NoPort)
Demote(relay) == [kind |-> "demote_relay", relay |-> relay]
ScheduleEnd(at) == [kind |-> "schedule_cooldown_end", at_ms |-> at]

(* Mutant: the rotation forgets to start the next proxy. *)
RotateNoStart == <<STOP, UNROUTE, INVALIDATE>>

ROTATE == <<STOP, UNROUTE, START, INVALIDATE>>

(* Mutant: the rotation does not blame the front it leaves. *)
RotateAwayUnblamed(relay) == ROTATE

RotateAway(relay) == <<Demote(relay)>> \o ROTATE

Out(state, effects) == [state |-> state, effects |-> effects]

-----------------------------------------------------------------------------
(* Failures, by what they say.                                              *)
SoftFailures == {"stream_timeout", "transport_unknown"}
FrontFailures == {"tls_fingerprint_blocked", "tls_cert_expired", "web_tunnel_blocked"}
MidSessionDeaths == {"mid_session_timeout", "mid_session_closed",
                     "mid_session_unknown", "write_failed"}
OpenFailures == {"open_timeout", "transport_unknown"}

Weight(failure, cfg) ==
    IF failure \in MidSessionDeaths THEN cfg.mid_session_death_weight ELSE 1

(* Mutant: turning `on` keeps the channels opened before. *)
LandKeepsChannel(mode, before) ==
    IF mode = "on" THEN Out(Probing, before \o <<START>>)
    ELSE Out(Direct(0), before \o <<INVALIDATE>>)

(* Where the client lands when it starts over: on the direct path, except   *)
(* that `on` never goes direct and is sent back to the front.  The old      *)
(* channel is dropped before the tunnel exists.                             *)
Land(mode, before) ==
    IF mode = "on"
    THEN Out(Probing, before \o <<INVALIDATE, START>>)
    ELSE Out(Direct(0), before \o <<INVALIDATE>>)

(* Mutants: half of leaving VEIL. *)
DropVeilKeepPort == <<STOP>>
DropVeilKeepProxy == <<UNROUTE>>

DropVeil == <<STOP, UNROUTE>>

(* The starting state; `censored` does not matter. *)
Initial(mode, reachable) ==
    IF ~reachable THEN Offline
    ELSE IF mode = "on" THEN Probing ELSE Direct(0)

-----------------------------------------------------------------------------
(* Mutant: escalation is not limited to `auto`. *)
DirectFailedAnyMode(s, mode, weight, cfg) ==
    IF s.fails + weight >= cfg.direct_fail_threshold
    THEN Out(Probing, <<START, INVALIDATE>>)
    ELSE Out(Direct(s.fails + weight), <<>>)

(* A transport failure on the direct path; only `auto` may escalate. *)
DirectFailed(s, mode, weight, cfg) ==
    LET fails == s.fails + weight
    IN  IF /\ fails >= cfg.direct_fail_threshold
           /\ mode = "auto"
           /\ cfg.allow_direct_to_veil_escalation
        THEN Out(Probing, <<START, INVALIDATE>>)
        ELSE Out(Direct(fails), <<>>)

OnDirect(s, mode, e, cfg) ==
    CASE e.kind = "rpc_failed" /\ e.via = "direct" /\ e.foreground
                               /\ e.failure \in SoftFailures ->
            DirectFailed(s, mode, 1, cfg)
      [] e.kind = "stream_failed" /\ e.via = "direct" ->
            DirectFailed(s, mode, Weight(e.failure, cfg), cfg)
      [] e.kind \in {"rpc_succeeded", "stream_opened"} /\ e.via = "direct" ->
            Out(Direct(0), <<>>)
      [] e.kind = "veil_mode_changed" /\ mode = "on" -> Land(mode, <<>>)
      [] e.kind = "manual_reset" -> Land(mode, <<>>)
      [] e.kind = "proxy_started" -> Out(s, DropVeil)
      [] OTHER -> Out(s, <<>>)

-----------------------------------------------------------------------------
(* Mutant: the new port is set after the old channel is dropped. *)
OnProbingLatePort(s, mode, e, cfg, now) ==
    CASE e.kind = "proxy_started" ->
            Out(Active(e.relay, e.port, now, NoSoftFails), <<INVALIDATE, SetPort(e.port)>>)
      [] e.kind = "proxy_start_failed" ->
            Out(Cooldown(now + cfg.veil_cooldown_ms),
                <<UNROUTE, ScheduleEnd(now + cfg.veil_cooldown_ms)>>)
      [] e.kind = "veil_mode_changed" /\ mode = "off" -> Land(mode, DropVeil)
      [] e.kind = "veil_mode_changed" /\ mode = "on" -> Out(s, <<INVALIDATE>>)
      [] e.kind = "manual_reset" -> Land(mode, DropVeil)
      [] OTHER -> Out(s, <<>>)

(* Waiting for the proxy.  No case changes the mode or resets here: leaving *)
(* VEIL is as from the active state, and turning `on` drops what is open on *)
(* the direct path, as the comment on turning_on_probes asks.               *)
OnProbing(s, mode, e, cfg, now) ==
    CASE e.kind = "proxy_started" ->
            Out(Active(e.relay, e.port, now, NoSoftFails), <<SetPort(e.port), INVALIDATE>>)
      [] e.kind = "proxy_start_failed" ->
            Out(Cooldown(now + cfg.veil_cooldown_ms),
                <<UNROUTE, ScheduleEnd(now + cfg.veil_cooldown_ms)>>)
      [] e.kind = "veil_mode_changed" /\ mode = "off" -> Land(mode, DropVeil)
      [] e.kind = "veil_mode_changed" /\ mode = "on" -> Out(s, <<INVALIDATE>>)
      [] e.kind = "manual_reset" -> Land(mode, DropVeil)
      [] OTHER -> Out(s, <<>>)

-----------------------------------------------------------------------------
(* A soft failure through VEIL: reconnect, or replace the proxy and blame   *)
(* its front when the lane's streak reaches the threshold.                  *)
LaneFailed(s, lane, cfg) ==
    IF s.soft_fails[lane] + 1 >= cfg.veil_soft_fail_threshold
    THEN Out(Probing, RotateAway(s.relay))
    ELSE Out([s EXCEPT !.soft_fails[lane] = @ + 1], <<INVALIDATE>>)

(* Mutant: a success on either lane clears both. *)
LaneClearedBoth(s, lane) == [s EXCEPT !.soft_fails = NoSoftFails]

(* A success through VEIL clears its own lane. *)
LaneCleared(s, lane) == [s EXCEPT !.soft_fails[lane] = 0]

OnActive(s, mode, e, cfg) ==
    CASE e.kind = "rpc_failed" /\ e.via = "veil" /\ e.foreground ->
           (CASE e.failure = "stale_local_proxy" -> Out(Probing, ROTATE)
              [] e.failure \in FrontFailures -> Out(Probing, RotateAway(s.relay))
              [] e.failure \in SoftFailures -> LaneFailed(s, e.lane, cfg)
              [] OTHER -> Out(s, <<>>))
      [] e.kind = "rpc_succeeded" /\ e.via = "veil" -> Out(LaneCleared(s, e.lane), <<>>)
      [] e.kind = "rpc_succeeded" /\ e.via = "direct" /\ mode # "on" ->
            Out(Direct(0), DropVeil)
      [] e.kind = "stream_failed" /\ e.via = "veil" -> Out(s, <<INVALIDATE>>)
      [] e.kind \in {"background_wake", "veil_config_changed"} -> Out(Probing, ROTATE)
      [] e.kind = "veil_mode_changed" /\ mode = "off" -> Land(mode, DropVeil)
      [] e.kind = "manual_reset" -> Land(mode, DropVeil)
      [] OTHER -> Out(s, <<>>)

-----------------------------------------------------------------------------
(* Mutant: the end of the cooldown is only thought of for `auto`. *)
OnCooldownStuck(s, mode, e) ==
    CASE e.kind = "cooldown_elapsed" /\ mode = "auto" -> Out(Direct(0), <<INVALIDATE>>)
      [] e.kind = "veil_mode_changed" /\ mode # "auto" -> Land(mode, DropVeil)
      [] e.kind = "manual_reset" -> Land(mode, DropVeil)
      [] e.kind = "proxy_started" -> Out(s, DropVeil)
      [] OTHER -> Out(s, <<>>)

(* Failures are swallowed.  No case changes the mode, resets or reports a   *)
(* late proxy here: the first two start over as elsewhere, the last is torn *)
(* down as on the direct path.                                              *)
OnCooldown(s, mode, e) ==
    CASE e.kind = "cooldown_elapsed" -> Land(mode, <<>>)
      [] e.kind = "veil_mode_changed" /\ mode # "auto" -> Land(mode, DropVeil)
      [] e.kind = "manual_reset" -> Land(mode, DropVeil)
      [] e.kind = "proxy_started" -> Out(s, DropVeil)
      [] OTHER -> Out(s, <<>>)

(* Offline ignores everything but the network coming back; a proxy that     *)
(* comes up late (no case) is torn down as on the direct path.              *)
OnOffline(s, e) == Out(s, IF e.kind = "proxy_started" THEN DropVeil ELSE <<>>)

(* A change of the network path is the same from every state. *)
OnPath(mode, e) ==
    IF e.reachable THEN Land(mode, DropVeil)
    ELSE Out(Offline, <<STOP, UNROUTE, INVALIDATE>>)

Reduce(s, mode, e, cfg, now) ==
    IF e.kind = "network_path_changed" THEN OnPath(mode, e)
    ELSE CASE s.kind = "direct" -> OnDirect(s, mode, e, cfg)
           [] s.kind = "veil_probing" -> OnProbing(s, mode, e, cfg, now)
           [] s.kind = "veil_active" -> OnActive(s, mode, e, cfg)
           [] s.kind = "veil_cooldown" -> OnCooldown(s, mode, e)
           [] s.kind = "offline" -> OnOffline(s, e)

=============================================================================
