------------------------- MODULE TransportRouteCases -------------------------
(***************************************************************************)
(* The case table of conformance/check_transport_route.py, and its replay  *)
(* against Reduce: a case runs its events one by one and must end in the   *)
(* state it expects, with the effects it expects of the last event.  Ports *)
(* are tokens.                                                             *)
(***************************************************************************)
EXTENDS TransportRoute

NOW == 1000000
RELAY == "relay.example:443"
PORT == "port 49262"
PORT7 == "port 7"

SoftFails(auth, sealed) == [lane \in Lanes |-> IF lane = "auth" THEN auth ELSE sealed]
active(auth, sealed) == Active(RELAY, PORT, 1, SoftFails(auth, sealed))
ACTIVE == active(0, 0)

RpcFailed(failure, via, foreground, lane) ==
    [kind |-> "rpc_failed", failure |-> failure, via |-> via,
     foreground |-> foreground, lane |-> lane]
Failed(failure) == RpcFailed(failure, "direct", TRUE, "auth")
VeilFailed(failure, lane) == RpcFailed(failure, "veil", TRUE, lane)
Succeeded(via, lane) == [kind |-> "rpc_succeeded", via |-> via, lane |-> lane]
StreamFailed(failure, via) == [kind |-> "stream_failed", failure |-> failure, via |-> via]
StreamOpened(via) == [kind |-> "stream_opened", via |-> via]
ProxyStarted(relay, port) == [kind |-> "proxy_started", relay |-> relay, port |-> port]
PathChanged(reachable) == [kind |-> "network_path_changed", reachable |-> reachable]
Simple(kind) == [kind |-> kind]
ModeChanged == Simple("veil_mode_changed")

Case(state, mode, events, wantState, wantEffects) ==
    [state |-> state, mode |-> mode, events |-> events, wantState |-> wantState,
     wantEffects |-> wantEffects, config |-> DefaultConfig]

TU == "transport_unknown"
ESCALATE == <<START, INVALIDATE>>
LEAVE == <<STOP, UNROUTE, INVALIDATE>>

(* Cases that start on the direct path. *)
DirectCases == {
    Case(Direct(0), "auto", <<Failed(TU)>>, Direct(1), <<>>),
    Case(Direct(0), "auto", <<Failed(TU), Failed(TU)>>, Probing, ESCALATE),
    Case(Direct(1), "off", <<Failed(TU)>>, Direct(2), <<>>),
    Case(Direct(0), "off", <<StreamFailed("mid_session_timeout", "direct")>>, Direct(2), <<>>),
    [Case(Direct(1), "auto", <<Failed(TU)>>, Direct(2), <<>>)
        EXCEPT !.config.allow_direct_to_veil_escalation = FALSE],
    Case(Direct(0), "auto", <<StreamFailed("open_timeout", "direct"),
                              StreamFailed("open_timeout", "direct")>>, Probing, ESCALATE),
    Case(Direct(1), "auto", <<StreamFailed(TU, "direct")>>, Probing, ESCALATE),
    Case(Direct(1), "auto", <<StreamFailed("mid_session_timeout", "veil")>>, Direct(1), <<>>),
    Case(Direct(1), "auto", <<StreamOpened("direct")>>, Direct(0), <<>>),
    Case(Direct(1), "auto", <<Succeeded("direct", "auth")>>, Direct(0), <<>>),
    Case(Direct(1), "auto", <<RpcFailed(TU, "direct", FALSE, "auth")>>, Direct(1), <<>>),
    Case(Direct(1), "auto", <<Failed("application_error")>>, Direct(1), <<>>),
    Case(Direct(1), "auto", <<Failed("auth_rejected")>>, Direct(1), <<>>),
    Case(Direct(0), "auto", <<ModeChanged>>, Direct(0), <<>>),
    Case(Direct(0), "on", <<ModeChanged>>, Probing, <<INVALIDATE, START>>),
    Case(Direct(0), "off", <<ProxyStarted(RELAY, PORT7)>>, Direct(0), <<STOP, UNROUTE>>),
    Case(Direct(0), "auto", <<Simple("background_wake")>>, Direct(0), <<>>),
    Case(Direct(0), "auto", <<Simple("manual_reset")>>, Direct(0), <<INVALIDATE>>),
    Case(Direct(0), "on", <<Simple("manual_reset")>>, Probing, <<INVALIDATE, START>>) }
  \cup { Case(Direct(0), "auto", <<StreamFailed(f, "direct")>>, Probing, ESCALATE) :
            f \in {"mid_session_timeout", "mid_session_closed", "mid_session_unknown",
                   "write_failed"} }

(* Cases that start while probing, cooling down or offline. *)
WaitingCases == {
    Case(Probing, "auto", <<ProxyStarted(RELAY, PORT7)>>,
         Active(RELAY, PORT7, NOW, SoftFails(0, 0)), <<SetPort(PORT7), INVALIDATE>>),
    Case(Probing, "auto", <<Simple("proxy_start_failed")>>, Cooldown(NOW + 30000),
         <<UNROUTE, ScheduleEnd(NOW + 30000)>>),
    Case(Cooldown(NOW), "auto", <<Simple("cooldown_elapsed")>>, Direct(0), <<INVALIDATE>>),
    Case(Cooldown(NOW), "auto", <<Failed(TU)>>, Cooldown(NOW), <<>>),
    Case(Cooldown(NOW), "on", <<Simple("cooldown_elapsed")>>, Probing, <<INVALIDATE, START>>),
    Case(Offline, "on", <<ModeChanged>>, Offline, <<>>),
    Case(Offline, "auto", <<Failed(TU)>>, Offline, <<>>),
    Case(Offline, "on", <<PathChanged(TRUE)>>, Probing, LEAVE \o <<START>>) }

(* Cases that start with VEIL up. *)
ActiveCases == {
    Case(ACTIVE, "off", <<ModeChanged>>, Direct(0), LEAVE),
    Case(ACTIVE, "auto", <<PathChanged(TRUE)>>, Direct(0), LEAVE),
    Case(ACTIVE, "auto", <<VeilFailed("stale_local_proxy", "auth")>>, Probing, ROTATE),
    Case(ACTIVE, "auto", <<VeilFailed("stream_timeout", "auth")>>, active(1, 0), <<INVALIDATE>>),
    Case(active(2, 0), "auto", <<VeilFailed(TU, "auth")>>, Probing, <<Demote(RELAY)>> \o ROTATE),
    Case(ACTIVE, "on", [i \in 1..3 |-> VeilFailed("stream_timeout", "sealed")],
         Probing, <<Demote(RELAY)>> \o ROTATE),
    Case(active(2, 2), "auto", <<Succeeded("veil", "sealed")>>, active(2, 0), <<>>),
    Case(active(0, 2), "auto", <<Succeeded("veil", "auth"), VeilFailed(TU, "sealed")>>,
         Probing, <<Demote(RELAY)>> \o ROTATE),
    Case(active(0, 2), "auto", <<RpcFailed(TU, "veil", FALSE, "sealed")>>, active(0, 2), <<>>),
    Case(active(0, 2), "auto", <<VeilFailed("application_error", "sealed")>>, active(0, 2), <<>>),
    Case(active(2, 0), "auto", <<StreamFailed("mid_session_timeout", "veil")>>,
         active(2, 0), <<INVALIDATE>>),
    Case(ACTIVE, "auto", <<StreamFailed("mid_session_timeout", "veil")>>, ACTIVE, <<INVALIDATE>>),
    Case(ACTIVE, "auto", <<Succeeded("direct", "auth")>>, Direct(0), <<STOP, UNROUTE>>),
    Case(ACTIVE, "on", <<Succeeded("direct", "auth")>>, ACTIVE, <<>>),
    Case(ACTIVE, "auto", <<Simple("background_wake")>>, Probing, ROTATE),
    Case(ACTIVE, "auto", <<RpcFailed("stale_local_proxy", "veil", FALSE, "auth")>>, ACTIVE, <<>>),
    Case(ACTIVE, "auto", <<Simple("veil_config_changed")>>, Probing, ROTATE),
    Case(ACTIVE, "auto", <<PathChanged(FALSE)>>, Offline, LEAVE),
    Case(ACTIVE, "auto", <<Simple("manual_reset")>>, Direct(0), LEAVE),
    Case(ACTIVE, "on", <<Simple("manual_reset")>>, Probing, LEAVE \o <<START>>) }
  \cup { Case(ACTIVE, "auto", <<VeilFailed(f, "auth")>>, Probing, <<Demote(RELAY)>> \o ROTATE) :
            f \in {"tls_fingerprint_blocked", "tls_cert_expired", "web_tunnel_blocked"} }

Cases == DirectCases \cup WaitingCases \cup ActiveCases

(* The `initial` cases. *)
ASSUME InitialCases ==
    /\ Initial("auto", TRUE) = Direct(0)
    /\ Initial("on", TRUE) = Probing
    /\ Initial("on", FALSE) = Offline

-----------------------------------------------------------------------------
(* What a case ends in: the state reached, and the effects of its last event. *)
Ending(c) ==
    LET after[n \in 0 .. Len(c.events)] ==
            IF n = 0 THEN Out(c.state, <<>>)
            ELSE Reduce(after[n - 1].state, c.mode, c.events[n], c.config, NOW)
    IN  after[Len(c.events)]

=============================================================================
