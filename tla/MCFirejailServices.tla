-------------------------- MODULE MCFirejailServices --------------------------
(***************************************************************************)
(* The services around a sandbox, each by itself from its idle state: the  *)
(* X server, the network, the bandwidth of its devices and the D-Bus       *)
(* proxy.                                                                  *)
(***************************************************************************)
EXTENDS FirejailX11, FirejailNet, FirejailBandwidth, FirejailDbus

(* The network: 12..15 (the top of the address space), 8..15, a device     *)
(* without an address, one with a network of two addresses, a missing one. *)
Device(kind, up, ip, size) == [kind |-> kind, if |-> [up |-> up, ip |-> ip, size |-> size]]
Opt(d, netmask, ask, none, rs, re) ==
  [kind |-> d.kind, if |-> d.if, ip |-> 0, mask |-> netmask, asked |-> ask, given |-> ask,
   none |-> none, rs |-> rs, re |-> re]
Configured ==
  { Device(k, TRUE, i[1], i[2]) : k \in {"bridge", "macvlan"}, i \in {<<13, 4>>, <<9, 8>>} }
Unconfigured == { Device(k, FALSE, 0, 0) : k \in {"bridge", "macvlan"} }
Refused == { Device("bridge", TRUE, 4, 2), Device("missing", FALSE, 0, 0) }
Single ==
  { << Opt(d, 0, ask, FALSE, r[1], r[2]) >> :
      d \in Configured, ask \in {0, 12, 13, 14}, r \in {<<0, 0>>, <<10, 12>>, <<13, 14>>} }
  \cup { << Opt(d, nm, ask, FALSE, 0, 0) >> : d \in Unconfigured, nm \in {0, 4}, ask \in {0, 14} }
  \cup { << Opt(d, 0, 0, TRUE, 0, 0) >> : d \in Configured \cup Unconfigured \cup Refused }
Two ==
  { << Opt(Device(k1, TRUE, 13, 4), 0, 0, FALSE, 0, 0), Opt(Device(k2, TRUE, 9, 4), 0, a, FALSE, 0, 0) >> :
      k1 \in {"bridge", "macvlan"}, k2 \in {"bridge", "macvlan"}, a \in {0, 10} }
NetCases ==
  { [bridges |-> b, gw |-> g, hostgw |-> h, intf |-> 0, lan |-> l] :
      b \in Single, g \in {0, 12, 14}, h \in {3, 14}, l \in {{14}, {10, 11, 12, 14}} }
  \cup { [bridges |-> b, gw |-> 0, hostgw |-> 3, intf |-> i, lan |-> {10, 14}] : b \in Two, i \in {0, 5} }

TwoDevs == [br0 |-> "eth0", br1 |-> "eth1"]

Rule(b, r) == [bus |-> b, rule |-> r]
Profiles == { << >>, << Rule("user", "talk"), Rule("system", "talk"), Rule("user", "own") >> }
Policies == {"allow", "filter", "block"}
DbusCases ==
  { [lines |-> l, pol |-> [user |-> pu, system |-> ps], enabled |-> e[1], installed |-> e[2],
     addr |-> a, sockets |-> k, log |-> {"user"}, netlock |-> nl] :
      l \in Profiles, pu \in Policies, ps \in Policies,
      e \in {<<TRUE, TRUE>>, <<TRUE, FALSE>>, <<FALSE, TRUE>>},
      a \in {[user |-> "unset", system |-> "unset"], [user |-> "other", system |-> "other"],
             [user |-> "elsewhere", system |-> "unset"]},
      k \in {{}, {"std2"}}, nl \in BOOLEAN }

X11Idle == xpc = "idle"
NetIdle == netPhase = "idle"
BwIdle == bwCount = 0
DbusIdle == dPhase = "idle"

ServicesIdle == X11Idle /\ NetIdle /\ BwIdle /\ DbusIdle
servicesVars == <<x11Vars, netVars, bwVars, dbusVars>>

ServicesInit == X11Init /\ NetInit /\ BwInit /\ DbusInit
ServicesNext ==
  \/ NetIdle /\ BwIdle /\ DbusIdle /\ X11Next /\ UNCHANGED <<netVars, bwVars, dbusVars>>
  \/ X11Idle /\ BwIdle /\ DbusIdle /\ NetNext /\ UNCHANGED <<x11Vars, bwVars, dbusVars>>
  \/ X11Idle /\ NetIdle /\ DbusIdle /\ BwNext /\ UNCHANGED <<x11Vars, netVars, dbusVars>>
  \/ X11Idle /\ NetIdle /\ BwIdle /\ DbusNext /\ UNCHANGED <<x11Vars, netVars, bwVars>>
ServicesFairness == X11Fairness /\ NetFairness /\ DbusFairness
=============================================================================
