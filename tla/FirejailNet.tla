----------------------------- MODULE FirejailNet -----------------------------
(***************************************************************************)
(* The network of a sandbox: network_main.c, network.c, arp.c, the network *)
(* part of sandbox.c, and the fnet helper that creates and configures the  *)
(* devices.  For each --net device firejail finds the network, takes or    *)
(* finds an address that nobody on the wire answers for, creates the       *)
(* device in the namespace of the sandbox and configures it there.         *)
(*                                                                         *)
(* An address is a number of W bits, 0 stands for none.  A mask is given   *)
(* by the number of addresses it leaves, ~mask + 1: 0 is the empty mask.   *)
(***************************************************************************)
EXTENDS Integers, Sequences, FiniteSets

CONSTANTS W,           \* bits of an address, 32 in the code
          ArpProbes,   \* arp-probes of firejail.config, 2 by default
          NetInputs    \* the command lines and networks to look at

ASSUME NetAssumption == W \in Nat \ {0} /\ ArpProbes \in Nat \ {0}

VARIABLES
  netPhase,   \* idle, configure, gateway, assign, create, move, up, restore, route, running, exited
  net,        \* cfg: the --net devices (bridge0 ...), the --interface, the host and the wire
  defaultgw,  \* cfg.defaultgw
  at,         \* the device the phase is at
  scan,       \* the address check in progress, or NoScan
  inflight,   \* ARP replies on the wire
  nsdev,      \* the --net devices created in the namespace of the sandbox
  addr,       \* the address configured on each of them
  ifaddr,     \* the address of the --interface device in the namespace
  route,      \* none, set or failed
  taken,      \* history: addresses whose check found them in use
  free,       \* history: addresses whose check found nobody
  heard       \* history: whose own reply arrived during their last check, and before its first timeout

netVars == <<netPhase, net, defaultgw, at, scan, inflight, nsdev, addr, ifaddr, route,
             taken, free, heard>>

NoScan == [how |-> "none", dest |-> 0, cnt |-> 0, watching |-> FALSE]
Br == net.bridges[at]

-----------------------------------------------------------------------------
(* Address arithmetic.                                                     *)

Network(ip, size) == IF size = 0 THEN 0 ELSE ip - (ip % size)
Broadcast(ip, size) == IF size = 0 THEN 2^W - 1 ELSE Network(ip, size) + size - 1

\* in_netrange returns an error text or NULL; here, whether the address is good.
in_netrange(ip, ifip, size) ==
  /\ Network(ip, size) = Network(ifip, size)
  /\ Network(ip, size) # ip
  /\ Broadcast(ip, size) # ip

\* The addresses arp_random draws from, and the ones arp_sequential walks.
random_range(br) ==
  IF br.rs # 0 /\ br.re # 0 THEN br.rs .. (br.re - 1)
  ELSE LET start == Network(br.ip, br.mask) + 1 IN start .. (start + br.mask - 3)

SequentialFirst(br) == IF br.rs # 0 THEN br.rs ELSE Network(br.ip, br.mask) + 1
SequentialLast(br) ==
  IF br.re # 0 THEN br.re ELSE SequentialFirst(br) + (br.mask - 2) - 1

\* Neither the address of the parent device nor the gateway is handed out.
Excluded(br) == {br.ip, defaultgw}

-----------------------------------------------------------------------------
(* Before the sandbox is cloned.                                           *)

NetInit ==
  /\ netPhase = "idle"
  /\ net = [bridges |-> << >>]
  /\ defaultgw = 0
  /\ at = 1
  /\ scan = NoScan
  /\ inflight = {}
  /\ nsdev = {}
  /\ addr = << >>
  /\ ifaddr = 0
  /\ route = "none"
  /\ taken = {} /\ free = {} /\ heard = {}

\* The bridges as the options left them: `asked` is --ip (0 for none), `none`
\* is --ip=none, `netmask` is --netmask, `if` what the parent device has.
NetBegin ==
  /\ netPhase = "idle"
  /\ \E input \in NetInputs :
       /\ net' = input
       /\ defaultgw' = input.gw
       /\ addr' = [i \in DOMAIN input.bridges |-> 0]
       /\ ifaddr' = input.intf
  /\ netPhase' = "configure"
  /\ UNCHANGED <<at, scan, inflight, nsdev, route, taken, free, heard>>

NetExit ==
  /\ netPhase' = "exited"
  /\ UNCHANGED <<net, defaultgw, at, inflight, nsdev, addr, ifaddr, route, taken, free, heard>>

\* The next device of this phase, or the next phase.
Advance(next) ==
  IF at < Len(net.bridges) THEN at' = at + 1 /\ UNCHANGED netPhase
  ELSE at' = 1 /\ netPhase' = next

\* What the parent device says: its own address and mask win over --netmask.
net_get_if_addr(br) ==
  IF br.if.up THEN [br EXCEPT !.ip = br.if.ip, !.mask = br.if.size] ELSE br

\* The network of an unconfigured device comes from --ip or from --defaultgw;
\* without either, or without a mask, no address will be configured.
Derived(br) ==
  CASE br.mask = 0 -> [br EXCEPT !.none = TRUE]
    [] br.mask # 0 /\ br.ip = 0 /\ br.asked # 0 -> [br EXCEPT !.ip = Network(br.asked, br.mask)]
    [] br.mask # 0 /\ br.ip = 0 /\ br.asked = 0 /\ defaultgw # 0 ->
         [br EXCEPT !.ip = Network(defaultgw, br.mask)]
    [] br.mask # 0 /\ br.ip = 0 /\ br.asked = 0 /\ defaultgw = 0 -> [br EXCEPT !.none = TRUE]
    [] br.mask # 0 /\ br.ip # 0 -> br

RangeRefused(br) ==
  /\ ~(br.mask = 0 \/ br.ip = 0)
  /\ \/ br.rs # 0 /\ ~in_netrange(br.rs, br.ip, br.mask)
     \/ br.re # 0 /\ ~in_netrange(br.re, br.ip, br.mask)

net_configure_bridge ==
  /\ netPhase = "configure"
  /\ LET got == net_get_if_addr(Br)
         br == Derived(got)
         refused == \/ Br.kind = "missing"
                    \/ got.mask # 0 /\ got.mask < 4
                    \/ RangeRefused(br) IN
       \/ refused /\ NetExit /\ UNCHANGED scan
       \/ /\ ~refused
          /\ net' = [net EXCEPT !.bridges[at] = br]
          /\ Advance("gateway")
          /\ UNCHANGED <<defaultgw, scan, inflight, nsdev, addr, ifaddr, route, taken, free, heard>>

\* A gateway of the user lies in one of the networks.
check_default_gw ==
  \E i \in DOMAIN net.bridges : in_netrange(defaultgw, net.bridges[i].ip, net.bridges[i].mask)

\* Without one, the bridge itself is the gateway; behind a macvlan device it
\* is the gateway of the host when it lies in the network.
AssignedGw ==
  LET first == net.bridges[1] IN
    CASE first.none -> 0
      [] ~first.none /\ first.kind = "bridge" -> first.ip
      [] ~first.none /\ first.kind = "macvlan" ->
           IF in_netrange(net.hostgw, first.ip, first.mask) THEN net.hostgw ELSE 0

CheckGateway ==
  /\ netPhase = "gateway"
  /\ \/ defaultgw # 0 /\ ~check_default_gw /\ NetExit /\ UNCHANGED scan
     \/ /\ defaultgw # 0 => check_default_gw
        /\ defaultgw' = IF defaultgw # 0 THEN defaultgw ELSE AssignedGw
        /\ netPhase' = "assign"
        /\ UNCHANGED <<net, at, scan, inflight, nsdev, addr, ifaddr, route, taken, free, heard>>

-----------------------------------------------------------------------------
(* Looking for an address.                                                 *)

\* A check opens its socket and sends the first probe.  The owner of the
\* address answers, or the answer is lost.
Probe(a, lost) == inflight' = IF a \in net.lan /\ ~lost THEN inflight \cup {a} ELSE inflight
Checking(how, a, cnt) ==
  /\ scan' = [how |-> how, dest |-> a, cnt |-> cnt, watching |-> TRUE]
  /\ heard' = { h \in heard : h[1] # a }
  /\ \E lost \in BOOLEAN : Probe(a, lost)
arp_check(how, a) == Checking(how, a, ArpProbes)

\* Before the clone the address is kept in the configuration (ipsandbox).
Settled(a) == net' = [net EXCEPT !.bridges[at].asked = a]

\* Devices that need no check at this phase.
NoCheck ==
  /\ netPhase = "assign" /\ scan = NoScan
  /\ Br.kind = "bridge" => Br.none
  /\ Br.kind = "macvlan" /\ Br.asked # 0 => in_netrange(Br.asked, Br.ip, Br.mask)
  /\ IF Br.kind = "bridge" THEN Settled(0) ELSE UNCHANGED net
  /\ Advance("create")
  /\ UNCHANGED <<defaultgw, scan, inflight, nsdev, addr, ifaddr, route, taken, free, heard>>

\* --ip outside the network.
AddressRefused ==
  /\ netPhase = "assign" /\ scan = NoScan
  /\ Br.asked # 0 /\ ~in_netrange(Br.asked, Br.ip, Br.mask)
  /\ Br.kind = "bridge" => ~Br.none
  /\ NetExit
  /\ UNCHANGED scan

\* net_configure_sandbox_ip with --ip; sandbox_if_up of a macvlan device with
\* --ip, which is also compared with the parent's address and the gateway.
CheckAsked ==
  /\ scan = NoScan /\ netPhase \in {"assign", "up"}
  /\ ~Br.none /\ Br.asked # 0
  /\ \/ netPhase = "assign" /\ Br.kind = "bridge" /\ in_netrange(Br.asked, Br.ip, Br.mask)
     \/ /\ netPhase = "up" /\ Br.kind = "macvlan"
        /\ at \in nsdev /\ Br.asked \notin Excluded(Br)
  /\ arp_check("asked", Br.asked)
  /\ UNCHANGED <<netPhase, net, defaultgw, at, nsdev, addr, ifaddr, route, taken, free>>

\* The address arp_assign is called for: of a bridge before the clone, of a
\* macvlan device in the sandbox.
Unassigned ==
  /\ netPhase \in {"assign", "up"}
  /\ ~Br.none /\ Br.asked = 0
  /\ \/ netPhase = "assign" /\ Br.kind = "bridge"
     \/ netPhase = "up" /\ Br.kind = "macvlan" /\ at \in nsdev

\* arp_random: ten draws from the range.  With an excluded address in the
\* range all ten may hit it, and the try fails.
Turn == [none |-> "random", random |-> "again", again |-> "sequential"]
Mid(s) == [NoScan EXCEPT !.how = s]
arp_random ==
  /\ Unassigned
  /\ scan.how \in {"none", "random"} /\ scan.cnt = 0
  /\ \/ \E a \in random_range(Br) \ Excluded(Br) : arp_check(Turn[scan.how], a)
     \/ /\ random_range(Br) \cap Excluded(Br) # {}
        /\ scan' = Mid(Turn[scan.how])
        /\ UNCHANGED <<inflight, heard>>
  /\ UNCHANGED <<netPhase, net, defaultgw, at, nsdev, addr, ifaddr, route, taken, free>>

\* arp_sequential: the next address that is not excluded, up to the last.
NextAddress(br, d) ==
  { a \in d .. SequentialLast(br) : a \notin Excluded(br) /\ (d .. (a - 1)) \subseteq Excluded(br) }
SequentialFrom == IF scan.how = "again" THEN SequentialFirst(Br) ELSE scan.dest + 1

arp_sequential ==
  /\ Unassigned
  /\ scan.how \in {"again", "sequential"} /\ scan.cnt = 0
  /\ \E a \in NextAddress(Br, SequentialFrom) : arp_check("sequential", a)
  /\ UNCHANGED <<netPhase, net, defaultgw, at, nsdev, addr, ifaddr, route, taken, free>>

\* arp_assign has tried everything.
AssignFails ==
  /\ Unassigned
  /\ scan.how \in {"again", "sequential"} /\ scan.cnt = 0
  /\ NextAddress(Br, SequentialFrom) = {}
  /\ NetExit
  /\ UNCHANGED scan

\* select times out: the last probe leaves the address to the sandbox, an
\* earlier one is sent again.  select has emptied the set of descriptors and
\* the loop does not fill it again, so nothing is read after a timeout.
ArpFree ==
  /\ free' = free \cup {scan.dest}
  /\ scan' = NoScan
  /\ IF netPhase = "assign"
     THEN Settled(scan.dest) /\ Advance("create") /\ UNCHANGED addr
     ELSE addr' = [addr EXCEPT ![at] = scan.dest] /\ Advance("restore") /\ UNCHANGED net
  /\ UNCHANGED inflight

ArpResend ==
  /\ scan' = [scan EXCEPT !.cnt = @ - 1, !.watching = FALSE]
  /\ \E lost \in BOOLEAN : Probe(scan.dest, lost)
  /\ UNCHANGED <<netPhase, net, at, addr, free>>

ArpTimeout ==
  /\ scan.cnt > 0
  /\ \/ scan.cnt = 1 /\ ArpFree
     \/ scan.cnt > 1 /\ ArpResend
  /\ UNCHANGED <<defaultgw, nsdev, ifaddr, route, taken, heard>>

\* Mutant: the reply is read and dropped.
ArpReplyIgnored(a) ==
  /\ a \in inflight /\ inflight' = inflight \ {a}
  /\ heard' = IF scan.cnt > 0 /\ scan.dest = a THEN heard \cup {<<a, scan.watching>>} ELSE heard
  /\ UNCHANGED <<net, defaultgw, at, nsdev, addr, ifaddr, route, free, taken, scan, netPhase>>

\* A reply arrives on the device.  The loop compares the target's MAC and the
\* target's address, the null address of every probe, and not the sender: a
\* late reply of an address checked before counts for the one being checked.
InUse == IF scan.how = "asked" THEN "exited" ELSE netPhase
ArpReply(a) ==
  /\ a \in inflight /\ inflight' = inflight \ {a}
  /\ heard' = IF scan.cnt > 0 /\ scan.dest = a THEN heard \cup {<<a, scan.watching>>} ELSE heard
  /\ \/ /\ scan.cnt > 0 /\ scan.watching
        /\ taken' = taken \cup {scan.dest}
        /\ scan' = [scan EXCEPT !.cnt = 0, !.watching = FALSE]
        /\ netPhase' = InUse
     \/ /\ ~(scan.cnt > 0 /\ scan.watching)
        /\ UNCHANGED <<taken, scan, netPhase>>
  /\ UNCHANGED <<net, defaultgw, at, nsdev, addr, ifaddr, route, free>>

-----------------------------------------------------------------------------
(* The devices: network_main runs fnet for each while the sandbox waits.   *)

\* fnet creates the device with one end in the namespace; that fails when the
\* name is in use, and nobody looks at the status of fnet.
Created == \E made \in BOOLEAN : nsdev' = IF made THEN nsdev \cup {at} ELSE nsdev

\* A pair whose other end joins the bridge, or a macvlan device.
net_create_veth == Br.kind = "bridge" /\ Created
net_create_macvlan == Br.kind = "macvlan" /\ Created

CreateDevice ==
  /\ netPhase = "create"
  /\ net_create_veth \/ net_create_macvlan
  /\ Advance("move")
  /\ UNCHANGED <<net, defaultgw, scan, inflight, addr, ifaddr, route, taken, free, heard>>

\* fnet moveif: the interface changes its namespace and loses its address.
net_move_interface == ifaddr' = 0

MoveInterfaces ==
  /\ netPhase = "move"
  /\ net_move_interface
  /\ netPhase' = "up"
  /\ UNCHANGED <<net, defaultgw, at, scan, inflight, nsdev, addr, route, taken, free, heard>>

\* sandbox_if_up: the address of the parent is refused.  A device that does
\* not exist stops the sandbox at the ARP socket, when it has an address.
sandbox_if_up ==
  /\ netPhase = "up" /\ scan = NoScan
  /\ \/ /\ Br.none
        /\ UNCHANGED addr
        /\ Advance("restore")
     \/ /\ ~Br.none /\ at \in nsdev /\ Br.kind = "bridge" /\ Br.asked # Br.ip
        /\ addr' = [addr EXCEPT ![at] = Br.asked]
        /\ Advance("restore")
  /\ UNCHANGED <<net, defaultgw, scan, inflight, nsdev, ifaddr, route, taken, free, heard>>

IfUpFails ==
  /\ netPhase = "up" /\ scan = NoScan /\ ~Br.none
  /\ \/ at \notin nsdev
     \/ Br.asked # 0 /\ Br.asked = Br.ip
     \/ Br.kind = "macvlan" /\ Br.asked # 0 /\ Br.asked = defaultgw
  /\ NetExit
  /\ UNCHANGED scan

\* The configuration of the moved interface is put back.
RestoreInterface ==
  /\ netPhase = "restore"
  /\ ifaddr' = net.intf
  /\ netPhase' = "route"
  /\ UNCHANGED <<net, defaultgw, at, scan, inflight, nsdev, addr, route, taken, free, heard>>

\* The kernel takes a default route through an address it can reach.
Reachable(gw) ==
  \E i \in DOMAIN addr : addr[i] # 0 /\ in_netrange(gw, addr[i], net.bridges[i].mask)
net_add_route ==
  /\ netPhase = "route"
  /\ route' = CASE defaultgw = 0 -> "none"
                [] defaultgw # 0 /\ Reachable(defaultgw) -> "set"
                [] defaultgw # 0 /\ ~Reachable(defaultgw) -> "failed"
  /\ netPhase' = "running"
  /\ UNCHANGED <<net, defaultgw, at, scan, inflight, nsdev, addr, ifaddr, taken, free, heard>>

-----------------------------------------------------------------------------
NetSetup ==
  \/ net_configure_bridge \/ CheckGateway
  \/ NoCheck \/ AddressRefused \/ CheckAsked
  \/ arp_random \/ arp_sequential \/ AssignFails \/ ArpTimeout
  \/ CreateDevice \/ MoveInterfaces \/ sandbox_if_up \/ IfUpFails
  \/ RestoreInterface \/ net_add_route

NetNext == NetBegin \/ NetSetup \/ \E a \in inflight : ArpReply(a)

\* firejail goes on with its own steps; a select without input times out.
NetFairness == WF_netVars(NetSetup)

NetSpec == NetInit /\ [][NetNext]_netVars /\ NetFairness

-----------------------------------------------------------------------------

\* An address that is configured in the sandbox is a host address of the
\* network of its device, neither the device's own nor a broadcast or network
\* address, and one that was found by the scan lies in --iprange and is not
\* the gateway (arp_random, arp_sequential, sandbox_if_up).
AddressUsable ==
  \A i \in DOMAIN addr :
    LET br == net.bridges[i] IN
      addr[i] # 0 =>
        /\ in_netrange(addr[i], br.ip, br.mask)
        /\ addr[i] # br.ip
        /\ br.given = 0 =>
             /\ addr[i] # defaultgw
             /\ br.rs # 0 => addr[i] \in br.rs .. br.re

\* No address is configured that was not probed for and found free, and the
\* owner's answer to the first probe keeps the sandbox from using it, whatever
\* late answers of other addresses come between (arp_check returns -1,
\* arp_assign goes on, --ip ends firejail).
AddressProbed ==
  \A i \in DOMAIN addr :
    addr[i] # 0 => addr[i] \in free /\ <<addr[i], TRUE>> \notin heard

\* "Cannot assign an IP address; it looks like all of them are in use": when
\* the scan gives up, every address of the range except the device's and the
\* gateway was answered for (the walk of arp_sequential skips none).
GivesUpOnlyWhenFull ==
  netPhase = "exited" /\ scan.how \in {"again", "sequential"} =>
    LET br == Br
        all == IF br.rs # 0 THEN br.rs .. br.re
               ELSE { a \in 0 .. (2^W - 1) : in_netrange(a, br.ip, br.mask) } IN
      all \ Excluded(br) \subseteq taken

\* A running sandbox has a gateway in the network of one of its devices, or
\* none.  The exception is a bridge without an address of its own: then the
\* network address is taken, and the route is refused.
GatewayInNetwork ==
  netPhase = "running" /\ defaultgw # 0 =>
    \/ check_default_gw
    \/ LET first == net.bridges[1] IN
         first.kind = "bridge" /\ ~first.if.up /\ route = "failed"

\* An interface that was moved into the sandbox has its address back when the
\* program starts ("we need to put the configuration back").
InterfaceKept == netPhase = "running" => ifaddr = net.intf

\* Addresses, gateway and moved interfaces of a sandbox are what the options
\* and the hosts on the wire allow.
AddressesSound ==
  AddressUsable /\ AddressProbed /\ GivesUpOnlyWhenFull /\ GatewayInNetwork /\ InterfaceKept

\* Whatever the hosts on the wire answer and however many answers are lost,
\* the set-up ends: with a running sandbox or with an error.
NetworkSettles == (netPhase # "idle") ~> (netPhase \in {"running", "exited"})
=============================================================================
