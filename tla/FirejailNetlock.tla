-------------------------- MODULE FirejailNetlock ----------------------------
(***************************************************************************)
(* fnetlock/main.c: the network lock of a sandbox.  For a while it notes   *)
(* who sends packets to the sandbox, in a hash table; then it replaces the *)
(* firewall of the network namespace by one that lets only these hosts     *)
(* through.                                                                *)
(***************************************************************************)
EXTENDS Integers, Sequences, FiniteSets, SequencesExt

CONSTANTS Senders,      \* the addresses packets come from
          Loopback,     \* the addresses of them in 127.0.0.0/8
          hash(_),      \* the bucket of an address
          Buckets,      \* HMAX
          Ports,
          InstanceMod,  \* ip_instance is a uint8_t: 2^8 in the code
          Interval      \* NETLOCK_INTERVAL, in turns of the loop of run_trace

ASSUME NetlockAssumption == \A a \in Senders : hash(a) \in Buckets

VARIABLES
  nPhase,         \* idle, trace, flush, file, restore, done
  htable,         \* a bucket is a sequence of nodes, the last one added first
  have_traffic,
  left,           \* turns left
  tcpQ, udpQ,     \* the receive queues of the two raw sockets
  fwPolicy,       \* of the chains INPUT and OUTPUT
  fwRules,        \* the hosts that are let through, with a protocol
  seen            \* history: the packets that reached hnode_add

netlockVars == <<nPhase, htable, have_traffic, left, tcpQ, udpQ, fwPolicy, fwRules, seen>>

\* The firewall before: the one of --netfilter.
Before == [policy |-> "DROP", rules |-> {[ip |-> "any", protocol |-> "icmp"]}]

NetlockInit ==
  /\ nPhase = "idle"
  /\ htable = [b \in Buckets |-> << >>]
  /\ have_traffic = FALSE /\ left = Interval
  /\ tcpQ = << >> /\ udpQ = << >>
  /\ fwPolicy = Before.policy /\ fwRules = Before.rules
  /\ seen = {}

NetlockBegin ==
  /\ nPhase = "idle"
  /\ nPhase' = "trace"
  /\ UNCHANGED <<htable, have_traffic, left, tcpQ, udpQ, fwPolicy, fwRules, seen>>

\* The network: a packet arrives at the socket of its protocol.
Packet(a, port) ==
  /\ nPhase = "trace" /\ Len(tcpQ) + Len(udpQ) < left
  /\ \/ tcpQ' = Append(tcpQ, [ip |-> a, port |-> port, protocol |-> "tcp"]) /\ UNCHANGED udpQ
     \/ udpQ' = Append(udpQ, [ip |-> a, port |-> port, protocol |-> "udp"]) /\ UNCHANGED tcpQ
  /\ UNCHANGED <<nPhase, htable, have_traffic, left, fwPolicy, fwRules, seen>>

\* Mutant: the instances are counted over the whole bucket.
HnodeAddBucket(table, pkt) ==
  LET bucket == table[hash(pkt.ip)]
      same == SelectSeq(bucket, LAMBDA n : n.ip = pkt.ip)
      node == [ip |-> pkt.ip, port |-> pkt.port, protocol |-> pkt.protocol,
               ip_instance |-> (Len(bucket) + 1) % InstanceMod] IN
    IF \E i \in DOMAIN same : same[i].port = pkt.port /\ same[i].protocol = pkt.protocol THEN table
    ELSE [table EXCEPT ![hash(pkt.ip)] = << node >> \o bucket]

hnode_add(table, pkt) ==
  LET bucket == table[hash(pkt.ip)]
      same == SelectSeq(bucket, LAMBDA n : n.ip = pkt.ip)
      node == [ip |-> pkt.ip, port |-> pkt.port, protocol |-> pkt.protocol,
               ip_instance |-> (Len(same) + 1) % InstanceMod] IN
    IF \E i \in DOMAIN same : same[i].port = pkt.port /\ same[i].protocol = pkt.protocol THEN table
    ELSE [table EXCEPT ![hash(pkt.ip)] = << node >> \o bucket]

\* One turn of the loop of run_trace: nothing for a second, or a packet, from
\* the udp socket first.
Quiet ==
  /\ nPhase = "trace" /\ left > 0 /\ tcpQ = << >> /\ udpQ = << >>
  /\ left' = left - 1
  /\ UNCHANGED <<nPhase, htable, have_traffic, tcpQ, udpQ, fwPolicy, fwRules, seen>>

Take(pkt) ==
  /\ left' = left - 1
  /\ IF pkt.ip \in Loopback THEN UNCHANGED <<htable, have_traffic, seen>>
     ELSE /\ htable' = hnode_add(htable, pkt)
          /\ have_traffic' = TRUE
          /\ seen' = seen \cup {pkt}
  /\ UNCHANGED <<nPhase, fwPolicy, fwRules>>

run_trace ==
  /\ nPhase = "trace" /\ left > 0
  /\ \/ udpQ # << >> /\ Take(Head(udpQ)) /\ udpQ' = Tail(udpQ) /\ UNCHANGED tcpQ
     \/ udpQ = << >> /\ tcpQ # << >> /\ Take(Head(tcpQ)) /\ tcpQ' = Tail(tcpQ) /\ UNCHANGED udpQ

\* The end of the interval, and the first test of deploy_netfilter.
TraceEnds ==
  /\ nPhase = "trace" /\ left = 0
  /\ nPhase' = IF have_traffic THEN "flush" ELSE "done"
  /\ UNCHANGED <<htable, have_traffic, left, tcpQ, udpQ, fwPolicy, fwRules, seen>>

NoIptables ==
  /\ nPhase = "flush"
  /\ nPhase' = "done"
  /\ UNCHANGED <<htable, have_traffic, left, tcpQ, udpQ, fwPolicy, fwRules, seen>>

FlushRules ==
  /\ nPhase = "flush"
  /\ fwPolicy' = "ACCEPT" /\ fwRules' = {}
  /\ nPhase' = "file"
  /\ UNCHANGED <<htable, have_traffic, left, tcpQ, udpQ, seen>>

TempFile ==
  /\ nPhase = "file"
  /\ nPhase' \in {"restore", "done"}
  /\ UNCHANGED <<htable, have_traffic, left, tcpQ, udpQ, fwPolicy, fwRules, seen>>

print_filter ==
  { [ip |-> n.ip, protocol |-> n.protocol] :
      n \in {m \in UNION {ToSet(htable[b]) : b \in Buckets} : m.ip_instance = 1} }

\* iptables-restore takes the whole file or nothing.
Restore ==
  /\ nPhase = "restore"
  /\ \/ fwPolicy' = "DROP" /\ fwRules' = print_filter
     \/ UNCHANGED <<fwPolicy, fwRules>>
  /\ nPhase' = "done"
  /\ UNCHANGED <<htable, have_traffic, left, tcpQ, udpQ, seen>>

deploy_netfilter == NoIptables \/ FlushRules \/ TempFile \/ Restore

NetlockNext ==
  \/ NetlockBegin
  \/ \E a \in Senders, port \in Ports : Packet(a, port)
  \/ Quiet \/ run_trace \/ TraceEnds \/ deploy_netfilter

NetlockSpec == NetlockInit /\ [][NetlockNext]_netlockVars

-----------------------------------------------------------------------------

Locked == nPhase = "done" /\ fwPolicy = "DROP" /\ fwRules # Before.rules

\* "The firewall allows only the traffic to the IP addresses detected during the
\* program startup": the locked firewall lets exactly the hosts through that
\* sent something, however their ports share buckets and however far the
\* instance counter wraps (hnode_add, print_filter).
LockedToSenders == Locked => {r.ip : r \in fwRules} = {pkt.ip : pkt \in seen}
=============================================================================
