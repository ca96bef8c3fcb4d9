---------------------------- MODULE FirejailDbus -----------------------------
(***************************************************************************)
(* dbus.c and its callers in main.c, profile.c, sandbox.c and join.c.      *)
(* firejail filters a bus through xdg-dbus-proxy: it starts the proxy,     *)
(* writes it the rules of the profile, waits until it is ready, clones the *)
(* sandbox, and ends the proxy after the sandbox by closing the reading    *)
(* end of the pipe the proxy watches.  In the sandbox the sockets of the   *)
(* buses are hidden and the socket of the proxy is mounted in their place. *)
(***************************************************************************)
EXTENDS Integers, Sequences, FiniteSets, SequencesExt

CONSTANTS DbusInputs,  \* the profiles and hosts to look at
          MaxName      \* the longest name the grammar is checked for

VARIABLES
  dPhase,    \* where the parent is
  dIn,       \* the input: policies, profile lines, host
  pol,       \* arg_dbus_user and arg_dbus_system
  stream,    \* what was written to the arguments of the proxy
  proxy,     \* none, starting, ready, gone
  readers,   \* the processes that hold the reading end of the status pipe
  child,     \* none, setup, running, gone
  hidden,    \* the bus addresses that are hidden in the sandbox
  mounted,   \* the run socket of each bus: absent, empty or proxy
  busEnv,    \* the bus variables of the program in the sandbox: host or run
  joinEnv    \* the bus variables of a program that joined, or NotJoined

dbusVars == <<dPhase, dIn, pol, stream, proxy, readers, child, hidden, mounted, busEnv, joinEnv>>

Buses == {"user", "system"}
NotJoined == [user |-> "none", system |-> "none"]

-----------------------------------------------------------------------------
(* Names.  A character is one of a letter "a", a digit "1", "_", "-", "*", *)
(* ".", "/" or another one "?".                                            *)

Chars == {"a", "1", "_", "-", "*", ".", "/", "?"}
Strings(n) == UNION { [1..k -> Chars] : k \in 0..n }

\* The loop over a name whose segments are ended by `sep`: seg counts them,
\* in is in_segment, res the value returned inside the loop or "none".
\* Mutant: a segment may start with a digit.
ScanNameDigits(s, sep, hyphens) ==
  LET Step(a, i) ==
        CASE a.res # "none" -> a
          [] a.res = "none" /\ a.in /\ s[i] = sep -> [a EXCEPT !.seg = @ + 1, !.in = FALSE]
          [] a.res = "none" /\ a.in /\ s[i] # sep ->
               IF s[i] \in {"a", "1", "_"} \/ (hyphens /\ s[i] = "-") THEN a ELSE [a EXCEPT !.res = "bad"]
          [] a.res = "none" /\ ~a.in /\ s[i] = "*" ->
               [a EXCEPT !.res = IF i = Len(s) THEN "good" ELSE "bad"]
          [] a.res = "none" /\ ~a.in /\ s[i] # "*" ->
               IF s[i] \in {"a", "1", "_"} \/ (hyphens /\ s[i] = "-") THEN [a EXCEPT !.in = TRUE]
               ELSE [a EXCEPT !.res = "bad"] IN
    FoldLeft(Step, [res |-> "none", seg |-> 1, in |-> FALSE], [i \in 1..Len(s) |-> i])

ScanName(s, sep, hyphens) ==
  LET Step(a, i) ==
        CASE a.res # "none" -> a
          [] a.res = "none" /\ a.in /\ s[i] = sep -> [a EXCEPT !.seg = @ + 1, !.in = FALSE]
          [] a.res = "none" /\ a.in /\ s[i] # sep ->
               IF s[i] \in {"a", "1", "_"} \/ (hyphens /\ s[i] = "-") THEN a ELSE [a EXCEPT !.res = "bad"]
          [] a.res = "none" /\ ~a.in /\ s[i] = "*" ->
               [a EXCEPT !.res = IF i = Len(s) THEN "good" ELSE "bad"]
          [] a.res = "none" /\ ~a.in /\ s[i] # "*" ->
               IF s[i] \in {"a", "_"} \/ (hyphens /\ s[i] = "-") THEN [a EXCEPT !.in = TRUE]
               ELSE [a EXCEPT !.res = "bad"] IN
    FoldLeft(Step, [res |-> "none", seg |-> 1, in |-> FALSE], [i \in 1..Len(s) |-> i])

check_bus_or_interface_name(s, hyphens) ==
  LET r == ScanName(s, ".", hyphens) IN
    s # << >> /\ (r.res = "good" \/ (r.res = "none" /\ r.in /\ r.seg >= 2))

\* The path without its first character "/".
check_object_path(s) ==
  LET r == ScanName(s, "/", FALSE) IN
    s = << >> \/ r.res = "good" \/ (r.res = "none" /\ r.in)

\* A rule has a name, perhaps an interface, and perhaps a path: `iface` and
\* `path` are what stands between = and @ and after @, path "no" without @.
dbus_check_call_rule(name, iface, hasPath, path) ==
  /\ check_bus_or_interface_name(name, TRUE)
  /\ IF ~hasPath THEN check_bus_or_interface_name(iface, FALSE)
     ELSE /\ iface # << >> => check_bus_or_interface_name(iface, FALSE)
          /\ check_object_path(path)

\* The grammar the names follow: segments between the separators, each of
\* letters, digits and _ (and -), not starting with a digit; a last segment
\* may be *.
Cuts(s, sep) == {0, Len(s) + 1} \cup { i \in DOMAIN s : s[i] = sep }
Segment(s, sep, c) ==
  LET end == CHOOSE e \in Cuts(s, sep) : c < e /\ \A d \in Cuts(s, sep) : d <= c \/ d >= e IN
    SubSeq(s, c + 1, end - 1)
PlainSegment(g, hyphens) ==
  /\ g # << >> /\ g[1] # "1"
  /\ \A i \in DOMAIN g : g[i] \in {"a", "1", "_"} \/ (hyphens /\ g[i] = "-")
GoodSegments(s, sep, hyphens, least) ==
  LET starts == Cuts(s, sep) \ {Len(s) + 1}
      last == CHOOSE c \in starts : \A d \in starts : d <= c
      star == Segment(s, sep, last) = <<"*">> IN
    /\ \A c \in starts : (star /\ c = last) \/ PlainSegment(Segment(s, sep, c), hyphens)
    /\ star \/ Cardinality(starts) >= least
GoodName(s, hyphens) == GoodSegments(s, ".", hyphens, 2)
GoodPath(s) == s = << >> \/ GoodSegments(s, "/", FALSE, 1)

-----------------------------------------------------------------------------
(* The parent.                                                             *)

DbusInit ==
  /\ dPhase = "idle"
  /\ dIn = [lines |-> << >>]
  /\ pol = [user |-> "allow", system |-> "allow"]
  /\ stream = << >>
  /\ proxy = "none" /\ readers = {} /\ child = "none"
  /\ hidden = {}
  /\ mounted = [b \in Buses |-> "absent"]
  /\ busEnv = [b \in Buses |-> "host"]
  /\ joinEnv = NotJoined

\* The profile has been read: profile_check_line refused bad names and kept
\* the rules in the order of the profile.
DbusBegin ==
  /\ dPhase = "idle"
  /\ \E input \in DbusInputs : dIn' = input /\ pol' = input.pol
  /\ dPhase' = "check"
  /\ UNCHANGED <<stream, proxy, readers, child, hidden, mounted, busEnv, joinEnv>>

\* Without xdg-dbus-proxy a filter becomes no filter, with a warning.  All of
\* it is skipped when firejail.config disables D-Bus handling.
Filtering == dIn.enabled /\ \E b \in Buses : pol[b] = "filter"
dbus_check_profile ==
  /\ dPhase = "check"
  /\ pol' = IF dIn.enabled /\ ~dIn.installed
            THEN [b \in Buses |-> IF pol[b] = "filter" THEN "allow" ELSE pol[b]] ELSE pol
  /\ dPhase' = "start"
  /\ UNCHANGED <<dIn, stream, proxy, readers, child, hidden, mounted, busEnv, joinEnv>>

NoProxy ==
  /\ dPhase = "start" /\ ~Filtering
  /\ dPhase' = "clone"
  /\ UNCHANGED <<dIn, pol, stream, proxy, readers, child, hidden, mounted, busEnv, joinEnv>>

dbus_proxy_start ==
  /\ dPhase = "start" /\ Filtering
  /\ proxy' = "starting" /\ readers' = {"parent"}
  /\ dPhase' = "user"
  /\ UNCHANGED <<dIn, pol, stream, child, hidden, mounted, busEnv, joinEnv>>

\* The lines of the profile that belong to a bus.
write_profile(b) == SelectSeq(dIn.lines, LAMBDA l : l.bus = b)

\* The arguments for one bus: its address, the socket of the proxy, --log,
\* --filter and the rules.
BusArgs(b) ==
  << [arg |-> "address", bus |-> b], [arg |-> "socket", bus |-> b] >>
  \o (IF b \in dIn.log THEN << [arg |-> "log", bus |-> b] >> ELSE << >>)
  \o << [arg |-> "filter", bus |-> b] >>
  \o [i \in DOMAIN write_profile(b) |-> [arg |-> "rule", line |-> write_profile(b)[i]]]

\* The address of the user bus: the variable, or one of two sockets.
NoUserSocket == dIn.addr["user"] = "unset" /\ dIn.sockets = {}

ParentExits == dPhase' = "exited" /\ readers' = readers \ {"parent"}

NoSocket ==
  /\ dPhase = "user" /\ pol["user"] = "filter" /\ NoUserSocket
  /\ ParentExits
  /\ UNCHANGED <<dIn, pol, stream, proxy, child, hidden, mounted, busEnv, joinEnv>>

WriteArgs(b, next) ==
  /\ dPhase = b
  /\ stream' = IF pol[b] = "filter" THEN stream \o BusArgs(b) ELSE stream
  /\ dPhase' = next
  /\ UNCHANGED <<dIn, pol, proxy, readers, child, hidden, mounted, busEnv, joinEnv>>

WriteUser == ~(pol["user"] = "filter" /\ NoUserSocket) /\ WriteArgs("user", "system")
WriteSystem == WriteArgs("system", "status")

\* Mutant: the status is not waited for.
ReadStatusNoWait ==
  /\ dPhase = "status"
  /\ dPhase' = "clone"
  /\ UNCHANGED <<readers, dIn, pol, stream, proxy, child, hidden, mounted, busEnv, joinEnv>>

\* The proxy writes one byte when it listens; the end of the pipe means that
\* it is gone.
ReadStatus ==
  /\ dPhase = "status"
  /\ \/ proxy = "ready" /\ dPhase' = "clone" /\ UNCHANGED readers
     \/ proxy = "gone" /\ ParentExits
  /\ UNCHANGED <<dIn, pol, stream, proxy, child, hidden, mounted, busEnv, joinEnv>>

\* The pipe was made without O_CLOEXEC: the clone holds it too.
CloneSandbox ==
  /\ dPhase = "clone"
  /\ child' = "setup"
  /\ readers' = IF readers = {} THEN {} ELSE readers \cup {"child"}
  /\ dPhase' = "netlock"
  /\ UNCHANGED <<dIn, pol, stream, proxy, hidden, mounted, busEnv, joinEnv>>

\* --netlock: a process that outlives nothing of the parent's.  It closes its
\* descriptors first.
ForkNetlock ==
  /\ dPhase = "netlock"
  /\ dPhase' = "wait"
  /\ UNCHANGED <<dIn, pol, stream, proxy, readers, child, hidden, mounted, busEnv, joinEnv>>

\* waitpid(child), or a signal that my_handler passes on before it waits.
WaitChild ==
  /\ dPhase = "wait" /\ child = "gone"
  /\ dPhase' = "stop"
  /\ UNCHANGED <<dIn, pol, stream, proxy, readers, child, hidden, mounted, busEnv, joinEnv>>

\* dbus_proxy_stop closes the pipe and waits for the proxy.
StopClose ==
  /\ dPhase = "stop"
  /\ readers' = readers \ {"parent"}
  /\ dPhase' = IF proxy = "none" THEN "exited" ELSE "reap"
  /\ UNCHANGED <<dIn, pol, stream, proxy, child, hidden, mounted, busEnv, joinEnv>>

dbus_proxy_stop ==
  /\ dPhase = "reap" /\ proxy = "gone"
  /\ dPhase' = "exited"
  /\ UNCHANGED <<dIn, pol, stream, proxy, readers, child, hidden, mounted, busEnv, joinEnv>>

\* The parent is killed at any time.
ParentKilled ==
  /\ dPhase \notin {"idle", "exited"}
  /\ ParentExits
  /\ UNCHANGED <<dIn, pol, stream, proxy, child, hidden, mounted, busEnv, joinEnv>>

-----------------------------------------------------------------------------
(* The sandbox.                                                            *)

\* What is mounted over the socket of a bus.
socket_overlay(b) ==
  CASE pol[b] = "allow" -> "absent" [] pol[b] = "block" -> "empty" [] pol[b] = "filter" -> "proxy"

\* The addresses of a bus that are hidden: the sockets the code knows and the
\* path of the variable, when it is a plain path.
Known(b) == IF b = "user" THEN {<<"user", "std">>, <<"user", "std2">>} ELSE {<<"system", "std">>}
FromEnv(b) == IF dIn.addr[b] = "other" THEN {<<b, "other">>} ELSE {}

PolicyFor(b) ==
  IF pol[b] = "allow" THEN {} ELSE Known(b) \cup FromEnv(b)

AllAllowed == \A b \in Buses : pol[b] = "allow"
dbus_apply_policy ==
  /\ child = "setup" /\ dPhase # "netlock"
  /\ child' = "running"
  /\ IF AllAllowed \/ ~dIn.enabled THEN UNCHANGED <<hidden, mounted, busEnv>>
     ELSE /\ hidden' = UNION { PolicyFor(b) : b \in Buses }
          /\ mounted' = [b \in Buses |-> socket_overlay(b)]
          /\ busEnv' = [b \in Buses |-> IF pol[b] = "allow" THEN "host" ELSE "run"]
  /\ UNCHANGED <<dPhase, dIn, pol, stream, proxy, readers, joinEnv>>

\* The sandbox ends, by itself or by a signal; its processes end with it.
ChildGone ==
  /\ child \in {"setup", "running"}
  /\ child' = "gone"
  /\ readers' = readers \ {"child"}
  /\ UNCHANGED <<dPhase, dIn, pol, stream, proxy, hidden, mounted, busEnv, joinEnv>>

\* firejail --join: the variables follow the run sockets that exist.
JoinDbus ==
  /\ child = "running" /\ joinEnv = NotJoined
  /\ joinEnv' = [b \in Buses |-> IF mounted[b] # "absent" THEN "run" ELSE "host"]
  /\ UNCHANGED <<dPhase, dIn, pol, stream, proxy, readers, child, hidden, mounted, busEnv>>

(* xdg-dbus-proxy: it reads its arguments to their end, listens and writes *)
(* the byte, and exits when nobody reads the status pipe any more.         *)
ProxyReady ==
  /\ proxy = "starting" /\ dPhase \notin {"user", "system"}
  /\ proxy' = "ready"
  /\ UNCHANGED <<dPhase, dIn, pol, stream, readers, child, hidden, mounted, busEnv, joinEnv>>

ProxyExits ==
  /\ proxy = "ready" /\ readers = {}
  /\ proxy' = "gone"
  /\ UNCHANGED <<dPhase, dIn, pol, stream, readers, child, hidden, mounted, busEnv, joinEnv>>

ProxyFails ==
  /\ proxy \in {"starting", "ready"}
  /\ proxy' = "gone"
  /\ UNCHANGED <<dPhase, dIn, pol, stream, readers, child, hidden, mounted, busEnv, joinEnv>>

-----------------------------------------------------------------------------
DbusParent ==
  \/ dbus_check_profile \/ NoProxy \/ dbus_proxy_start \/ NoSocket
  \/ WriteUser \/ WriteSystem \/ ReadStatus \/ CloneSandbox \/ ForkNetlock
  \/ WaitChild \/ StopClose \/ dbus_proxy_stop

DbusNext ==
  \/ DbusBegin \/ DbusParent \/ ParentKilled
  \/ dbus_apply_policy \/ ChildGone \/ JoinDbus
  \/ ProxyReady \/ ProxyExits \/ ProxyFails

\* Every process goes on; the program in the sandbox may run for ever.
DbusFairness ==
  /\ WF_dbusVars(DbusParent) /\ WF_dbusVars(dbus_apply_policy)
  /\ WF_dbusVars(ProxyReady) /\ WF_dbusVars(ProxyExits)

DbusSpec == DbusInit /\ [][DbusNext]_dbusVars /\ DbusFairness

-----------------------------------------------------------------------------

\* check_bus_or_interface_name accepts exactly the names of the grammar, and
\* dbus_check_call_rule the rules whose name, interface and path are good.
NamesFollowGrammar ==
  LET name == <<"a", ".", "a">> IN
    \A s \in Strings(MaxName) :
      /\ \A h \in BOOLEAN : check_bus_or_interface_name(s, h) <=> GoodName(s, h)
      /\ dbus_check_call_rule(s, name, TRUE, << >>) <=> GoodName(s, TRUE)
      /\ dbus_check_call_rule(name, s, FALSE, << >>) <=> GoodName(s, FALSE)
      /\ dbus_check_call_rule(name, s, TRUE, << >>) <=> s = << >> \/ GoodName(s, FALSE)
      /\ dbus_check_call_rule(name, << >>, TRUE, s) <=> GoodPath(s)

\* What the proxy makes of its arguments: the rules between the address of a
\* bus and the next address are the rules of that bus.
RulesOf(b) ==
  LET start == { i \in DOMAIN stream : stream[i].arg = "address" /\ stream[i].bus = b }
      from == CHOOSE i \in start : TRUE
      rest == SubSeq(stream, from + 1, Len(stream))
      next == { i \in DOMAIN rest : rest[i].arg = "address" }
      mine == IF next = {} THEN rest ELSE SubSeq(rest, 1, (CHOOSE i \in next : \A j \in next : i <= j) - 1)
      rules == SelectSeq(mine, LAMBDA a : a.arg = "rule") IN
    IF start = {} THEN << >> ELSE [i \in DOMAIN rules |-> rules[i].line]

\* A sandbox with a filtered bus starts only when the proxy said that it
\* listens, and the proxy has every rule of the profile for that bus, in
\* order, and none of the other bus (dbus_proxy_start, write_profile).
FilteredByRules ==
  child \in {"setup", "running"} /\ dIn.enabled =>
    \A b \in Buses : pol[b] = "filter" =>
      /\ proxy \in {"ready", "gone"}
      /\ RulesOf(b) = SelectSeq(dIn.lines, LAMBDA l : l.bus = b)

\* A program under a policy other than allow reaches the bus through the run
\* socket only: the sockets of the bus and a path its variable names are
\* hidden, the variable points to the run socket, and what is mounted there is
\* the proxy for a filter and nothing for a block.
BusReplaced ==
  child = "running" /\ dIn.enabled =>
    \A b \in Buses : pol[b] # "allow" =>
      /\ Known(b) \subseteq hidden
      /\ dIn.addr[b] = "other" => <<b, "other">> \in hidden
      /\ busEnv[b] = "run"
      /\ mounted[b] = (IF pol[b] = "filter" THEN "proxy" ELSE "empty")

\* A program that joins a sandbox is given the buses of the sandbox (join.c
\* looks at the run sockets, dbus_apply_policy at the policy).
JoinSameBuses == joinEnv # NotJoined => joinEnv = busEnv

\* The buses a program reaches are those its policy decided on: through the
\* proxy with the rules of the profile, not at all, or as on the host.
BusesAsDecided == FilteredByRules /\ BusReplaced /\ JoinSameBuses

\* The proxy does not outlive the sandbox: when the parent is gone, killed or
\* not, and the sandbox with it, the proxy ends.
ProxyEnds == (dPhase = "exited" /\ child \in {"none", "gone"}) ~> (proxy \in {"none", "gone"})

\* The parent ends after the sandbox: waiting for the proxy never blocks it,
\* although the sandbox and the firewall helper were forked with the pipe open.
ParentEnds == (child = "gone") ~> (dPhase = "exited")
=============================================================================
