--------------------------- MODULE FirejailOptions ---------------------------
(***************************************************************************)
(* How firejail turns its command line, the profile files it reads and     *)
(* firejail.config into one configuration (main.c, profile.c, checkcfg.c). *)
(*                                                                         *)
(* main() walks over argv once.  Some options read a profile file at once  *)
(* (--profile, --include); the profile of the program, or the default one, *)
(* is only read after the last option.  The same settings can be made from *)
(* both sides, with different checks, and some checks are made between the *)
(* two.  The model keeps every such check and the moment it is made; the   *)
(* values of the options are abstracted to what the checks distinguish.    *)
(* The contents of the profile files and of argv are arbitrary.            *)
(***************************************************************************)
EXTENDS Naturals, FiniteSets, Sequences, TLC

CONSTANTS
  Family,           \* which groups of options appear on one command line
  MaxOptions,       \* bound: options and profile lines in one behaviour
  MaxNetOptions,    \* the same for the network options
  MaxBridges,       \* Bridge structures of Config; four in the code
  MaxIgnore,        \* MAX_PROFILE_IGNORE; 32 in the code
  MaxDns,           \* DNS servers of Config; four in the code
  MaxIncludeLevel   \* MAX_INCLUDE_LEVEL; 16 in the code

ASSUME BoundsAssumption ==
  /\ MaxOptions \in Nat /\ MaxNetOptions \in Nat
  /\ MaxBridges \in Nat \ {0}
  /\ MaxIgnore \in Nat /\ MaxDns \in Nat /\ MaxIncludeLevel \in Nat

VARIABLES
  phase,    \* where main() stands
  back,     \* where to go on after the profile file being read
  family,   \* the group of options this command line is made of
  feats,    \* features enabled in firejail.config; never changes
  root,     \* getuid() == 0; never changes
  on,       \* the arg_ flags that are 1 and the cfg pointers that are set
  dbus,     \* arg_dbus_user and arg_dbus_system
  bridge,   \* cfg.bridge0..3
  nets,     \* devices named by --net or net lines so far
  ifaces,   \* configured cfg.interface0..3
  dns,      \* cfg.dns1..4 in use
  ignored,  \* cfg.profile_ignore
  lines,    \* cfg.profile, the lines kept for the sandbox
  level,    \* include_level
  request,  \* the command run by run_cmd_and_exit, or the last --include
  used      \* options and lines consumed

vars == <<phase, back, family, feats, root, on, dbus, bridge, nets,
          ifaces, dns, ignored, lines, level, request, used>>

cfg == <<on, dbus, bridge, nets, ifaces, dns, ignored, lines>>

Features == {"seccomp", "network", "restricted-network", "overlayfs",
             "chroot", "private-home", "private-etc", "private-opt", "userns",
             "bind", "join", "file-transfer", "x11", "tracelog",
             "error-action"}

(* checkcfg(): restricted-network turns networking off for regular users.  *)
Checkcfg(f) ==
  IF f = "network"
  THEN "network" \in feats /\ ("restricted-network" \in feats => root)
  ELSE f \in feats

Attrs == {"ip", "ip_none", "dhcp", "mask", "mac", "mtu", "iprange", "ip6"}

NoBridge == [configured |-> FALSE, dev |-> 0, attr |-> [a \in Attrs |-> 0]]

Nothing == [cmd |-> "none"]

(* firejail.config switches features off and on again, from these defaults;*)
(* the last line about a feature counts.                                   *)
OffByDefault == {"restricted-network", "chroot", "tracelog"}

ReadConfig(no, yes) == ((Features \ OffByDefault) \ no) \cup yes

(* The features that a group of options depends on: the model varies them. *)
FamilyFeatures(f) ==
  [filter |-> {"seccomp"}, rootfs |-> {"overlayfs", "chroot", "userns"},
   private |-> {"private-home", "private-etc", "private-opt"},
   net |-> {"network", "restricted-network"}, dbus |-> {},
   profile |-> {"bind"},
   misc |-> {"seccomp", "error-action", "tracelog", "x11", "join"},
   command |-> {"network", "restricted-network", "seccomp", "join", "file-transfer", "x11"}][f]

(* init_cfg() clears Config.                                               *)
Init ==
  /\ phase = "early" /\ back = "none"
  /\ family \in Family
  /\ \E no \in SUBSET FamilyFeatures(family), yes \in SUBSET FamilyFeatures(family) :
       feats = ReadConfig(no, yes)
  /\ root \in BOOLEAN
  /\ on = {} /\ dbus = [user |-> "allow", system |-> "allow"]
  /\ bridge = [i \in 0 .. MaxBridges - 1 |-> NoBridge] /\ nets = 0
  /\ ifaces = 0 /\ dns = 0 /\ ignored = <<>> /\ lines = <<>> /\ level = 0
  /\ request = Nothing /\ used = 0

-----------------------------------------------------------------------------
(* The ways a step can end.                                                *)
Quit ==
  phase' = "exit" /\ UNCHANGED <<back, level, request>> /\ UNCHANGED cfg

Goto(p) ==
  phase' = p /\ UNCHANGED <<back, level, request>> /\ UNCHANGED cfg

Stay == UNCHANGED <<phase, back, level, request>>

Nop == Stay /\ UNCHANGED cfg

Set(S) ==
  /\ on' = on \cup S /\ Stay
  /\ UNCHANGED <<dbus, bridge, nets, ifaces, dns, ignored, lines>>

Run(c) ==
  /\ request' = [cmd |-> c] /\ phase' = "command"
  /\ UNCHANGED <<back, level>> /\ UNCHANGED cfg

JoinAllowed == Checkcfg("join") \/ root

Fixed == UNCHANGED <<family, feats, root>>

(* An option is the next element of argv; a line is the next line of the   *)
(* profile file being read, unless its command is on the ignore list.      *)
Bound == IF family = "net" THEN MaxNetOptions ELSE MaxOptions

Step == used < Bound /\ used' = used + 1 /\ Fixed

Ignored == {ignored[i] : i \in DOMAIN ignored}

Option(f) == phase = "args" /\ family = f /\ Step

Line(f, w) == phase = "file" /\ family = f /\ w \notin Ignored /\ Step

-----------------------------------------------------------------------------
(* firejail.config is read by the first checkcfg(); a line it does not     *)
(* understand ends the program.                                            *)
ConfigError == phase = "early" /\ Quit /\ UNCHANGED used /\ Fixed

(* The options main() looks for with check_arg() before the loop, because  *)
(* they change how the profiles read by earlier options are treated.       *)
Blocked == [cmd |-> "blacklist", ok |-> TRUE, from |-> "args"]

Early == [cmd |-> "noblacklist", ok |-> TRUE, from |-> "args"]

EarlyOptions ==
  /\ phase = "early" /\ phase' = "args" /\ UNCHANGED used /\ Fixed
  /\ \E early \in SUBSET {"allow_debuggers", "appimage"}, dhcp \in BOOLEAN :
       /\ (family # "rootfs" => "appimage" \notin early)
       /\ (family # "profile" => "allow_debuggers" \notin early /\ ~dhcp)
       /\ on' = early
       /\ lines' = (IF dhcp THEN <<Early>> ELSE <<>>) \o
                   (IF "allow_debuggers" \in early THEN <<Early>> ELSE <<>>)
  /\ UNCHANGED <<back, dbus, bridge, nets, ifaces, dns, ignored, level,
                 request>>

-----------------------------------------------------------------------------
(* Seccomp options.  On the command line a second filter for the same      *)
(* architecture is an error; in a profile the later line adds to or        *)
(* replaces what is there.                                                 *)
FilterLists == {"", "list", "drop", "keep"}

FilterSets(arch, l) ==
  {arch} \cup (IF l = "" THEN {} ELSE {arch \o "." \o l})

CmdSeccomp ==
  /\ Option("filter")
  /\ \E arch \in {"seccomp", "seccomp.32"}, l \in FilterLists :
       /\ (arch = "seccomp.32" => l # "")
       /\ IF Checkcfg("seccomp") /\ arch \notin on
          THEN Set(FilterSets(arch, l))
          ELSE Quit

CmdBlockSecondary ==
  /\ Option("filter")
  /\ IF Checkcfg("seccomp") /\ "seccomp.32" \notin on
     THEN Set({"block_secondary"})
     ELSE Quit

(* --protocol, --memory-deny-write-execute, --restrict-namespaces.         *)
CmdOtherFilters ==
  /\ Option("filter")
  /\ \E o \in {"protocol", "mdwe", "restrict_namespaces"} :
       IF Checkcfg("seccomp") THEN Set({o}) ELSE Quit

ProfSeccomp ==
  /\ Line("filter", "seccomp")
  /\ \E arch \in {"seccomp", "seccomp.32"}, l \in FilterLists :
       IF Checkcfg("seccomp") THEN Set(FilterSets(arch, l)) ELSE Nop

ProfOtherFilters ==
  /\ Line("filter", "mdwe")
  /\ \E o \in {"block_secondary", "protocol", "mdwe",
               "restrict_namespaces"} :
       IF Checkcfg("seccomp") THEN Set({o}) ELSE Nop

-----------------------------------------------------------------------------
(* Overlay, chroot, user namespace and capabilities.                       *)
CmdOverlay ==
  /\ Option("rootfs")
  /\ IF Checkcfg("overlayfs") /\ {"overlay", "chroot"} \cap on = {}
     THEN \E keep \in SUBSET {"overlay_keep"} : Set({"overlay"} \cup keep)
     ELSE Quit

CmdChroot ==
  /\ Option("rootfs")
  /\ IF Checkcfg("chroot") /\ "overlay" \notin on
     THEN Quit \/ Set({"chroot"})    \* fs_check_chroot_dir() may reject it
     ELSE Quit

(* check_user_namespace(): root and kernels without user namespaces cannot *)
(* use it.                                                                 *)
CheckUserNamespace ==
  \E kernel \in BOOLEAN :
    /\ on' = IF ~root /\ kernel THEN on \cup {"noroot"} ELSE on \ {"noroot"}
    /\ Stay /\ UNCHANGED <<dbus, bridge, nets, ifaces, dns, ignored, lines>>

CmdNoroot ==
  /\ Option("rootfs")
  /\ IF Checkcfg("userns") THEN CheckUserNamespace ELSE Quit

(* --caps.drop=all is the one capability option the check after the loop   *)
(* does not count.                                                         *)
CmdCaps ==
  /\ Option("rootfs")
  /\ \/ Set({"caps_drop_all"})
     \/ \E o \in {"caps", "caps_drop", "caps_keep"} : Set({o, "caps_cmdline"})
     \/ Quit                                      \* caps_check_list() fails

ProfOverlay ==
  /\ Line("rootfs", "overlay")
  /\ IF ~Checkcfg("overlayfs") THEN Nop
     ELSE IF {"overlay", "chroot"} \cap on # {} THEN Quit
     ELSE \E keep \in SUBSET {"overlay_keep"} : Set({"overlay"} \cup keep)

ProfNoroot ==
  /\ Line("rootfs", "noroot")
  /\ IF Checkcfg("userns") THEN CheckUserNamespace ELSE Nop

ProfCaps ==
  /\ Line("rootfs", "caps")
  /\ \/ \E o \in {"caps", "caps_drop_all", "caps_drop", "caps_keep"} : Set({o})
     \/ Quit

-----------------------------------------------------------------------------
(* Private directories.                                                    *)
CmdWritableEtc ==
  /\ Option("private")
  /\ IF "etc_private_keep" \in on THEN Quit ELSE Set({"writable_etc"})

CmdPrivateEtc ==
  /\ Option("private")
  /\ \E keep \in SUBSET {"etc_private_keep"} :
       IF Checkcfg("private-etc") /\ "writable_etc" \notin on
       THEN Set({"private_etc"} \cup keep)
       ELSE Quit

(* --private, and --private= which falls back to it for the home itself.   *)
CmdPrivate ==
  /\ Option("private")
  /\ \/ Set({"private"})
     \/ "home_private_keep" \in on /\ Quit
     \/ "home_private_keep" \notin on
        /\ (Quit \/ Set({"private"}) \/ Set({"private", "home_private"}))

CmdPrivateHome ==
  /\ Option("private")
  /\ IF Checkcfg("private-home") /\ "home_private" \notin on
     THEN Quit \/ Set({"private", "home_private_keep"})
     ELSE Quit

(* --private-opt, -srv, -bin and -lib with a list: one code for each, all  *)
(* with a feature of their own.                                            *)
CmdPrivateLists ==
  /\ Option("private")
  /\ IF Checkcfg("private-opt") THEN Quit \/ Set({"private_opt"}) ELSE Quit

(* --dns: further servers than the structure holds are dropped.            *)
AddDns ==
  /\ dns' = IF dns < MaxDns THEN dns + 1 ELSE dns
  /\ Stay /\ UNCHANGED <<on, dbus, bridge, nets, ifaces, ignored, lines>>

CmdDns == Option("private") /\ (Quit \/ AddDns)

ProfWritableEtc ==
  /\ Line("private", "writable-etc")
  /\ IF "etc_private_keep" \in on THEN Quit ELSE Set({"writable_etc"})

ProfPrivateEtc ==
  /\ Line("private", "private-etc")
  /\ \E keep \in SUBSET {"etc_private_keep"} :
       IF ~Checkcfg("private-etc") THEN Nop
       ELSE IF "writable_etc" \in on THEN Quit
       ELSE Set({"private_etc"} \cup keep)

(* Neither of the two profile lines looks for the other.                   *)
ProfPrivate ==
  /\ Line("private", "private")
  /\ Set({"private"}) \/ Set({"private", "home_private"}) \/ Quit

ProfPrivateHome ==
  /\ Line("private", "private-home")
  /\ IF Checkcfg("private-home") THEN Set({"private", "home_private_keep"})
                                 ELSE Nop

ProfPrivateLists ==
  /\ Line("private", "private-opt")
  /\ IF Checkcfg("private-opt") THEN Set({"private_opt"}) ELSE Nop

ProfDns == Line("private", "dns") /\ (Quit \/ AddDns)

-----------------------------------------------------------------------------
(* Network options.  An option about one device applies to the last bridge *)
(* configured so far.  attr records for which device (numbered in the      *)
(* order they are named) the attribute was given.                          *)
Configured == {i \in DOMAIN bridge : bridge[i].configured}

LastBridgeConfigured == CHOOSE i \in Configured : \A j \in Configured : j <= i

FirstFreeBridge ==
  CHOOSE i \in DOMAIN bridge \ Configured :
    \A j \in DOMAIN bridge \ Configured : i <= j

NetOnly ==
  Stay /\ UNCHANGED <<on, dbus, dns, ignored, lines>>

\* Mutant of NetNone: a later --net is not kept from taking a device.
NetNoneNoFlag ==
  /\ ifaces' = 0
  /\ bridge' = [i \in DOMAIN bridge |->
                  [bridge[i] EXCEPT !.configured = FALSE]]
  /\ Stay /\ UNCHANGED <<on, dbus, nets, dns, ignored, lines>>

(* --net=none forgets the devices but not what was said about them.        *)
NetNone ==
  /\ on' = on \cup {"nonetwork"} /\ ifaces' = 0
  /\ bridge' = [i \in DOMAIN bridge |->
                  [bridge[i] EXCEPT !.configured = FALSE]]
  /\ Stay /\ UNCHANGED <<dbus, nets, dns, ignored, lines>>

AddBridge ==
  IF Configured = DOMAIN bridge THEN Quit
  ELSE /\ nets' = nets + 1
       /\ bridge' = [bridge EXCEPT ![FirstFreeBridge].configured = TRUE,
                                   ![FirstFreeBridge].dev = nets + 1]
       /\ UNCHANGED ifaces /\ NetOnly

Give(given) ==
  LET br == LastBridgeConfigured IN
  /\ bridge' = [bridge EXCEPT ![br].attr =
                  [a \in Attrs |-> IF a \in given THEN bridge[br].dev
                                                  ELSE bridge[br].attr[a]]]
  /\ UNCHANGED <<nets, ifaces>> /\ NetOnly

Given(as) == \E a \in as : bridge[LastBridgeConfigured].attr[a] # 0

(* --iprange, --mac and --mtu: the first two may be given once for a       *)
(* device.  The value itself may be rejected.                              *)
GiveRange ==
  IF Configured = {} THEN Quit
  ELSE \/ \E a \in {"iprange", "mac"} : ~Given({a}) /\ Give({a})
       \/ Give({"mtu"})
       \/ Quit

(* --ip, --netmask and --ip6 may be given once for a device.               *)
GiveAddress ==
  IF Configured = {} THEN Quit
  ELSE \/ /\ ~Given({"ip", "ip_none"})
          /\ Give({"ip"}) \/ Give({"ip_none"}) \/ Give({"ip_none", "dhcp"})
       \/ ~Given({"mask", "ip_none"}) /\ Give({"mask"})
       \/ ~Given({"ip6"}) /\ Give({"ip6"})
       \/ Quit

CmdNetNone == Option("net") /\ NetNone

CmdNet == Option("net") /\ (IF Checkcfg("network") THEN AddBridge ELSE Quit)

CmdInterface ==
  /\ Option("net")
  /\ IF Checkcfg("network") /\ "nonetwork" \notin on /\ ifaces < MaxBridges
     THEN \/ Quit                                      \* no such interface
          \/ ifaces' = ifaces + 1 /\ UNCHANGED <<bridge, nets>> /\ NetOnly
     ELSE Quit

CmdNetRange ==
  Option("net") /\ (IF Checkcfg("network") THEN GiveRange ELSE Quit)

CmdNetAddress ==
  Option("net") /\ (IF Checkcfg("network") THEN GiveAddress ELSE Quit)

CmdDefaultgw ==
  Option("net") /\ (IF Checkcfg("network") THEN Quit \/ Set({"defaultgw"})
                                           ELSE Quit)

(* --netfilter, --netfilter6, --netns, --netlock, --scan.                  *)
CmdNetOther ==
  /\ Option("net")
  /\ IF Checkcfg("network")
     THEN Quit \/ \E o \in {"netfilter", "netns", "netlock"} : Set({o})
     ELSE Quit

ProfNetNone == Line("net", "net") /\ NetNone

ProfNet ==
  Line("net", "net") /\ (IF Checkcfg("network") THEN AddBridge ELSE Nop)

ProfNetRange ==
  Line("net", "mac") /\ (IF Checkcfg("network") THEN GiveRange ELSE Nop)

ProfNetAddress ==
  Line("net", "ip") /\ (IF Checkcfg("network") THEN GiveAddress ELSE Nop)

ProfNetOther ==
  /\ Line("net", "netfilter")
  /\ IF Checkcfg("network")
     THEN Quit \/ \E o \in {"netfilter", "netns", "netlock", "defaultgw"} :
                    Set({o})
     ELSE Nop

-----------------------------------------------------------------------------
(* D-Bus policies.                                                         *)
Buses == {"user", "system"}

LogFlag(b) == b \o "_log"

SetPolicy(b, policy) ==
  /\ dbus' = [dbus EXCEPT ![b] = policy]
  /\ Stay /\ UNCHANGED <<on, bridge, nets, ifaces, dns, ignored, lines>>

\* Mutant of DbusPolicy: filter replaces block.
DbusPolicyRelaxes ==
  \E b \in Buses :
    \/ SetPolicy(b, "filter")
    \/ IF LogFlag(b) \in on THEN Quit ELSE SetPolicy(b, "block")

(* filter does not relax none; none is refused once logging was asked for. *)
DbusPolicy ==
  \E b \in Buses :
    \/ IF dbus[b] = "block" THEN Nop ELSE SetPolicy(b, "filter")
    \/ IF LogFlag(b) \in on THEN Quit ELSE SetPolicy(b, "block")
    \/ Quit                                           \* an unknown policy

NoDbus ==
  /\ dbus' = [b \in Buses |-> "block"]
  /\ Stay /\ UNCHANGED <<on, bridge, nets, ifaces, dns, ignored, lines>>

CmdDbusPolicy == Option("dbus") /\ DbusPolicy

CmdNoDbus == Option("dbus") /\ NoDbus

CmdDbusLog ==
  /\ Option("dbus")
  /\ \/ \E b \in Buses :
          IF dbus[b] = "filter" THEN Set({LogFlag(b)}) ELSE Quit
     \/ IF "dbus_log_file" \in on THEN Quit ELSE Set({"dbus_log_file"})

ProfDbusPolicy == Line("dbus", "dbus-user") /\ DbusPolicy

ProfNoDbus == Line("dbus", "nodbus") /\ NoDbus

-----------------------------------------------------------------------------
(* Profile files, ignore lists and the lines kept for the sandbox.         *)
FsCommands == {"blacklist", "whitelist", "read-only", "bind"}

Keep(ls) ==
  /\ lines' = lines \o ls /\ Stay
  /\ UNCHANGED <<on, dbus, bridge, nets, ifaces, dns, ignored>>

(* profile_check_line() on a filesystem command: 1 keeps the line, 0 drops *)
(* it, and a bad file name (or bind without root) ends the program.  An    *)
(* ignored command is dropped before its arguments are looked at.          *)
CheckLine(c, ok) ==
  IF c \in Ignored THEN 0
  ELSE IF c = "bind" /\ ~Checkcfg("bind") THEN 0
  ELSE IF ~ok \/ (c = "bind" /\ ~root) THEN 2
  ELSE 1

(* --blacklist=, --whitelist=...: the line is added whatever               *)
(* profile_check_line() returns.                                           *)
CmdFsLine ==
  /\ Option("profile")
  /\ \E c \in FsCommands, ok \in BOOLEAN :
       IF (c = "bind" /\ ~Checkcfg("bind")) \/ CheckLine(c, ok) = 2
       THEN Quit
       ELSE Keep(<<[cmd |-> c, ok |-> ok, from |-> "args"]>>)

ProfFsLine ==
  /\ phase = "file" /\ family = "profile"
  /\ Step
  /\ \E c \in FsCommands, ok \in BOOLEAN :
       LET r == CheckLine(c, ok) IN
       CASE r = 0 -> Nop
         [] r = 1 -> Keep(<<[cmd |-> c, ok |-> ok, from |-> "file"]>>)
         [] r = 2 -> Quit

(* whitelist-ro is rewritten into two lines before any check.              *)
ProfWhitelistRo ==
  /\ phase = "file" /\ family = "profile"
  /\ Step
  /\ \E ok \in BOOLEAN :
       Keep(<<[cmd |-> "whitelist", ok |-> ok, from |-> "whitelist-ro"],
              [cmd |-> "read-only", ok |-> ok, from |-> "whitelist-ro"]>>)

(* The conditions a ?CONDITION: line may test, as they stand when the line *)
(* is read.                                                                *)
CondHolds(c) ==
  CASE c = "HAS_APPIMAGE" -> "appimage" \in on
    [] c = "HAS_NET" -> "nonetwork" \in on \/ Configured # {}
    [] c = "HAS_NODBUS" -> \E b \in Buses : dbus[b] # "allow"
    [] c = "HAS_PRIVATE" -> "private" \in on
    [] OTHER -> TRUE

(* A line under a condition: include and quiet are errors, anything else   *)
(* goes through profile_check_line() if the condition holds.               *)
ProfConditional ==
  /\ phase = "file" /\ family = "profile"
  /\ Step
  /\ \E c \in {"HAS_NET", "ALLOW_TRAY"} :
       \/ ~CondHolds(c) /\ Nop
       \/ CondHolds(c) /\ Quit
       \/ /\ CondHolds(c) /\ CheckLine("blacklist", TRUE) = 1
          /\ Keep(<<[cmd |-> "blacklist", ok |-> TRUE, from |-> "file"]>>)

AddIgnore(c) ==
  IF Len(ignored) >= MaxIgnore THEN Quit
  ELSE /\ ignored' = Append(ignored, c) /\ Stay
       /\ UNCHANGED <<on, dbus, bridge, nets, ifaces, dns, lines>>

IgnoreWords(f) ==
  [filter |-> {"seccomp"}, rootfs |-> {"noroot"},
   private |-> {"writable-etc"}, net |-> {"net"}, dbus |-> {"dbus-user"},
   profile |-> {"blacklist", "whitelist", "include"}, command |-> {},
   misc |-> {"tracelog"}][f]

CmdIgnore ==
  /\ phase = "args" /\ Step
  /\ \E c \in IgnoreWords(family) :
       IF "custom_profile" \in on THEN Quit ELSE AddIgnore(c)

ProfIgnore ==
  /\ phase = "file" /\ Step
  /\ \E c \in IgnoreWords(family) : AddIgnore(c)

ProfIgnored == phase = "file" /\ Step /\ ignored # <<>> /\ Nop

(* profile_read(): the file is opened, or missing (fatal unless its name   *)
(* ends in .local), or one the command line asks to skip.                  *)
ReadProfile(then, newOn) ==
  \/ /\ phase' = "file" /\ back' = then /\ on' = newOn
     /\ UNCHANGED <<level, request, dbus, bridge, nets, ifaces, dns, ignored,
                    lines>>
  \/ Quit

(* --profile= reads a file or a named profile at once.                     *)
CmdProfile ==
  /\ phase = "args" /\ Step
  /\ IF "noprofile" \in on THEN Quit
     ELSE ReadProfile("args", on \cup {"custom_profile"})

CmdNoprofile ==
  /\ Option("profile")
  /\ IF "custom_profile" \in on THEN Quit
     ELSE Set({"noprofile", "keep_config_pulse"})

(* --include=: a name without a slash is read as a local file when access  *)
(* to it fails, and looked up in the configuration directories otherwise.  *)
CmdInclude ==
  /\ Option("profile")
  /\ \E slash, local, known, dotlocal \in BOOLEAN :
       LET asked == [cmd |-> "include", slash |-> slash, local |-> local,
                     known |-> known, dotlocal |-> dotlocal]
           read == (slash /\ local) \/ (~slash /\ local /\ known)
           skip == ~local /\ dotlocal
       IN  /\ request' = asked
           /\ phase' = IF read THEN "file" ELSE IF skip THEN "args" ELSE "exit"
           /\ back' = IF read THEN "args" ELSE back
           /\ UNCHANGED level /\ UNCHANGED cfg

(* include lines nest; a missing .local file is skipped.                   *)
ProfInclude ==
  /\ phase = "file" /\ family = "profile" /\ "include" \notin Ignored
  /\ Step
  /\ \/ Nop                                  \* .local, or a skipped .inc
     \/ Quit                                 \* no such file
     \/ IF level + 1 > MaxIncludeLevel THEN Quit
        ELSE /\ level' = level + 1
             /\ UNCHANGED <<phase, back, request>> /\ UNCHANGED cfg

EndOfFile ==
  /\ phase = "file" /\ UNCHANGED used /\ Fixed /\ UNCHANGED cfg
  /\ IF level > 0 THEN level' = level - 1 /\ UNCHANGED <<phase, back, request>>
     ELSE phase' = back /\ back' = "none" /\ UNCHANGED <<level, request>>

-----------------------------------------------------------------------------
(* The remaining options: most only raise a flag.                          *)
FsFlags == {"keep_config_pulse", "writable_var", "machine_id"}

DeviceFlags == {"nosound", "nodvd", "nogroups"}

AddNoprinters ==
  /\ on' = on \cup {"noprinters"}
  /\ lines' = lines \o <<Blocked, Blocked>> /\ Stay
  /\ UNCHANGED <<dbus, bridge, nets, ifaces, dns, ignored>>

CmdFsFlag == Option("misc") /\ \E o \in FsFlags : Set({o})

CmdDeviceFlag ==
  /\ Option("misc")
  /\ AddNoprinters \/ \E o \in DeviceFlags : Set({o})

ProfFsFlag == Line("misc", "writable-var") /\ \E o \in FsFlags : Set({o})

ProfDeviceFlag ==
  /\ Line("misc", "nosound")
  /\ AddNoprinters \/ \E o \in DeviceFlags : Set({o})

(* --trace= checks the file name; --tracelog is a feature, and a profile   *)
(* that asks for it in vain is not even warned about.                      *)
CmdTrace ==
  /\ Option("misc")
  /\ \/ Set({"trace"}) \/ Quit
     \/ IF Checkcfg("tracelog") THEN Set({"tracelog"}) ELSE Quit

ProfTracelog ==
  /\ Line("misc", "tracelog")
  /\ IF Checkcfg("tracelog") THEN Set({"tracelog"}) ELSE Nop

(* Resource limits must parse; nice is cut at zero for regular users.      *)
SetLimits ==
  \/ Quit \/ Set({"rlimit"})
  \/ Set({"nice"})
  \/ Set(IF root THEN {"nice", "nice_negative"} ELSE {"nice"})

CmdLimits == Option("misc") /\ SetLimits

ProfLimits == Line("misc", "rlimit-as") /\ SetLimits

(* Names are checked after they are stored.                                *)
CmdName == Option("misc") /\ (Quit \/ Set({"name"}) \/ Set({"hostname"}))

ProfName == Line("misc", "name") /\ (Quit \/ Set({"name"}) \/ Set({"hostname"}))

(* seccomp-error-action may be fixed in firejail.config.                   *)
CmdErrorAction ==
  /\ Option("misc")
  /\ IF Checkcfg("seccomp") /\ Checkcfg("error-action")
     THEN Quit \/ Set({"error_action"})
     ELSE Quit

\* Mutant of ProfErrorAction: seccomp-error-action of the configuration is not
\* looked at.
ProfErrorActionAnyway ==
  /\ Line("misc", "seccomp-error-action")
  /\ IF Checkcfg("seccomp") THEN Quit \/ Set({"error_action"}) ELSE Nop

ProfErrorAction ==
  /\ Line("misc", "seccomp-error-action")
  /\ IF Checkcfg("seccomp") /\ Checkcfg("error-action")
     THEN Quit \/ Set({"error_action"})
     ELSE Nop

(* An x11 line starts the X server, which runs firejail again, unless this *)
(* is that second firejail.                                                *)
ProfX11 ==
  /\ Line("misc", "x11")
  /\ \/ Set({"x11_block"})
     \/ IF Checkcfg("x11") THEN Nop \/ Set({"x11_xorg"}) \/ Run("x11") ELSE Nop

CmdX11 ==
  /\ Option("misc")
  /\ \/ Set({"x11_block"})
     \/ IF Checkcfg("x11") THEN Set({"x11_xorg"}) ELSE Quit

ProfJoinOrStart ==
  /\ Line("misc", "join-or-start")
  /\ IF JoinAllowed THEN Run("join") \/ Set({"name"}) \/ Quit ELSE Nop

-----------------------------------------------------------------------------
(* run_cmd_and_exit(): options that are commands.  Each names the feature  *)
(* it needs (or ""), whether only root may use it, and whether it refuses  *)
(* to run after --private-cwd.                                             *)
Command(f, r, cwd) == [feature |-> f, root |-> r, cwd |-> cwd]

X11Commands == [c \in {"x11", "x11=xpra", "x11=xephyr", "x11=xvfb"} |->
  Command("x11", FALSE, FALSE)]

TraceCommands == [c \in {"nettrace", "dnstrace", "snitrace", "icmptrace"} |->
  Command("network", TRUE, FALSE)]

BandwidthCommand == [c \in {"bandwidth"} |-> Command("network", FALSE, FALSE)]

SeccompCommands ==
  [c \in {"debug-syscalls", "debug-errnos", "seccomp.print",
          "protocol.print"} |-> Command("seccomp", FALSE, FALSE)]

PrintCommands ==
  [c \in {"profile.print", "cpu.print", "caps.print", "fs.print", "dns.print",
          "apparmor.print", "debug-caps"} |-> Command("", FALSE, FALSE)]

MonitorCommands ==
  [c \in {"list", "tree", "top", "netstats", "net.print"} |->
     Command(IF c \in {"netstats", "net.print"} THEN "network" ELSE "",
             FALSE, FALSE)]

TransferCommands == [c \in {"get", "put", "ls", "cat"} |->
  Command("file-transfer", FALSE, TRUE)]

JoinCommands ==
  [c \in {"join-network", "join-filesystem", "shutdown"} |->
     CASE c = "join-network" -> Command("network", TRUE, FALSE)
       [] c = "join-filesystem" -> Command("", TRUE, FALSE)
       [] c = "shutdown" -> Command("", FALSE, FALSE)]

Commands == X11Commands @@ TraceCommands @@ BandwidthCommand @@ JoinCommands @@
            SeccompCommands @@ PrintCommands @@ MonitorCommands @@
            TransferCommands

(* A permitted command runs, or fails on its arguments or on the pid.      *)
RunCommand ==
  /\ Option("command")
  /\ \E c \in DOMAIN Commands :
       IF /\ Commands[c].feature = "" \/ Checkcfg(Commands[c].feature)
          /\ Commands[c].root => root
          /\ Commands[c].cwd => "private_cwd" \notin on
       THEN Run(c) \/ Quit
       ELSE Quit

CmdJoin == Option("command") /\ (IF JoinAllowed THEN Run("join") \/ Quit
                                                ELSE Quit)

(* --join-or-start joins the sandbox of that name; without one, the name   *)
(* is taken for the new sandbox, if it is a valid one.                     *)
CmdJoinOrStart ==
  Option("command") /\ (IF JoinAllowed THEN Run("join") \/ Set({"name"}) \/ Quit
                                       ELSE Quit)

CmdPrivateCwd == Option("command") /\ Set({"private_cwd"})

-----------------------------------------------------------------------------
(* After the loop: the checks main() makes before it loads the profile.    *)
AnyDhcp == \E i \in DOMAIN bridge : bridge[i].attr["dhcp"] # 0

NorootOff(S) ==
  IF {"overlay", "chroot"} \cap S # {} THEN S \ {"noroot"} ELSE S

Conflicts ==
  \/ ~root /\ "caps_cmdline" \in on /\ {"appimage", "overlay", "chroot"} \cap on # {}
  \/ "writable_etc" \in on /\ (dns > 0 \/ AnyDhcp)

ProgramFound ==
  /\ phase = "args" /\ UNCHANGED used /\ Fixed
  /\ \/ Conflicts /\ Quit
     \/ /\ ~Conflicts /\ phase' = "load"
        /\ on' = NorootOff(on) \cup
                 (IF "block_secondary" \in on THEN {"seccomp"} ELSE {})
        /\ UNCHANGED <<back, level, request, dbus, bridge, nets, ifaces, dns,
                       ignored, lines>>

(* The profile of the program, else the default profile, unless a profile  *)
(* was given or refused.                                                   *)
LoadProfile ==
  /\ phase = "load" /\ UNCHANGED used /\ Fixed
  /\ IF {"noprofile", "custom_profile"} \cap on # {} THEN Goto("check")
     ELSE ReadProfile("check", on \cup {"custom_profile"})

(* net_configure_bridge(): a device that is missing, too small or does not *)
(* contain the given range is an error; one whose mask or address is       *)
(* unknown stays without an address.                                       *)
NoAddress(S) ==
  [i \in DOMAIN bridge |->
     IF i \in S THEN [bridge[i] EXCEPT !.attr["ip_none"] = bridge[i].dev]
                ELSE bridge[i]]

NetCheckCfg ==
  /\ phase = "check" /\ UNCHANGED used /\ Fixed
  /\ \/ Configured # {} /\ Quit
     \/ /\ "defaultgw" \in on /\ Configured = {} /\ ifaces = 0 /\ Quit
     \/ /\ Configured = {} /\ ("defaultgw" \in on => ifaces > 0)
        /\ Goto("noroot")
     \/ /\ Configured # {} /\ "nonetwork" \notin on
        /\ \E S \in SUBSET Configured : bridge' = NoAddress(S)
        /\ \E gw \in SUBSET {"defaultgw"} : on' = on \cup gw
        /\ phase' = "noroot"
        /\ UNCHANGED <<back, level, request, dbus, nets, ifaces, dns, ignored,
                       lines>>

\* Mutant of NorootAgain: the first check is relied upon.
NorootNotAgain ==
  /\ phase = "noroot" /\ UNCHANGED used /\ Fixed /\ Goto("start")

(* The user namespace check made again, now that the profile is known.     *)
NorootAgain ==
  /\ phase = "noroot" /\ phase' = "start" /\ UNCHANGED used /\ Fixed
  /\ on' = NorootOff(on)
  /\ UNCHANGED <<back, level, request, dbus, bridge, nets, ifaces, dns,
                 ignored, lines>>

-----------------------------------------------------------------------------
(* main() has started the sandbox, run a command or given up.              *)
OptionsDone ==
  phase \in {"start", "command", "exit"} /\ UNCHANGED vars

CmdOption ==
  \/ CmdSeccomp \/ CmdBlockSecondary \/ CmdOtherFilters
  \/ CmdOverlay \/ CmdChroot \/ CmdNoroot \/ CmdCaps
  \/ CmdWritableEtc \/ CmdPrivateEtc \/ CmdPrivate \/ CmdPrivateHome
  \/ CmdPrivateLists \/ CmdDns
  \/ CmdNetNone \/ CmdNet \/ CmdInterface \/ CmdNetRange \/ CmdNetAddress
  \/ CmdDefaultgw   \/ CmdNetOther \/ CmdDbusPolicy \/ CmdNoDbus \/ CmdDbusLog
  \/ CmdFsLine \/ CmdIgnore \/ CmdProfile \/ CmdNoprofile \/ CmdInclude
  \/ CmdFsFlag \/ CmdDeviceFlag \/ CmdTrace \/ CmdLimits \/ CmdName
  \/ CmdErrorAction \/ CmdX11
  \/ RunCommand \/ CmdJoin \/ CmdJoinOrStart \/ CmdPrivateCwd

ProfileLine ==
  \/ ProfSeccomp \/ ProfOtherFilters \/ ProfOverlay \/ ProfNoroot \/ ProfCaps
  \/ ProfWritableEtc \/ ProfPrivateEtc \/ ProfPrivate \/ ProfPrivateHome
  \/ ProfPrivateLists \/ ProfDns \/ ProfNetNone \/ ProfNet
  \/ ProfNetRange \/ ProfNetAddress \/ ProfNetOther \/ ProfDbusPolicy \/ ProfNoDbus
  \/ ProfFsLine \/ ProfWhitelistRo \/ ProfConditional \/ ProfIgnore
  \/ ProfFsFlag \/ ProfDeviceFlag \/ ProfTracelog \/ ProfLimits \/ ProfName
  \/ ProfErrorAction \/ ProfX11 \/ ProfJoinOrStart
  \/ ProfIgnored \/ ProfInclude \/ EndOfFile

Next ==
  \/ ConfigError \/ EarlyOptions \/ CmdOption \/ ProfileLine
  \/ ProgramFound \/ LoadProfile \/ NetCheckCfg \/ NorootAgain \/ OptionsDone

Spec == Init /\ [][Next]_vars

-----------------------------------------------------------------------------

(* Overlay and chroot exclude each other whichever of the command line,    *)
(* --profile and the program's profile names them, and --noroot never      *)
(* reaches the clone() call together with either of them, although the     *)
(* profile that may bring the overlay is read after main() has first       *)
(* switched noroot off.                                                    *)
RootfsIsConsistent ==
  /\ ~ ({"overlay", "chroot"} \subseteq on)
  /\ phase = "start" /\ "noroot" \in on => {"overlay", "chroot"} \cap on = {}

(* A regular user who set capabilities on the command line never starts a  *)
(* chroot or an appimage sandbox.                                          *)
CapsCmdlineRefused ==
  phase = "start" /\ ~root /\ "caps_cmdline" \in on =>
    {"chroot", "appimage"} \cap on = {}

(* --noprofile and a profile are never both in force, in whatever order    *)
(* the options come and whatever main() loads after them.                  *)
NoprofileMeansNone == "noprofile" \in on => "custom_profile" \notin on

(* Options that exclude each other never reach the sandbox together, in    *)
(* whatever order and from whatever source they come.                      *)
ConflictsExcluded ==
  RootfsIsConsistent /\ CapsCmdlineRefused /\ NoprofileMeansNone

(* What net_check_cfg() asserts: the bridges in use are the first ones, so *)
(* that bridge0 is there whenever any bridge is.                           *)
BridgesFillInOrder ==
  \A i \in Configured : \A j \in DOMAIN bridge : j < i => j \in Configured

(* --net=none leaves the addresses of forgotten devices in the Bridge      *)
(* structures, and a later --net takes such a structure over.  No sandbox  *)
(* starts with an attribute that was given for another device.             *)
NoStaleAttributes ==
  phase \in {"noroot", "start"} =>
    \A i \in Configured : \A a \in Attrs :
      bridge[i].attr[a] \in {0, bridge[i].dev}

(* A sandbox that was asked to have no network has no device to move into  *)
(* its network namespace.                                                  *)
NonetworkMeansNone ==
  phase = "start" /\ "nonetwork" \in on => Configured = {} /\ ifaces = 0

(* The Bridge structures a sandbox starts with are in order, none is half  *)
(* filled from a device that was forgotten, and --net=none means none.     *)
BridgesAreConsistent ==
  BridgesFillInOrder /\ NoStaleAttributes /\ NonetworkMeansNone

(* What the options of a feature that firejail.config can switch off set.  *)
SettingOf ==
  [f \in {"seccomp", "overlayfs", "chroot", "userns", "private-etc",
          "private-opt", "private-home", "tracelog", "error-action",
          "x11"} |->
     CASE f = "seccomp" -> {"seccomp", "seccomp.32", "block_secondary",
                            "protocol", "mdwe", "restrict_namespaces",
                            "error_action"}
       [] f = "overlayfs" -> {"overlay"} [] f = "chroot" -> {"chroot"}
       [] f = "userns" -> {"noroot"} [] f = "private-etc" -> {"private_etc"}
       [] f = "private-opt" -> {"private_opt"}
       [] f = "private-home" -> {"home_private_keep"}
       [] f = "tracelog" -> {"tracelog"} [] f = "x11" -> {"x11_xorg"}
       [] f = "error-action" -> {"error_action"}]

(* The administrator's firejail.config wins: no option or profile line     *)
(* leaves a setting of a feature that is switched off.                     *)
DisabledFeaturesUnused ==
  /\ \A f \in DOMAIN SettingOf \ feats : SettingOf[f] \cap on = {}
  /\ ~Checkcfg("network") =>
       nets = 0 /\ ifaces = 0 /\ {"netfilter", "netns", "netlock"} \cap on = {}

(* restricted-network keeps regular users away from every command that     *)
(* looks into or changes the network of a sandbox.                         *)
RestrictedNetworkCommands ==
  phase = "command" /\ ~root /\ "restricted-network" \in feats =>
    request.cmd \notin {"nettrace", "dnstrace", "bandwidth", "netstats",
                        "net.print", "join-network"}

(* The administrator's configuration holds for options, profile lines and  *)
(* commands alike.                                                         *)
AdministratorWins == DisabledFeaturesUnused /\ RestrictedNetworkCommands

Rank == [allow |-> 0, filter |-> 1, block |-> 2]

(* Options and profiles are read in an order nobody controls: no later one *)
(* relaxes a D-Bus policy, and a line read from a profile whose command is *)
(* ignored at that moment is never kept for the sandbox.                   *)
LaterLinesRespectEarlier ==
  [][/\ \A b \in Buses : Rank[dbus[b]] <= Rank[dbus'[b]]
     /\ \A i \in DOMAIN lines' \ DOMAIN lines :
          lines'[i].from = "file" => lines'[i].cmd \notin Ignored]_vars
=============================================================================
