----------------------------- MODULE FirejailX11 -----------------------------
(***************************************************************************)
(* x11.c, outside the sandbox: firejail --x11 starts an X server on a free *)
(* display, waits for its socket, starts itself again as the jail with     *)
(* DISPLAY set, and ends the one when the other ends.                      *)
(*                                                                         *)
(* The processes are the launcher and its children (the server, the jail   *)
(* and, for xpra, a client and a stop command).  Servers of other users or *)
(* of other launchers come and go on the same displays.                    *)
(***************************************************************************)
EXTENDS Integers, Sequences, FiniteSets, SequencesExt

CONSTANTS Displays,    \* X11_DISPLAY_START .. X11_DISPLAY_END - 1
          MaxTries,    \* tries for a free display, 100 in the code
          StartWait,   \* seconds to wait for the socket, 10 in the code
          ArgRoom      \* size of server_argv, 256 in the code

ASSUME X11Assumption == MaxTries \in Nat \ {0} /\ StartWait \in Nat \ {0} /\ ArgRoom \in Nat

VARIABLES
  xpc,        \* where the launcher is
  server,     \* the kind of server: xvfb, xephyr, xpra_old or xpra_new
  disp,       \* the chosen display
  tries,      \* displays tried so far
  n,          \* the seconds counted by the polling loops
  status,     \* the exit status
  proc,       \* the state of each child
  term,       \* the children with a SIGTERM on its way
  stray,      \* history: signals sent to a child that was already reaped
  listener,   \* who listens on each display
  sockfile,   \* the displays with a file /tmp/.X11-unix/X<n>
  sees        \* whose server the jail is connected to

x11Vars == <<xpc, server, disp, tries, n, status, proc, term, stray, listener, sockfile, sees>>

Roles == {"server", "client", "jail", "stop"}
Alive == {"starting", "running"}
NoDisplay == 0

-----------------------------------------------------------------------------
(* Arguments.                                                              *)

\* The quoting pass over the extra parameters of firejail.config, a sequence
\* of characters: a quote that opens, and a space outside quotes, become the
\* end of a string.
EOS == "\\0"
Marked(s) ==
  FoldLeft(LAMBDA a, c :
             LET dq == IF c = "\"" THEN ~a.dq ELSE a.dq
                 sq == IF c = "'" THEN ~a.sq ELSE a.sq
                 opens == (c = "\"" /\ dq) \/ (c = "'" /\ sq)
                 splits == c = " " /\ ~dq /\ ~sq IN
               [t |-> Append(a.t, IF opens \/ splits THEN EOS ELSE c), dq |-> dq, sq |-> sq,
                mixed |-> a.mixed \/ (dq /\ sq)],
           [t |-> << >>, dq |-> FALSE, sq |-> FALSE, mixed |-> FALSE], s)

\* The C string that starts at position k.
CString(t, k) ==
  LET ends == { j \in k..Len(t) : t[j] = EOS } IN
    IF ends = {} THEN SubSeq(t, k, Len(t))
    ELSE SubSeq(t, k, (CHOOSE j \in ends : \A i \in ends : j <= i) - 1)

ParamStarts(t) ==
  << 1 >> \o
  FlattenSeq([i \in 1..(Len(t) - 1) |->
    CASE t[i] = EOS /\ t[i + 1] \in {"\"", "'"} -> << i + 2 >>
      [] t[i] = EOS /\ t[i + 1] \notin {"\"", "'", EOS} -> << i + 1 >>
      [] t[i] # EOS \/ t[i + 1] = EOS -> << >>])

extra_params(s) ==
  IF s = << >> THEN << >>
  ELSE LET t == Marked(s).t IN [i \in DOMAIN ParamStarts(t) |-> CString(t, ParamStarts(t)[i])]

\* The parameters are refused: mixed or open quotes, or no room in the array,
\* with `pos` entries before them, when the loop looks at the next character.
ParamsRefused(s, pos) ==
  \/ Marked(s).mixed \/ Marked(s).dq
  \/ \E i \in 1..(Len(s) - 1) : pos + Len(ParamStarts(SubSeq(Marked(s).t, 1, i))) >= ArgRoom - 2

\* The whole array of each server, and the part that execvp sees.
NULL == << "NULL" >>
Base(k) ==
  CASE k = "xvfb" -> << "Xvfb", "display", "-screen", "0", "xvfb_screen" >>
    [] k = "xephyr" -> << "Xephyr", "-ac", "-br", "-noreset", "-screen", "xephyr_screen",
                          "-title", "firejail x11 sandbox" >>
    [] k = "xpra_old" -> << "xpra", "start", "display", "--no-daemon" >>
    [] k = "xpra_new" -> << "xpra", "start", "display", "--daemon=no", "--attach=yes",
                            "--exit-with-children=yes", "--start-child" >>
Arg(a) == << a >>
Args(k) == [i \in DOMAIN Base(k) |-> Arg(Base(k)[i])]
xvfb_argv(s) == Args("xvfb") \o extra_params(s) \o << NULL >>
xephyr_argv(s) == Args("xephyr") \o extra_params(s) \o << Arg("display"), NULL >>
xpra_old_argv(s) == Args("xpra_old") \o extra_params(s) \o << NULL >>
xpra_new_argv(s) == Args("xpra_new") \o << NULL >> \o extra_params(s) \o << NULL >>

Executed(argv) == SubSeq(argv, 1, (CHOOSE i \in DOMAIN argv : argv[i] = NULL /\ \A j \in 1..(i - 1) : argv[j] # NULL) - 1)

-----------------------------------------------------------------------------
(* Processes.                                                              *)

Has(role) == proc[role] \in Alive
Kill(roles) ==
  /\ term' = term \cup { r \in roles : Has(r) }
  /\ stray' = stray \cup { r \in roles : proc[r] = "reaped" }

\* The launcher exits; init reaps what it left.
Orphaned == [r \in Roles |-> IF proc[r] = "zombie" THEN "reaped" ELSE proc[r]]
Dead == IF xpc = "exited" THEN "reaped" ELSE "zombie"

Exit(st) ==
  /\ xpc' = "exited"
  /\ status' = st

X11Init ==
  /\ xpc = "idle"
  /\ server = "none"
  /\ disp = NoDisplay
  /\ tries = 0
  /\ n = 0
  /\ status = 0
  /\ proc = [r \in Roles |-> "none"]
  /\ term = {}
  /\ stray = {}
  /\ listener = [d \in Displays |-> "none"]
  /\ sockfile = {}
  /\ sees = "none"

\* x11_start and the checks of the three functions; displays may have servers
\* or socket files that were left behind.
Chosen(option, installed, attach) ==
  CASE option = "xvfb" -> IF "Xvfb" \in installed THEN "xvfb" ELSE "none"
    [] option = "xephyr" \/ (option = "any" /\ "xpra" \notin installed) ->
         IF "Xephyr" \in installed THEN "xephyr" ELSE "none"
    [] option \in {"xpra", "any"} /\ "xpra" \in installed -> IF attach THEN "xpra_new" ELSE "xpra_old"
    [] option = "xpra" /\ "xpra" \notin installed -> "none"

X11Begin ==
  /\ xpc = "idle"
  /\ \E option \in {"any", "xvfb", "xephyr", "xpra"}, installed \in SUBSET {"Xvfb", "Xephyr", "xpra"},
        attach \in BOOLEAN, root \in BOOLEAN :
       /\ server' = Chosen(option, installed, attach)
       /\ IF root THEN Exit(1)
          ELSE IF server' = "none" THEN Exit(0)
          ELSE xpc' = "choose" /\ status' = 0
  /\ \E used \in SUBSET Displays, files \in SUBSET Displays :
       /\ listener' = [d \in Displays |-> IF d \in used THEN "other" ELSE "none"]
       /\ sockfile' = files
  /\ UNCHANGED <<disp, tries, n, proc, term, stray, sees>>

\* random_display_number: nobody listens, in either namespace.
random_display_number ==
  /\ xpc = "choose" /\ tries < MaxTries
  /\ \E d \in Displays :
       IF listener[d] = "none" THEN disp' = d /\ xpc' = "fork server"
       ELSE UNCHANGED <<disp, xpc>>
  /\ tries' = tries + 1
  /\ UNCHANGED <<server, n, status, proc, term, stray, listener, sockfile, sees>>

NoDisplayFound ==
  /\ xpc = "choose" /\ tries = MaxTries
  /\ Exit(1)
  /\ UNCHANGED <<server, disp, tries, n, proc, term, stray, listener, sockfile, sees>>

\* Parameters that cannot be parsed, or too many of them, end the launcher.
BadParams ==
  /\ xpc = "fork server"
  /\ Exit(1)
  /\ UNCHANGED <<server, disp, tries, n, proc, term, stray, listener, sockfile, sees>>

Fork(role, next) ==
  /\ proc' = [proc EXCEPT ![role] = "starting"]
  /\ xpc' = next
  /\ UNCHANGED <<server, disp, tries, n, status, term, stray, listener, sockfile, sees>>

ForkServer ==
  /\ xpc = "fork server"
  /\ Fork("server", IF server = "xpra_new" THEN "wait" ELSE "poll")

\* The loop that waits for the socket: ++n < 10.
PollSocket ==
  /\ xpc = "poll"
  /\ n' = n + 1
  /\ IF n + 1 = StartWait THEN Exit(1) /\ proc' = Orphaned
     ELSE /\ xpc' = IF disp \notin sockfile THEN "poll"
                    ELSE IF server = "xpra_old" THEN "fork client" ELSE "fork jail"
          /\ UNCHANGED <<status, proc>>
  /\ UNCHANGED <<server, disp, tries, term, stray, listener, sockfile, sees>>

ForkClient == xpc = "fork client" /\ Fork("client", "fork jail")
ForkJail == xpc = "fork jail" /\ Fork("jail", "wait")

\* wait(NULL) returns a child that ended.
Reaped(role) ==
  /\ proc[role] = "zombie"
  /\ proc' = [proc EXCEPT ![role] = "reaped"]

\* Mutant of WaitPair: the launcher does not wait for the other one.
WaitPairOnce ==
  /\ xpc = "wait" /\ server \in {"xvfb", "xephyr"}
  /\ \E role \in Roles :
       Reaped(role) /\ Kill(IF role = "server" THEN {"jail"} ELSE {"server"})
  /\ Exit(0)
  /\ UNCHANGED <<server, disp, tries, n, listener, sockfile, sees>>

\* Xvfb and Xephyr: kill the other one and wait for it.
WaitPair ==
  /\ xpc = "wait" /\ server \in {"xvfb", "xephyr"}
  /\ \E role \in Roles :
       Reaped(role) /\ Kill(IF role = "server" THEN {"jail"} ELSE {"server"})
  /\ xpc' = "funeral"
  /\ UNCHANGED <<server, disp, tries, n, status, listener, sockfile, sees>>

Funeral ==
  /\ xpc = "funeral"
  /\ \E role \in Roles : Reaped(role)
  /\ Exit(0)
  /\ UNCHANGED <<server, disp, tries, n, term, stray, listener, sockfile, sees>>

\* The old xpra: the client's end is ignored; the server's end ends the
\* launcher; the jail's end starts the stop command.
WaitXpra ==
  /\ xpc = "wait" /\ server = "xpra_old"
  /\ \E role \in Roles :
       /\ proc[role] = "zombie"
       /\ CASE role = "server" ->
                 /\ Kill({"jail", "client"})
                 /\ Exit(0)
                 /\ proc' = [Orphaned EXCEPT ![role] = "reaped"]
            [] role = "jail" ->
                 /\ proc' = [proc EXCEPT ![role] = "reaped", !["stop"] = "running"]
                 /\ xpc' = "stopping"
                 /\ UNCHANGED <<status, term, stray>>
            [] role \in {"client", "stop"} ->
                 /\ proc' = [proc EXCEPT ![role] = "reaped"]
                 /\ UNCHANGED <<xpc, status, term, stray>>
  /\ UNCHANGED <<server, disp, tries, n, listener, sockfile, sees>>

\* The loop that waits for the server to stop; n goes on from the first loop.
StopPoll ==
  /\ xpc = "stopping"
  /\ n' = n + 1
  /\ IF n + 1 >= StartWait \/ proc["server"] = "zombie"
     THEN xpc' = "stopped" ELSE UNCHANGED xpc
  /\ proc' = IF n + 1 < StartWait /\ proc["server"] = "zombie" THEN [proc EXCEPT !["server"] = "reaped"] ELSE proc
  /\ UNCHANGED <<server, disp, tries, status, term, stray, listener, sockfile, sees>>

KillXpra ==
  /\ xpc = "stopped"
  /\ Kill({"client", "server"})
  /\ Exit(0)
  /\ proc' = Orphaned
  /\ UNCHANGED <<server, disp, tries, n, listener, sockfile, sees>>

\* The new xpra: wait for the server.
WaitAttached ==
  /\ xpc = "wait" /\ server = "xpra_new"
  /\ Reaped("server")
  /\ Exit(0)
  /\ UNCHANGED <<server, disp, tries, n, term, stray, listener, sockfile, sees>>

-----------------------------------------------------------------------------
(* External: the children and the other servers.                           *)

\* A server finds its display taken and ends, or listens; the new xpra also
\* starts the jail.
ServerUp ==
  /\ proc["server"] = "starting"
  /\ IF listener[disp] # "none"
     THEN proc' = [proc EXCEPT !["server"] = Dead] /\ UNCHANGED <<listener, sockfile>>
     ELSE /\ proc' = [proc EXCEPT !["server"] = "running",
                                  !["jail"] = IF server = "xpra_new" THEN "starting" ELSE @]
          /\ listener' = [listener EXCEPT ![disp] = "own"]
          /\ sockfile' = sockfile \cup {disp}
  /\ UNCHANGED <<xpc, server, disp, tries, n, status, term, stray, sees>>

\* The server ends by itself, by the stop command, or by a signal; a crash
\* leaves the socket file.
ServerEnd ==
  /\ proc["server"] \in Alive
  /\ proc' = [proc EXCEPT !["server"] = Dead]
  /\ listener' = [d \in Displays |-> IF listener[d] = "own" THEN "none" ELSE listener[d]]
  /\ \/ UNCHANGED sockfile
     \/ sockfile' = { d \in sockfile : listener[d] # "own" }
  /\ UNCHANGED <<xpc, server, disp, tries, n, status, term, stray, sees>>

\* The jail opens the display, or cannot and ends.
JailConnect ==
  /\ proc["jail"] = "starting"
  /\ proc' = [proc EXCEPT !["jail"] =
                IF listener[disp] # "none" THEN "running" ELSE IF server = "xpra_new" THEN "reaped" ELSE Dead]
  /\ sees' = listener[disp]
  /\ UNCHANGED <<xpc, server, disp, tries, n, status, term, stray, listener, sockfile>>

ChildEnd(role) ==
  /\ proc[role] \in Alive
  /\ proc' = [proc EXCEPT ![role] = IF role = "jail" /\ server = "xpra_new" THEN "reaped" ELSE Dead]
  /\ UNCHANGED <<xpc, server, disp, tries, n, status, term, stray, listener, sockfile, sees>>

ClientUp ==
  /\ proc["client"] = "starting"
  /\ proc' = [proc EXCEPT !["client"] = "running"]
  /\ UNCHANGED <<xpc, server, disp, tries, n, status, term, stray, listener, sockfile, sees>>

\* Servers of others.
OtherUp(d) ==
  /\ xpc \notin {"idle", "exited"} /\ listener[d] = "none"
  /\ listener' = [listener EXCEPT ![d] = "other"]
  /\ sockfile' = sockfile \cup {d}
  /\ UNCHANGED <<xpc, server, disp, tries, n, status, proc, term, stray, sees>>

OtherDown(d) ==
  /\ xpc \notin {"idle", "exited"} /\ listener[d] = "other"
  /\ listener' = [listener EXCEPT ![d] = "none"]
  /\ sockfile' = sockfile \ {d}
  /\ UNCHANGED <<xpc, server, disp, tries, n, status, proc, term, stray, sees>>

\* The four functions, each with its copy of the steps.
Xvfb == server = "xvfb" /\ (ForkServer \/ PollSocket \/ ForkJail \/ WaitPair)
XephyrServer == server = "xephyr" /\ ForkServer
XephyrPoll == server = "xephyr" /\ PollSocket
XephyrJail == server = "xephyr" /\ ForkJail
XephyrWait == server = "xephyr" /\ WaitPair
XpraServer == server = "xpra_old" /\ ForkServer
XpraPoll == server = "xpra_old" /\ PollSocket
XpraJail == server = "xpra_old" /\ ForkJail
AttachServer == server = "xpra_new" /\ ForkServer

Launcher ==
  \/ random_display_number \/ NoDisplayFound \/ BadParams
  \/ Xvfb \/ Funeral
  \/ XephyrServer \/ XephyrPoll \/ XephyrJail \/ XephyrWait
  \/ XpraServer \/ XpraPoll \/ ForkClient \/ XpraJail \/ WaitXpra \/ StopPoll \/ KillXpra
  \/ AttachServer \/ WaitAttached

X11Next ==
  \/ X11Begin \/ Launcher \/ ServerUp \/ ServerEnd \/ JailConnect \/ ClientUp
  \/ \E role \in {"client", "jail", "stop"} : ChildEnd(role)
  \/ \E d \in Displays : OtherUp(d) \/ OtherDown(d)

\* The launcher runs on, a child that was started starts, and one with a
\* SIGTERM ends, as does a jail that lost its server.  Nothing is assumed of
\* a program that nobody signals.
X11Fairness ==
  /\ WF_x11Vars(Launcher)
  /\ WF_x11Vars(ServerUp)
  /\ WF_x11Vars(JailConnect)
  /\ WF_x11Vars(proc["stop"] = "running" /\ ChildEnd("stop"))
  /\ \A role \in {"client", "jail"} : WF_x11Vars(role \in term /\ ChildEnd(role))
  /\ WF_x11Vars(proc["jail"] = "running" /\ sees # listener[disp] /\ ChildEnd("jail"))
  /\ WF_x11Vars("server" \in term /\ ServerEnd)

X11Spec == X11Init /\ [][X11Next]_x11Vars /\ X11Fairness

-----------------------------------------------------------------------------
(* Properties.                                                             *)

\* The launcher of Xvfb or Xephyr that exits normally leaves no child behind:
\* it releases the terminal only after the jail has released it, as the
\* comment on the second wait says.
FuneralLast ==
  xpc = "exited" /\ status = 0 /\ server \in {"xvfb", "xephyr"} => \A r \in Roles : ~Has(r)

\* The launcher of Xvfb or Xephyr signals only children it has not reaped,
\* whose process numbers nobody else can have.
SignalsReachChildren == server \in {"xvfb", "xephyr"} => stray = {}

\* When the server or the jail has ended, the launcher exits and everything it
\* started ends, in whatever order they end (WaitPair, WaitXpra).
EndTogether ==
  (xpc # "exited" /\ server # "xpra_new" /\ (proc["server"] = "zombie" \/ proc["jail"] = "zombie"))
    ~> ((xpc = "exited" /\ \A r \in Roles : ~Has(r)) \/ (xpc = "exited" /\ status = 1))

\* A jail that got on the display of another server, because that server took
\* the display between the check and the start ("inherent and unavoidable
\* TOCTOU race", random_display_number), does not stay there; with the
\* new xpra the jail is not the launcher's child.
ForeignJailEnds ==
  (server # "xpra_new" /\ proc["jail"] = "running" /\ sees = "other")
    ~> (proc["jail"] \notin Alive)

\* Parameters without quotes reach the server as the words of the line, and
\* the array is not overrun, as the assertions say (the parsing loops of
\* x11_start_xvfb, x11_start_xephyr and x11_start_xpra_old).
Words(s) ==
  LET starts == { i \in DOMAIN s : s[i] # " " /\ (i = 1 \/ s[i - 1] = " ") }
      ends == { i \in DOMAIN s : s[i] # " " /\ (i = Len(s) \/ s[i + 1] = " ") }
      order == SetToSortSeq(starts, <) IN
    [k \in DOMAIN order |->
       SubSeq(s, order[k], CHOOSE e \in ends : e >= order[k] /\ \A f \in ends : f >= order[k] => e <= f)]

ParamStrings == SeqOf({"a", " ", "\""}, 4) \cup [1..5 -> {"a", " "}]

ExtraParamsPassed ==
  \A s \in ParamStrings : s = << >> \/ s[1] # " " =>
    /\ "\"" \notin Range(s) =>
         /\ Executed(xvfb_argv(s)) = Args("xvfb") \o Words(s)
         /\ Executed(xephyr_argv(s)) = Args("xephyr") \o Words(s) \o << Arg("display") >>
         /\ Executed(xpra_old_argv(s)) = Args("xpra_old") \o Words(s)
    /\ ~ParamsRefused(s, Len(Base("xvfb"))) => Len(xvfb_argv(s)) < ArgRoom
    /\ ~ParamsRefused(s, Len(Base("xpra_old"))) => Len(xpra_old_argv(s)) < ArgRoom
    /\ ~ParamsRefused(s, Len(Base("xpra_new")) + 1) => Len(xpra_new_argv(s)) < ArgRoom
=============================================================================
