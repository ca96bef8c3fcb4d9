---------------------------- MODULE FirejailMon ------------------------------
(***************************************************************************)
(* firemon: the process table that lib/pid.c builds from /proc, and the    *)
(* monitor of firemon/procevent.c that keeps it up to date from the        *)
(* process events of the kernel.  The kernel and the processes are the     *)
(* environment: they fork, exec and exit while the monitor reads the       *)
(* events late, from a buffer of bounded size.                             *)
(***************************************************************************)
EXTENDS Integers, Sequences, FiniteSets, SequencesExt, FiniteSetsExt

CONSTANTS Pids,        \* the process ids, without 0 and 1
          Tables,      \* the process tables at the start: records ppid, comm, mon
          Watched(_),  \* the tables the monitor is started on
          RxBuf,       \* events the receive buffer of the socket holds
          MaxEvents    \* bound on the events of a behaviour

ASSUME MonAssumption ==
  /\ Pids \subseteq Nat \ {0, 1} /\ RxBuf \in Nat
  /\ \A t \in Tables : t.ppid \in [Pids -> Pids \cup {1}] /\ t.mon \in Pids \cup {0}

VARIABLES
  mPhase,    \* idle, scan, gap (before the socket listens), monitor, done
  table,     \* the process table at the start
  comm,      \* what a process runs; "none" for a free pid
  head,      \* the process that started the sandbox of a process, 0 outside
  level,     \* pids[].level: -1 not firejail, 0 not investigated, 1 sandbox, >1 child
  parent,    \* pids[].parent
  rx,        \* the receive buffer
  missed,    \* a process or an event escaped the monitor
  late,      \* an event was read after its process had run something else
  happened   \* events so far

monVars == <<mPhase, table, comm, head, level, parent, rx, missed, late, happened>>

Entries == Pids \cup {0, 1}
Live == {p \in Pids : comm[p] # "none"}

-----------------------------------------------------------------------------
(* lib/pid.c *)

\* The part of the loop of pid_read for one entry of /proc: the Name line sets
\* the level, the PPid line may overrule it.
ReadProcStatus(t, lev, p) ==
  LET named == IF t.comm[p] = "firejail" /\ t.mon \in {0, p} THEN 1 ELSE -1
      up == lev[t.ppid[p]] IN
    [lev EXCEPT ![p] = IF up > 0 THEN up + 1 ELSE named]

\* The loop after it, over the pids in ascending order.
FromParent(t, lev, p) ==
  LET up == lev[t.ppid[p]] IN IF up > 0 THEN [lev EXCEPT ![p] = up + 1] ELSE lev

Running(t) == SetToSortSeq({p \in Pids : t.comm[p] # "none"}, <)

pid_read(t) ==
  LET first == FoldLeft(LAMBDA lev, p : ReadProcStatus(t, lev, p), [p \in Entries |-> 0], Running(t)) IN
    FoldLeft(LAMBDA lev, p : FromParent(t, lev, p), first, Running(t))

\* The ancestors of p in a table, p first.
Ancestors(t, p) ==
  LET line[n \in 0 .. Cardinality(Pids)] ==
        IF n = 0 THEN << p >>
        ELSE LET q == t.ppid[Last(line[n - 1])] IN
               IF Last(line[n - 1]) = 1 \/ q = 1 THEN line[n - 1] ELSE Append(line[n - 1], q)
  IN line[Cardinality(Pids)]

\* The outermost process above p that is a sandbox the monitor is interested in.
HeadOf(t, p) ==
  LET line == Ancestors(t, p)
      heads == {i \in DOMAIN line : t.comm[line[i]] = "firejail" /\ t.mon \in {0, line[i]}} IN
    IF heads = {} THEN 0 ELSE line[Max(heads)]

-----------------------------------------------------------------------------
(* The processes *)

MonInit ==
  /\ mPhase = "idle"
  /\ table = [ppid |-> [p \in Pids |-> 1], comm |-> [p \in Pids |-> "none"], mon |-> 0]
  /\ comm = [p \in Pids |-> "none"] /\ head = [p \in Pids |-> 0]
  /\ level = [p \in Entries |-> 0] /\ parent = [p \in Entries |-> 0]
  /\ rx = << >> /\ missed = FALSE /\ late = FALSE /\ happened = 0

MonBegin(t) ==
  /\ mPhase = "idle"
  /\ mPhase' = "scan" /\ table' = t
  /\ comm' = t.comm
  /\ head' = [p \in Pids |-> IF t.comm[p] = "none" THEN 0 ELSE HeadOf(t, p)]
  /\ UNCHANGED <<level, parent, rx, missed, late, happened>>

\* The kernel queues an event; it is lost before the monitor listens and when
\* the buffer is full.
Event(e) ==
  /\ mPhase \in {"gap", "monitor"} /\ happened < MaxEvents
  /\ happened' = happened + 1
  /\ IF mPhase = "monitor" /\ Len(rx) < RxBuf
     THEN rx' = Append(rx, e) /\ UNCHANGED missed
     ELSE missed' = TRUE /\ UNCHANGED rx
  /\ UNCHANGED <<mPhase, table, level, parent, late>>

\* A pid is not given out again while events about it wait in the buffer.
ProcForks(p, c) ==
  /\ p \in Live /\ c \notin Live
  /\ \A i \in DOMAIN rx : c \notin {rx[i].pid, rx[i].child}
  /\ comm' = [comm EXCEPT ![c] = comm[p]]
  /\ head' = [head EXCEPT ![c] = head[p]]
  /\ Event([what |-> "fork", pid |-> p, child |-> c])

\* A process outside that runs firejail becomes the head of a sandbox, unless
\* the options only print something.  The head of a sandbox stays.
Exec(p, name) ==
  /\ p \in Live /\ head[p] # p
  /\ comm' = [comm EXCEPT ![p] = name]
  /\ head' = [head EXCEPT ![p] = IF @ = 0 /\ name = "firejail" /\ table.mon = 0 THEN p ELSE @]
  /\ Event([what |-> "exec", pid |-> p, child |-> 0])

\* uid, gid and comm events, then the sid, ptrace and coredump events.
Change(p, what) ==
  /\ p \in Live
  /\ Event([what |-> what, pid |-> p, child |-> 0])
  /\ UNCHANGED <<comm, head>>

\* The head of a sandbox waits for its processes.
Quit(p) ==
  /\ p \in Live
  /\ head[p] = p => \A q \in Live \ {p} : head[q] # p
  /\ comm' = [comm EXCEPT ![p] = "none"] /\ head' = [head EXCEPT ![p] = 0]
  /\ Event([what |-> "exit", pid |-> p, child |-> 0])

Processes ==
  \/ \E p, c \in Pids : ProcForks(p, c)
  \/ \E p \in Pids, name \in {"firejail", "firejail --list", "other"} : Exec(p, name)
  \/ \E p \in Pids, what \in {"id", "sid"} : Change(p, what)
  \/ \E p \in Pids : Quit(p)

-----------------------------------------------------------------------------
(* The monitor *)

Scan ==
  /\ mPhase = "scan" /\ Watched(table)
  /\ level' = pid_read(table)
  /\ parent' = [p \in Entries |-> IF p \in Live THEN table.ppid[p] ELSE 0]
  /\ missed' = \E p \in Live : (pid_read(table)[p] > 0) # (head[p] # 0)
  /\ mPhase' = "gap"
  /\ UNCHANGED <<table, comm, head, rx, late, happened>>

procevent_netlink_setup ==
  /\ mPhase = "gap"
  /\ mPhase' = "monitor"
  /\ UNCHANGED <<table, comm, head, level, parent, rx, missed, late, happened>>

\* The answer is about the process that has the pid now.
pid_is_firejail(p) == p \in Pids /\ comm[p] = "firejail"

\* The end of the loop body: a process that was not investigated is, and the
\* entry of a process that is followed and exits is cleared.
Follow(p, lev, par, exits) ==
  CASE lev[p] < 0 -> level' = lev /\ parent' = par /\ UNCHANGED mPhase
    [] lev[p] = 0 ->
         IF pid_is_firejail(p) /\ table.mon = 0
         THEN /\ level' = [lev EXCEPT ![p] = IF exits THEN 0 ELSE 1]
              /\ parent' = IF exits THEN [par EXCEPT ![p] = 0] ELSE par
              /\ UNCHANGED mPhase
         ELSE level' = [lev EXCEPT ![p] = -1] /\ parent' = par /\ UNCHANGED mPhase
    [] lev[p] > 0 ->
         /\ level' = IF exits THEN [lev EXCEPT ![p] = 0] ELSE lev
         /\ parent' = IF exits THEN [par EXCEPT ![p] = 0] ELSE par
         /\ mPhase' = IF exits /\ lev[p] = 1 /\ table.mon = p THEN "done" ELSE mPhase

Received(what) ==
  /\ mPhase = "monitor" /\ rx # << >> /\ Head(rx).what = what
  /\ rx' = Tail(rx)
  /\ late' = (late \/ \E i \in 2 .. Len(rx) : rx[i].what = "exec" /\ rx[i].pid = Head(rx).pid)
  /\ UNCHANGED <<table, comm, head, missed, happened>>

\* max_pids is larger than every pid (procevent).
ForkEvent ==
  /\ Received("fork")
  /\ LET p == Head(rx).pid
         c == Head(rx).child IN
       IF level[p] > 0
       THEN Follow(p, [level EXCEPT ![c] = level[p] + 1], [parent EXCEPT ![c] = p], FALSE)
       ELSE Follow(p, level, parent, FALSE)

\* Mutant: a process that is known not to be a sandbox stays unknown.
ExecEventIgnored ==
  /\ Received("exec")
  /\ Follow(Head(rx).pid, level, parent, FALSE)

ExecEvent ==
  /\ Received("exec")
  /\ LET p == Head(rx).pid IN
       Follow(p, IF level[p] = -1 THEN [level EXCEPT ![p] = 0] ELSE level, parent, FALSE)

ExitEvent ==
  /\ Received("exit")
  /\ Follow(Head(rx).pid, level, parent, TRUE)

\* The head of a sandbox and its child are not reported.
IdEvent ==
  /\ Received("id")
  /\ LET p == Head(rx).pid IN
       IF 1 \in {level[p], level[parent[p]]} THEN UNCHANGED <<level, parent, mPhase>>
       ELSE Follow(p, level, parent, FALSE)

SidEvent ==
  /\ Received("sid")
  /\ Follow(Head(rx).pid, level, parent, FALSE)

procevent_monitor == ForkEvent \/ ExecEvent \/ ExitEvent \/ IdEvent \/ SidEvent

MonNext ==
  \/ mPhase = "idle" /\ \E t \in Tables : MonBegin(t)
  \/ Processes \/ Scan \/ procevent_netlink_setup \/ procevent_monitor

MonFairness == WF_monVars(Scan) /\ WF_monVars(procevent_netlink_setup) /\ WF_monVars(procevent_monitor)

MonSpec == MonInit /\ [][MonNext]_monVars /\ MonFairness

-----------------------------------------------------------------------------

\* Pids go up along a line of descent, but for one wrap of the pid counter.
OneWrap(t, p) ==
  LET line == Ancestors(t, p) IN
    Cardinality({i \in 1 .. (Len(line) - 1) : line[i + 1] > line[i]}) <= 1

\* pid_read finds the processes of the sandboxes, and no other, in two passes
\* over the pids as long as a line of descent crosses the wrap of the pid
\* counter at most once (the loop of pid.c:413).
ScanFindsSandboxes ==
  mPhase = "scan" =>
    \A p \in Live : OneWrap(table, p) => (pid_read(table)[p] > 0 <=> head[p] # 0)

\* A monitor that has read every event follows all the processes that run
\* inside a sandbox, pids that are used again included, as long as no event was
\* dropped.  It follows no other process if it was never so late that /proc
\* already showed what the process ran next (procevent_monitor; the entry of a
\* process that exits is cleared, a process found to be outside is looked at
\* again when it runs something else).
CaughtUpIsExact ==
  mPhase = "monitor" /\ rx = << >> /\ ~missed =>
    \A p \in Live : /\ head[p] # 0 => level[p] > 0
                    /\ level[p] > 0 => late \/ head[p] # 0

\* The first scan and the events after it find the processes of the sandboxes.
MonitorIsExact == ScanFindsSandboxes /\ CaughtUpIsExact

\* The monitor of one sandbox ends when the sandbox does, unless it missed an
\* event (sandbox_closed).
MonitorEnds ==
  (mPhase = "monitor" /\ table.mon # 0 /\ table.mon \notin Live) ~> (mPhase = "done" \/ missed)
=============================================================================
