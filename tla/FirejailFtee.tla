---------------------------- MODULE FirejailFtee -----------------------------
(***************************************************************************)
(* ftee/main.c: firejail --output copies the output of the program to a    *)
(* log and rotates it through five older files.  The process may be killed *)
(* between any two of its steps, and the next sandbox starts a new one on  *)
(* the same files.                                                         *)
(***************************************************************************)
EXTENDS Integers, Sequences, SequencesExt

CONSTANTS OutMax,     \* out_max, 500 KB in the code
          Lengths,    \* the lengths a read returns, up to MAXBUF
          MaxReads,   \* bound on the reads of a behaviour
          MaxStarts   \* bound on the processes started one after the other

ASSUME FteeAssumption == \A l \in Lengths : l \in 1 .. (OutMax - 1)

VARIABLES
  fPhase,    \* idle, rotate, read, reopen, write
  fStep,     \* the file the rotation is at
  logs,      \* the files 0 (the log itself) to 5: a sequence of chunks, or Absent
  out,       \* out_fp is open
  out_cnt,
  chunk,     \* the chunk that log_write was called with, or NoChunk
  logged,    \* history: every chunk that was written to a log
  starts     \* processes started

fteeVars == <<fPhase, fStep, logs, out, out_cnt, chunk, logged, starts>>

NoChunk == [id |-> 0, len |-> 0]
Absent == << NoChunk >>

FteeInit ==
  /\ fPhase = "idle" /\ fStep = 0
  /\ logs = [i \in 0..5 |-> Absent]
  /\ out = FALSE /\ out_cnt = 0
  /\ chunk = NoChunk
  /\ logged = << >> /\ starts = 0

\* main: opening the log for appending creates it, then it is rotated away.
FteeStart ==
  /\ fPhase = "idle" /\ starts < MaxStarts
  /\ starts' = starts + 1
  /\ logs' = IF logs[0] = Absent THEN [logs EXCEPT ![0] = << >>] ELSE logs
  /\ fPhase' = "rotate" /\ fStep' = 5
  /\ out' = FALSE /\ out_cnt' = 0 /\ chunk' = NoChunk
  /\ UNCHANGED logged

\* log_rotate, one system call at a time: .5 is deleted, .4 to .1 move down
\* one position, the log is closed and becomes .1.
RotateDone ==
  IF fStep > 0 THEN fStep' = fStep - 1 /\ UNCHANGED <<fPhase, out>>
  ELSE /\ fPhase' = IF chunk = NoChunk THEN "read" ELSE "reopen"
       /\ out' = FALSE
       /\ UNCHANGED fStep

\* Mutant: the files move from the first to the last.
RotateUp ==
  /\ fPhase = "rotate"
  /\ LET k == 5 - fStep IN
       logs' = CASE k = 5 -> logs
                 [] k # 5 -> IF logs[k] = Absent THEN logs
                             ELSE [logs EXCEPT ![k + 1] = logs[k], ![k] = Absent]
  /\ RotateDone
  /\ UNCHANGED <<out_cnt, chunk, logged, starts>>

log_rotate ==
  /\ fPhase = "rotate"
  /\ logs' = CASE fStep = 5 -> [logs EXCEPT ![5] = Absent]
               [] fStep < 5 -> IF logs[fStep] = Absent THEN logs
                               ELSE [logs EXCEPT ![fStep + 1] = logs[fStep], ![fStep] = Absent]
  /\ RotateDone
  /\ UNCHANGED <<out_cnt, chunk, logged, starts>>

\* A read, and the first part of log_write: open the log, count, and rotate
\* when the chunk does not fit any more.
log_write(l) ==
  /\ fPhase = "read" /\ Len(logged) < MaxReads
  /\ chunk' = [id |-> Len(logged) + 1, len |-> l]
  /\ LET cnt == (IF out THEN out_cnt ELSE 0) + l IN
       /\ out' = TRUE /\ out_cnt' = cnt
       /\ IF cnt >= OutMax THEN fPhase' = "rotate" /\ fStep' = 5 ELSE fPhase' = "write" /\ UNCHANGED fStep
  /\ logs' = IF out THEN logs ELSE [logs EXCEPT ![0] = << >>]
  /\ UNCHANGED <<logged, starts>>

Reopen ==
  /\ fPhase = "reopen"
  /\ logs' = [logs EXCEPT ![0] = << >>]
  /\ out' = TRUE /\ out_cnt' = chunk.len
  /\ fPhase' = "write"
  /\ UNCHANGED <<fStep, chunk, logged, starts>>

\* fwrite and fflush.
WriteChunk ==
  /\ fPhase = "write"
  /\ logs' = [logs EXCEPT ![0] = Append(@, chunk)]
  /\ logged' = Append(logged, chunk)
  /\ chunk' = NoChunk
  /\ fPhase' = "read"
  /\ UNCHANGED <<fStep, out, out_cnt, starts>>

\* The program closed its output, or the process is killed.
FteeEnds ==
  /\ fPhase # "idle"
  /\ fPhase' = "idle" /\ out' = FALSE
  /\ UNCHANGED <<fStep, logs, out_cnt, chunk, logged, starts>>

FteeNext ==
  \/ FteeStart \/ log_rotate \/ Reopen \/ WriteChunk \/ FteeEnds
  \/ \E l \in Lengths : log_write(l)

FteeSpec == FteeInit /\ [][FteeNext]_fteeVars

-----------------------------------------------------------------------------

Size(f) == FoldLeft(LAMBDA a, c : a + c.len, 0, f)
Content(i) == IF logs[i] = Absent THEN << >> ELSE logs[i]

\* "Copy stdout to logfile, and keep the size of the file under 500KB using log
\* rotation": no file reaches the limit, across restarts too (log_write).
LogsBelowLimit == \A i \in 0..5 : Size(Content(i)) < OutMax

\* The files, read from .5 to the log, are the last part of what was logged, in
\* order and without a gap, however often the process was killed in the middle
\* of a rotation and started again (log_rotate, the "w" of the two fopen).
LogsAreTail ==
  LET kept == Content(5) \o Content(4) \o Content(3) \o Content(2) \o Content(1) \o Content(0) IN
    IsSuffix(kept, logged)

\* The rotated files are a bounded and gapless tail of what was logged.
LogsSound == LogsBelowLimit /\ LogsAreTail
=============================================================================
