---------------------------- MODULE Coder1Score ----------------------------
(***************************************************************************)
(* Scoring one response: coder1._compute_score and the executors that it   *)
(* may be configured with.  A functional or pytest ground truth is one     *)
(* execution on the calling thread; inputs and outputs are one execution   *)
(* per pair on a thread pool, whose results are looked at as they come.    *)
(*                                                                         *)
(* A program is abstracted to how it behaves on each test, a score to one  *)
(* of the three rewards or the exception that _compute_score raises.       *)
(***************************************************************************)
EXTENDS Integers, FiniteSets

CONSTANTS
    Executors,    \* the values of CODER1_EXEC to consider
    Truths,       \* the kinds of ground truth that may come
    Tests,        \* the pairs of input and output that a ground truth may have
    PoolSize,     \* the 4 of min(4, len(stdin_list))
    MaxRetry,     \* max_retry_on_timeout of ces
    MaxOutages    \* bound on how often the execution server goes down

\* What the program does on a test, in text that can be decoded:
\*   right    exit code 0, the expected output, nothing on stderr
\*   noisy    exit code 0, the expected output, something on stderr
\*   wrong    exit code 0, another output, nothing on stderr
\*   silent   another exit code, the expected output, nothing on stderr
\*   crash    another exit code, something on stderr
\*   loop     no end within the time limit
Behaviours == {"right", "noisy", "wrong", "silent", "crash", "loop"}

ASSUME ScoreAssumption ==
    /\ Executors \subseteq {"firejail", "docker", "ces", "kira"}
    /\ Truths \subseteq {"functional", "pytest", "io", "other"}
    /\ IsFiniteSet(Tests)
    /\ PoolSize \in Nat \ {0}
    /\ MaxRetry \in Nat
    /\ MaxOutages \in Nat

VARIABLES
    executor,     \* CODER1_EXEC of this process
    well_formed,  \* pass_fmt, and some code was extracted
    truth,        \* the kind of ground truth
    behaves,      \* behaves[t]: what the program does on test t of the truth
    garbled,      \* the shell does not take the code or the input as they are
    unpiped,      \* tests whose input is too long for a command line that
                  \* the code is short enough for
    scorePc,      \* where _compute_score is
    score,        \* what it returns, "raised" if it raises
    test,         \* test[t]: the state of t's execution
    retries,      \* cur_retry_on_timeout of t's execution
    serving,      \* the execution server is "up", "down" or "stuck"
    outages       \* how often it was not up

sample == <<executor, well_formed, truth, behaves, garbled, unpiped>>
server == <<serving, outages>>
scoreVars == <<sample, scorePc, score, test, retries, server>>

Remote == executor \in {"ces", "kira"}

\* A test is not submitted ("none"), in the pool's queue, executing, waiting
\* for the answer to "is the server alive", or over: passed, failed, raised.
Ended == {"passed", "failed", "raised"}

\* The tests of this ground truth; a functional or pytest truth counts as one.
Cases == DOMAIN behaves

Active == {t \in Cases : test[t] \in {"running", "checking"}}

ScoreInit ==
    /\ executor \in Executors
    /\ well_formed \in BOOLEAN
    /\ truth \in Truths
    /\ \E cases \in SUBSET Tests :
         /\ truth # "io" => Cardinality(cases) = 1
         /\ behaves \in [cases -> Behaviours]
    /\ garbled \in {FALSE, executor = "docker" /\ truth = "io"}
    /\ unpiped \in (IF executor = "docker" /\ truth = "io" THEN SUBSET Cases ELSE {{}})
    /\ scorePc = "start"
    /\ score = "none"
    /\ test = [t \in Cases |-> "none"]
    /\ retries = [t \in Cases |-> 0]
    /\ serving = "up"
    /\ outages = 0

-----------------------------------------------------------------------------
ReturnScore(s) == scorePc' = "done" /\ score' = s

BadFormat ==
    /\ scorePc = "start"
    /\ ~well_formed
    /\ ReturnScore("bad_format")
    /\ UNCHANGED <<sample, test, retries, server>>

\* The ValueError at the end; a pool of min(4, 0) threads; the argument pytest,
\* which only the firejail executor takes.
Unscorable ==
    \/ truth = "other"
    \/ truth = "io" /\ Cases = {}
    \/ truth = "pytest" /\ executor # "firejail"

RaiseUnscorable ==
    /\ scorePc = "start"
    /\ well_formed
    /\ Unscorable
    /\ ReturnScore("raised")
    /\ UNCHANGED <<sample, test, retries, server>>

\* One call of code_exec, on the calling thread.
ExecuteWhole ==
    /\ scorePc = "start"
    /\ well_formed
    /\ ~Unscorable
    /\ truth \in {"functional", "pytest"}
    /\ test' = [t \in Cases |-> "running"]
    /\ scorePc' = "call"
    /\ UNCHANGED <<sample, score, retries, server>>

Submit ==
    /\ scorePc = "start"
    /\ well_formed
    /\ ~Unscorable
    /\ truth = "io"
    /\ test' = [t \in Cases |-> "queued"]
    /\ scorePc' = "as_completed"
    /\ UNCHANGED <<sample, score, retries, server>>

\* A thread of the pool takes a test.
Take(t) ==
    /\ test[t] = "queued"
    /\ Cardinality(Active) < PoolSize
    /\ test' = [test EXCEPT ![t] = "running"]
    /\ UNCHANGED <<sample, scorePc, score, retries, server>>

Finish(t, st) ==
    /\ test' = [test EXCEPT ![t] = st]
    /\ UNCHANGED <<sample, scorePc, score, server>>

(***************************************************************************)
(* Executions.  A test passes if the executor reports success and, for     *)
(* inputs and outputs, the output it returns is the expected one; the      *)
(* comparison that the main thread makes is folded into the result.        *)
(***************************************************************************)

\* succ: the exit code is 0; for kira, nothing was written to stderr.
Succeeds(t) ==
    behaves[t] \in IF executor = "kira" THEN {"right", "wrong", "silent"} ELSE {"right", "noisy", "wrong"}

\* The output is the expected one; docker's holds what went to stderr as well.
OutputExpected(t) ==
    behaves[t] \in IF executor = "docker" THEN {"right", "silent"} ELSE {"right", "noisy", "silent"}

Verdict(t) == IF Succeeds(t) /\ (truth = "io" => OutputExpected(t)) THEN "passed" ELSE "failed"

\* The wrapper of code_exec_firejail installs a signal handler, which Python
\* allows on the main thread alone: in the pool it raises ValueError.  On the
\* main thread its alarm and firejail's own timeout are both of 20 seconds:
\* a program that does not end is killed or, if the alarm comes first,
\* TimeoutError is raised.
FirejailExec(t) ==
    /\ executor = "firejail"
    /\ test[t] = "running"
    /\ IF truth = "io" THEN Finish(t, "raised")
       ELSE \/ Finish(t, Verdict(t))
            \/ behaves[t] = "loop" /\ Finish(t, "raised")
    /\ UNCHANGED retries

\* An input that is too long reads a variable not yet assigned.  Otherwise the
\* test may fail because the container does not start or is not done in time;
\* the client raises outside the try, or the container cannot be removed; and
\* the shell may run something else, if it does not take the text as it is.
DockerExec(t) ==
    /\ executor = "docker"
    /\ test[t] = "running"
    /\ \/ Finish(t, "raised")
       \/ t \notin unpiped /\ Finish(t, "failed")
       \/ t \notin unpiped /\ (garbled \/ Verdict(t) = "passed") /\ Finish(t, "passed")
    /\ UNCHANGED retries

\* The server ran the program.
ServerAnswers(t) ==
    /\ Remote
    /\ test[t] = "running"
    /\ serving = "up"
    /\ behaves[t] # "loop"
    /\ Finish(t, Verdict(t))
    /\ UNCHANGED retries

\* Mutant of ServerTimesOut: the retries are not counted.
ServerTimesOutForever(t) ==
    /\ Remote
    /\ test[t] = "running"
    /\ serving = "up"
    /\ IF executor = "ces"
         THEN UNCHANGED scoreVars
         ELSE Finish(t, "failed") /\ UNCHANGED retries

\* The server answers without a result: the program loops or the server is
\* busy.  ces answers with no output after its timeout and is asked again,
\* MaxRetry times; kira reports an error or has no results.
ServerTimesOut(t) ==
    /\ Remote
    /\ test[t] = "running"
    /\ serving = "up"
    /\ IF executor = "ces" /\ retries[t] < MaxRetry
         THEN /\ retries' = [retries EXCEPT ![t] = @ + 1]
              /\ UNCHANGED <<sample, scorePc, score, test, server>>
         ELSE Finish(t, "failed") /\ UNCHANGED retries

\* The request raises, as there is no connection or the answer has not the
\* expected form: the handler goes on to ask whether the server is alive.
RequestFails(t) ==
    /\ Remote
    /\ test[t] = "running"
    /\ serving # "stuck"
    /\ Finish(t, "checking")
    /\ UNCHANGED retries

\* If it is not, the request is made again; if it is by now, the test failed.
CheckAlive(t) ==
    /\ test[t] = "checking"
    /\ serving # "stuck"
    /\ Finish(t, IF serving = "up" THEN "failed" ELSE "running")
    /\ UNCHANGED retries

Execution(t) ==
    \/ FirejailExec(t) \/ DockerExec(t)
    \/ ServerAnswers(t) \/ ServerTimesOut(t) \/ RequestFails(t) \/ CheckAlive(t)

\* The server stops, or it gets stuck: it takes requests and answers none.
\* No request has a timeout, so that its sender waits.
GoDown ==
    /\ Remote
    /\ scorePc # "done"
    /\ serving = "up"
    /\ outages < MaxOutages
    /\ serving' \in {"down", "stuck"}
    /\ outages' = outages + 1
    /\ UNCHANGED <<sample, scorePc, score, test, retries>>

ComeUp ==
    /\ serving # "up"
    /\ serving' = "up"
    /\ UNCHANGED <<sample, scorePc, score, test, retries, outages>>

-----------------------------------------------------------------------------
Outcome(st) == IF st = "failed" THEN "format" ELSE "raised"

\* Mutant of WholeReturns: the success flag is not looked at.
WholeReturnsUnchecked ==
    /\ scorePc = "call"
    /\ \E t \in Cases : test[t] \in Ended
    /\ ReturnScore("full")
    /\ UNCHANGED <<sample, test, retries, server>>

\* The single execution is over.
WholeReturns ==
    /\ scorePc = "call"
    /\ \E t \in Cases :
         /\ test[t] \in Ended
         /\ ReturnScore(IF test[t] = "passed" THEN "full" ELSE Outcome(test[t]))
    /\ UNCHANGED <<sample, test, retries, server>>

\* as_completed hands over a test that did not pass: the loop is left, by
\* return or by the exception, and the pool is shut down.
LeaveLoop ==
    /\ scorePc = "as_completed"
    /\ \E t \in Cases :
         /\ test[t] \in {"failed", "raised"}
         /\ score' = Outcome(test[t])
    /\ scorePc' = "shutdown"
    /\ UNCHANGED <<sample, test, retries, server>>

\* as_completed has handed over all tests.
LoopEnds ==
    /\ scorePc = "as_completed"
    /\ \A t \in Cases : test[t] = "passed"
    /\ score' = "full"
    /\ scorePc' = "shutdown"
    /\ UNCHANGED <<sample, test, retries, server>>

\* Leaving the with block waits for all tests, also those not started yet.
Shutdown ==
    /\ scorePc = "shutdown"
    /\ \A t \in Cases : test[t] \in Ended
    /\ scorePc' = "done"
    /\ UNCHANGED <<sample, score, test, retries, server>>

ScoreOver == scorePc = "done" /\ UNCHANGED scoreVars

ScoreMain ==
    \/ BadFormat \/ RaiseUnscorable \/ ExecuteWhole \/ Submit
    \/ WholeReturns \/ LeaveLoop \/ LoopEnds \/ Shutdown

ScoreNext ==
    \/ ScoreMain
    \/ \E t \in Cases : Take(t) \/ Execution(t)
    \/ GoDown \/ ComeUp \/ ScoreOver

\* The interpreter schedules every thread, a server that is up answers every
\* request that it does not break off, and one that is down comes up again (the
\* loops of ces and kira are "for server downtime").  Nothing is said of a stuck
\* one.
Answered(t) ==
    \/ FirejailExec(t) \/ DockerExec(t)
    \/ ServerAnswers(t) \/ ServerTimesOut(t)
    \/ serving = "down" /\ RequestFails(t)
    \/ CheckAlive(t)

ScoreFairness ==
    /\ WF_scoreVars(ScoreMain)
    /\ \A t \in Tests : /\ WF_scoreVars(t \in Cases /\ Take(t))
                       /\ WF_scoreVars(t \in Cases /\ Answered(t))
    /\ WF_scoreVars(serving = "down" /\ ComeUp)

ScoreSpec == ScoreInit /\ [][ScoreNext]_scoreVars /\ ScoreFairness

-----------------------------------------------------------------------------
(***************************************************************************)
(* Properties.                                                             *)
(***************************************************************************)

\* Types of the scorer's state.
ScoreTypeOK ==
    /\ scorePc \in {"start", "call", "as_completed", "shutdown", "done"}
    /\ score \in {"none", "bad_format", "format", "full", "raised"}
    /\ test \in [Cases -> Ended \cup {"none", "queued", "running", "checking"}]
    /\ retries \in [Cases -> 0 .. MaxRetry]
    /\ serving \in {"up", "down", "stuck"}
    /\ outages \in 0 .. MaxOutages

\* What the ground truth asks: exit code 0 and, with inputs and outputs, the
\* expected output.
Meets(t) == behaves[t] \in IF truth = "io" THEN {"right", "noisy"} ELSE {"right", "noisy", "wrong"}

\* Where the executor tells too little: kira does not see the exit code, and
\* docker may have run another program than the one that is scored.
Mistaken(t) ==
    \/ executor = "kira" /\ behaves[t] = "silent"
    \/ garbled

\* A reward is earned, whatever the order in which tests end, time out or are
\* tried again.  The full one is given to programs that meet every test, but
\* for what kira and docker mistake.  With the firejail executor, which has
\* neither a server nor a container that may fail, the reward for the format
\* alone means that the program does not meet the test, and a score that is
\* not given at all that it does not end.
RewardIsEarned ==
    scorePc = "done" /\ well_formed =>
      /\ score = "full" => \A t \in Cases : Meets(t) \/ Mistaken(t)
      /\ executor = "firejail" /\ score = "format" => \E t \in Cases : ~Meets(t)
      /\ executor = "firejail" /\ score = "raised" /\ truth # "io" /\ ~Unscorable =>
            \E t \in Cases : behaves[t] = "loop"

\* Scoring ends, unless the server gets stuck for good, which no timeout ends:
\* the early return waits for the rest of the pool, and no execution is tried
\* again for ever, if a server that is down comes back.
ScoringEnds == <>(scorePc = "done") \/ <>[](serving = "stuck")
=============================================================================
