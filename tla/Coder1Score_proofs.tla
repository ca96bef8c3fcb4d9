------------------------- MODULE Coder1Score_proofs -------------------------
(* Proofs about Coder1Score: what a reward says of the program, for any    *)
(* number of tests, pool size, executor, and number of retries and outages.*)
EXTENDS Coder1Score, FiniteSetTheorems, TLAPS

TestStates == {"none", "queued", "running", "checking"} \cup Ended

\* The result of a test is earned: a test passed only where the program meets
\* it or the executor is mistaken; with firejail it failed only where the
\* program does not meet it, and raised only if the program does not end.
\* Nobody asks whether a server is alive if there is none.
Earned(t) ==
    /\ test[t] = "passed" => Meets(t) \/ Mistaken(t)
    /\ test[t] = "failed" /\ executor = "firejail" => ~Meets(t)
    /\ test[t] = "raised" /\ executor = "firejail" /\ truth # "io" => behaves[t] = "loop"
    /\ test[t] = "checking" => Remote

\* Without a pool of threads the truth counts as one test.
WholeIsOne ==
    /\ truth # "io" => \E t : Cases = {t}
    /\ scorePc = "call" => truth # "io"

\* A reward is earned by the results of the tests.
RewardEarned ==
    /\ scorePc \in {"start", "call", "as_completed"} => score = "none"
    /\ score = "full" => \A t \in Cases : test[t] = "passed"
    /\ score = "format" => \E t \in Cases : test[t] = "failed"
    /\ score = "raised" => Unscorable \/ \E t \in Cases : test[t] = "raised"

\* The inductive invariant.
ScoreInv ==
    /\ ScoreTypeOK
    /\ \A t \in Cases : Earned(t)
    /\ WholeIsOne
    /\ RewardEarned

LEMMA ScoreInvInit == ScoreInit => ScoreInv
<1> SUFFICES ASSUME ScoreInit
             PROVE  ScoreInv
  OBVIOUS
<1>1. ScoreTypeOK /\ RewardEarned /\ \A t \in Cases : Earned(t)
  BY ScoreAssumption DEF ScoreInit, ScoreTypeOK, RewardEarned, Earned, Ended
<1>2. WholeIsOne
  <2> SUFFICES ASSUME truth # "io"
               PROVE  \E t : Cases = {t}
    BY DEF ScoreInit, WholeIsOne
  <2>1. PICK cases \in SUBSET Tests : Cardinality(cases) = 1 /\ behaves \in [cases -> Behaviours]
    BY DEF ScoreInit
  <2>2. IsFiniteSet(cases)
    BY ScoreAssumption, FS_Subset
  <2>3. \E t : cases = {t}
    BY <2>1, <2>2, FS_Singleton
  <2> QED
    BY <2>1, <2>3 DEF Cases
<1> QED
  BY <1>1, <1>2 DEF ScoreInv

\* What the properties say of the sample depends on nothing else.
LEMMA SampleKept ==
    ASSUME UNCHANGED sample
    PROVE  /\ Cases' = Cases /\ Remote' = Remote /\ behaves' = behaves /\ truth' = truth
           /\ executor' = executor /\ Unscorable' = Unscorable
           /\ \A t : Meets(t)' = Meets(t) /\ Mistaken(t)' = Mistaken(t)
  BY DEF sample, Cases, Remote, Unscorable, Meets, Mistaken

\* A step that leaves the tests alone and sets no reward.
LEMMA ScoreUnchanged ==
    ASSUME ScoreInv, ScoreTypeOK', UNCHANGED <<sample, scorePc, score, test>>
    PROVE  ScoreInv'
<1> USE SampleKept
<1>1. (\A t \in Cases : Earned(t))'
  BY DEF ScoreInv, Earned
<1>2. WholeIsOne'
  BY DEF ScoreInv, WholeIsOne
<1>3. RewardEarned'
  BY DEF ScoreInv, RewardEarned
<1> QED
  BY <1>1, <1>2, <1>3 DEF ScoreInv

\* A step of one test that is not over yet.
LEMMA ScoreTestStep ==
    ASSUME ScoreInv, NEW t \in Cases, NEW st \in TestStates, test[t] \notin Ended,
           UNCHANGED <<sample, scorePc, score, server>>, test' = [test EXCEPT ![t] = st],
           retries' \in [Cases -> 0 .. MaxRetry],
           st = "passed" => Meets(t) \/ Mistaken(t),
           st = "failed" /\ executor = "firejail" => ~Meets(t),
           st = "raised" /\ executor = "firejail" /\ truth # "io" => behaves[t] = "loop",
           st = "checking" => Remote
    PROVE  ScoreInv'
<1> USE SampleKept
<1>1. ScoreTypeOK'
  BY DEF ScoreInv, ScoreTypeOK, TestStates, server
<1>2. (\A u \in Cases : Earned(u))'
  <2> SUFFICES ASSUME NEW u \in Cases
               PROVE  Earned(u)'
    OBVIOUS
  <2>1. CASE u = t
    BY <2>1 DEF ScoreInv, ScoreTypeOK, Earned
  <2>2. CASE u # t
    BY <2>2 DEF ScoreInv, ScoreTypeOK, Earned
  <2> QED
    BY <2>1, <2>2
<1>3. WholeIsOne'
  BY DEF ScoreInv, WholeIsOne
<1>4. RewardEarned'
  BY DEF ScoreInv, ScoreTypeOK, RewardEarned, Ended
<1> QED
  BY <1>1, <1>2, <1>3, <1>4 DEF ScoreInv

\* An executor's verdict is right, but for what it mistakes.
LEMMA VerdictIsEarned ==
    ASSUME NEW t \in Cases
    PROVE  /\ Verdict(t) \in {"passed", "failed"}
           /\ Verdict(t) = "passed" => Meets(t) \/ Mistaken(t)
           /\ Verdict(t) = "failed" /\ executor = "firejail" => ~Meets(t)
  BY DEF Verdict, Succeeds, OutputExpected, Meets, Mistaken

LEMMA ScoreExecution ==
    ASSUME ScoreInv, NEW t \in Cases, Take(t) \/ Execution(t)
    PROVE  ScoreInv'
<1> USE DEF TestStates, Ended
<1>1. retries \in [Cases -> 0 .. MaxRetry]
  BY DEF ScoreInv, ScoreTypeOK
<1>2. CASE Take(t)
  BY <1>1, <1>2, ScoreTestStep DEF Take
<1>3. CASE FirejailExec(t)
  BY <1>1, <1>3, ScoreTestStep, VerdictIsEarned DEF FirejailExec, Finish
<1>4. CASE DockerExec(t)
  <2>1. executor = "docker" /\ test[t] = "running" /\ UNCHANGED <<sample, scorePc, score, server, retries>>
    BY <1>4 DEF DockerExec, Finish
  <2>2. PICK st \in {"raised", "failed", "passed"} :
           /\ test' = [test EXCEPT ![t] = st]
           /\ st = "passed" => garbled \/ Verdict(t) = "passed"
    BY <1>4 DEF DockerExec, Finish
  <2>3. st = "passed" => Meets(t) \/ Mistaken(t)
    BY <2>2, VerdictIsEarned DEF Mistaken
  <2> QED
    BY <1>1, <2>1, <2>2, <2>3, ScoreTestStep
<1>5. CASE ServerAnswers(t)
  BY <1>1, <1>5, ScoreTestStep, VerdictIsEarned DEF ServerAnswers, Finish
<1>6. CASE ServerTimesOut(t)
  <2>1. CASE executor = "ces" /\ retries[t] < MaxRetry
    <3>1. UNCHANGED <<sample, scorePc, score, test, server>> /\ retries' = [retries EXCEPT ![t] = @ + 1]
      BY <1>6, <2>1 DEF ServerTimesOut
    <3>2. retries[t] + 1 \in 0 .. MaxRetry
      BY <1>1, <2>1, ScoreAssumption
    <3>3. retries' \in [Cases -> 0 .. MaxRetry]
      BY <1>1, <3>1, <3>2
    <3>4. ScoreTypeOK'
      BY <3>1, <3>3, SampleKept DEF ScoreInv, ScoreTypeOK, server
    <3> QED
      BY <3>1, <3>4, ScoreUnchanged
  <2>2. CASE ~(executor = "ces" /\ retries[t] < MaxRetry)
    BY <1>1, <1>6, <2>2, ScoreTestStep DEF ServerTimesOut, Finish, Remote
  <2> QED
    BY <2>1, <2>2
<1>7. CASE RequestFails(t)
  BY <1>1, <1>7, ScoreTestStep DEF RequestFails, Finish
<1>8. CASE CheckAlive(t)
  <2>1. Remote
    BY <1>8 DEF CheckAlive, ScoreInv, Earned
  <2> QED
    BY <1>1, <1>8, <2>1, ScoreTestStep DEF CheckAlive, Finish, Remote
<1> QED
  BY <1>2, <1>3, <1>4, <1>5, <1>6, <1>7, <1>8 DEF Execution

LEMMA ScoreMainStep ==
    ASSUME ScoreInv, ScoreMain
    PROVE  ScoreInv'
<1>1. UNCHANGED <<sample, retries, server>>
  BY DEF ScoreMain, BadFormat, RaiseUnscorable, ExecuteWhole, Submit, WholeReturns, LeaveLoop,
         LoopEnds, Shutdown
<1> USE <1>1, SampleKept
        DEF ScoreInv, ScoreTypeOK, Earned, WholeIsOne, RewardEarned, Ended, server
<1>2. CASE BadFormat \/ RaiseUnscorable
  BY <1>2 DEF BadFormat, RaiseUnscorable, ReturnScore
<1>3. CASE ExecuteWhole
  BY <1>3 DEF ExecuteWhole
<1>4. CASE Submit
  BY <1>4 DEF Submit
<1>5. CASE WholeReturns
  BY <1>5 DEF WholeReturns, ReturnScore, Outcome
<1>6. CASE LeaveLoop
  BY <1>6 DEF LeaveLoop, Outcome
<1>7. CASE LoopEnds
  BY <1>7 DEF LoopEnds
<1>8. CASE Shutdown
  BY <1>8 DEF Shutdown
<1> QED
  BY <1>2, <1>3, <1>4, <1>5, <1>6, <1>7, <1>8 DEF ScoreMain

LEMMA ScoreInvNext == ScoreInv /\ [ScoreNext]_scoreVars => ScoreInv'
<1> SUFFICES ASSUME ScoreInv, [ScoreNext]_scoreVars
             PROVE  ScoreInv'
  OBVIOUS
<1>1. CASE GoDown \/ ComeUp
  <2>1. UNCHANGED <<sample, scorePc, score, test, retries>>
    BY <1>1 DEF GoDown, ComeUp
  <2>2. ScoreTypeOK'
    BY <1>1, <2>1, SampleKept, ScoreAssumption DEF GoDown, ComeUp, ScoreInv, ScoreTypeOK
  <2> QED
    BY <2>1, <2>2, ScoreUnchanged
<1>2. CASE ScoreOver \/ UNCHANGED scoreVars
  <2>1. UNCHANGED <<sample, scorePc, score, test, retries, server>>
    BY <1>2 DEF ScoreOver, scoreVars
  <2>2. ScoreTypeOK'
    BY <2>1, SampleKept DEF ScoreInv, ScoreTypeOK, server
  <2> QED
    BY <2>1, <2>2, ScoreUnchanged
<1> QED
  BY <1>1, <1>2, ScoreMainStep, ScoreExecution DEF ScoreNext

LEMMA ScoreInvIsEarned == ScoreInv => RewardIsEarned
<1> SUFFICES ASSUME ScoreInv, scorePc = "done", well_formed
             PROVE  RewardIsEarned
  BY DEF RewardIsEarned
<1>1. score = "full" => \A t \in Cases : Meets(t) \/ Mistaken(t)
  BY DEF ScoreInv, RewardEarned, Earned
<1>2. executor = "firejail" /\ score = "format" => \E t \in Cases : ~Meets(t)
  BY DEF ScoreInv, RewardEarned, Earned
<1>3. executor = "firejail" /\ score = "raised" /\ truth # "io" /\ ~Unscorable =>
        \E t \in Cases : behaves[t] = "loop"
  BY DEF ScoreInv, RewardEarned, Earned
<1> QED
  BY <1>1, <1>2, <1>3 DEF RewardIsEarned

\* A reward is what the program deserves, for any tests, any executor and any
\* order in which the tests end: the full one means that the program meets all
\* of them, and with firejail no program gets less than it deserves.
THEOREM RewardAlwaysEarned == ScoreSpec => []RewardIsEarned
<1>1. ScoreInit => ScoreInv
  BY ScoreInvInit
<1>2. ScoreInv /\ [ScoreNext]_scoreVars => ScoreInv'
  BY ScoreInvNext
<1>3. ScoreInv => RewardIsEarned
  BY ScoreInvIsEarned
<1> QED
  BY <1>1, <1>2, <1>3, PTL DEF ScoreSpec
=============================================================================
