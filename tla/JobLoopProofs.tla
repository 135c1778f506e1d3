----------------------------- MODULE JobLoopProofs -----------------------------
(***************************************************************************)
(* What holds of the process of apps/main.cpp for every seed, every number *)
(* of scenarios and every number of jobs: its jobs draw from disjoint sets *)
(* of random streams, a request to stop takes effect, and the exit status  *)
(* does not lie.                                                           *)
(***************************************************************************)
EXTENDS JobLoop, ArithmeticProofs

-----------------------------------------------------------------------------
(* Words and seeds.                                                        *)

\* There are 64-bit values.
LEMMA WideBaseType == WideBase \in Nat \ {0}
  <1>1. WordBase * WordBase \in Nat \ {0}
    BY WordBaseAssumption
  <1> QED
    BY <1>1 DEF WideBase

\* A 64-bit value is determined by its two words.
LEMMA WordsDetermine ==
    ASSUME NEW x \in 0 .. (WideBase - 1)
    PROVE  /\ HighWord(x) = x \div WordBase
           /\ x = WordBase * HighWord(x) + LowWord(x)
  <1> DEFINE q == x \div WordBase
  <1>1. /\ WordBase \in Nat \ {0} /\ x \in Nat
        /\ WordBase * WordBase \in Nat /\ x < WordBase * WordBase
    BY WordBaseAssumption DEF WideBase
  <1>2. q \in Nat /\ x = WordBase * q + (x % WordBase) /\ x % WordBase \in Nat
    BY <1>1, QuotientRemainder
  <1> HIDE DEF q
  <1>3. q < WordBase
    <2> SUFFICES ASSUME WordBase <= q PROVE FALSE
      BY <1>1, <1>2
    <2>1. WordBase * WordBase <= WordBase * q /\ WordBase * q \in Nat
      BY <1>1, <1>2, ProductMonotone
    <2> QED
      BY <1>1, <1>2, <2>1
  <1>4. q % WordBase = q
    BY <1>1, <1>2, <1>3
  <1> QED
    BY <1>2, <1>4 DEF q, HighWord, LowWord

\* Two scenarios share a stream only if they agree on the job seed and the id.
LEMMA SeedWordsInjective ==
    ASSUME NEW s \in 0 .. (WideBase - 1), NEW t \in 0 .. (WideBase - 1),
           NEW a \in 0 .. (WideBase - 1), NEW b \in 0 .. (WideBase - 1),
           SeedWords(s, a) = SeedWords(t, b)
    PROVE  s = t /\ a = b
  <1>1. /\ LowWord(s) = LowWord(t) /\ HighWord(s) = HighWord(t)
        /\ LowWord(a) = LowWord(b) /\ HighWord(a) = HighWord(b)
    BY DEF SeedWords
  <1> QED
    BY <1>1, WordsDetermine

\* The seeds of the first WideBase jobs differ, also when the sum wraps around.
LEMMA JobSeedInjective ==
    ASSUME NEW s \in 0 .. (WideBase - 1),
           NEW i \in 0 .. (WideBase - 1), NEW j \in 0 .. (WideBase - 1), i # j
    PROVE  JobSeed(s, i) # JobSeed(s, j)
  <1> DEFINE B == WideBase
  <1>1. B \in Nat \ {0}
    BY WideBaseType
  <1> HIDE DEF B
  <1>2. \A x \in 0 .. (2 * B - 1) : x % B = IF x < B THEN x ELSE x - B
    BY <1>1, SMTT(30)
  <1>3. /\ s + i \in 0 .. (2 * B - 1) /\ s + j \in 0 .. (2 * B - 1)
        /\ s \in Nat /\ i \in Nat /\ j \in Nat /\ i < B /\ j < B
    BY <1>1 DEF B
  <1>4. JobSeed(s, i) = (s + i) % B /\ JobSeed(s, j) = (s + j) % B
    BY DEF JobSeed, B
  <1> QED
    BY <1>1, <1>2, <1>3, <1>4

\* A job seed is a 64-bit value.
LEMMA JobSeedType ==
    ASSUME NEW s \in Nat, NEW i \in Nat
    PROVE  JobSeed(s, i) \in 0 .. (WideBase - 1)
  <1>1. WideBase \in Nat \ {0}
    BY WideBaseType
  <1>2. s + i \in Nat
    OBVIOUS
  <1>3. (s + i) % WideBase \in Nat /\ (s + i) % WideBase < WideBase
    BY <1>1, <1>2, QuotientRemainder
  <1> QED
    BY <1>1, <1>3 DEF JobSeed

-----------------------------------------------------------------------------
(* The invariant.                                                          *)

LEMMA InitInvariant == Init => IInv
  <1> SUFFICES ASSUME Init PROVE IInv
    OBVIOUS
  <1>1. MaxJobs \in Nat /\ MaxJobs >= 1
    BY JobLoopAssumption
  <1>2. TypeOK
    <2>1. reported = <<>> /\ reported \in Seq(0 .. (WideBase - 1)) /\ Len(reported) = 0
      BY DEF Init
    <2>2. job_index \in 0 .. MaxJobs /\ jobs_at_stop \in -1 .. job_index
      BY <1>1 DEF Init
    <2> QED
      BY <2>1, <2>2 DEF Init, TypeOK
  <1> QED
    BY <1>2 DEF Init, IInv, InBody, StopIsPrompt, SuccessIsReported, Commands

\* What the typing of a state gives the arithmetic.
LEMMA StateFacts ==
    ASSUME TypeOK
    PROVE  /\ seed \in 0 .. (WideBase - 1) /\ seed \in Nat
           /\ MaxJobs \in Nat /\ job_index \in Nat /\ job_index <= MaxJobs
           /\ jobs_at_stop \in Int
           /\ reported \in Seq(0 .. (WideBase - 1))
           /\ Len(reported) = job_index
  BY JobLoopAssumption DEF TypeOK

\* A job is reported: its seed joins the seeds of the earlier jobs.
LEMMA ReportStep ==
    ASSUME IInv, Report
    PROVE  IInv'
  <1> USE DEF options, stop
  <1>1. TypeOK /\ pc = "report" /\ InBody /\ job_index < MaxJobs
    BY DEF IInv, Report, InBody
  <1>2. /\ UNCHANGED <<options, stop, exit_code>>
        /\ reported' = Append(reported, JobSeed(seed, job_index))
        /\ job_index' = job_index + 1
        /\ pc' = IF command = "repeat" THEN "loop" ELSE "end"
    BY DEF Report
  <1>3. JobSeed(seed, job_index) \in 0 .. (WideBase - 1)
    BY <1>1, StateFacts, JobSeedType
  <1>4. /\ reported' \in Seq(0 .. (WideBase - 1))
        /\ Len(reported') = job_index'
        /\ DOMAIN reported = 1 .. job_index
        /\ DOMAIN reported' = 1 .. job_index'
        /\ \A i \in 1 .. job_index : reported'[i] = reported[i]
        /\ reported'[job_index + 1] = JobSeed(seed, job_index)
    BY <1>1, <1>2, <1>3, StateFacts
  <1>5. TypeOK'
    BY <1>1, <1>2, <1>4, StateFacts DEF TypeOK
  <1>6. ASSUME NEW i \in DOMAIN reported'
        PROVE  reported'[i] = JobSeed(seed, i - 1)'
    <2>1. JobSeed(seed, i - 1)' = JobSeed(seed, i - 1)
      BY <1>2 DEF JobSeed
    <2>2. CASE i \in 1 .. job_index
      BY <1>4, <2>1, <2>2 DEF IInv
    <2>3. CASE i = job_index + 1
      BY <1>1, <1>4, <2>1, <2>3, StateFacts
    <2> QED
      BY <1>1, <1>2, <1>4, <2>2, <2>3, StateFacts
  <1>7. StopIsPrompt' /\ (stop_requested <=> jobs_at_stop # -1)'
    BY <1>1, <1>2, StateFacts DEF IInv, StopIsPrompt
  <1>8. command = "repeat" \/ (command = "run" /\ job_index = 0)
    BY <1>1 DEF IInv
  <1>9. exit_code = -1 /\ command \in {"run", "repeat"}
    BY <1>1 DEF IInv
  <1> QED
    BY <1>1, <1>2, <1>5, <1>6, <1>7, <1>8, <1>9
       DEF IInv, InBody, SuccessIsReported

LEMMA SignalStep ==
    ASSUME IInv, HandleSignal \/ DieOfSignal
    PROVE  IInv'
  <1> USE DEF options, stop, jobs
  <1>1. TypeOK
    BY DEF IInv
  <1>2. UNCHANGED <<options, job_index, reported, exit_code, handled>>
    BY DEF HandleSignal, DieOfSignal
  <1>3. \A i \in DOMAIN reported : reported'[i] = JobSeed(seed, i - 1)'
    BY <1>2 DEF IInv, JobSeed
  <1>4. CASE HandleSignal
    <2>1. /\ UNCHANGED pc /\ stop_requested' = TRUE
          /\ jobs_at_stop' = IF jobs_at_stop = -1 THEN job_index
                             ELSE jobs_at_stop
      BY <1>1, <1>4, StateFacts DEF HandleSignal
    <2>2. TypeOK'
      BY <1>1, <1>2, <2>1, StateFacts DEF TypeOK
    <2>3. StopIsPrompt' /\ jobs_at_stop' # -1
      BY <1>1, <1>2, <2>1, StateFacts DEF IInv, StopIsPrompt
    <2>4. pc # "returned"
      BY <1>4 DEF HandleSignal, Ended
    <2> QED
      BY <1>2, <1>3, <2>1, <2>2, <2>3, <2>4
         DEF IInv, InBody, SuccessIsReported
  <1>5. CASE DieOfSignal
    <2>1. UNCHANGED stop /\ pc' = "killed"
      BY <1>5 DEF DieOfSignal
    <2>2. TypeOK'
      BY <1>1, <1>2, <2>1 DEF TypeOK
    <2> QED
      BY <1>2, <1>3, <2>1, <2>2
         DEF IInv, InBody, StopIsPrompt, SuccessIsReported
  <1> QED
    BY <1>4, <1>5

\* Every other statement only moves on or returns.
LEMMA StatementStep ==
    ASSUME IInv, MainStep, ~Report
    PROVE  IInv'
  <1> USE DEF options, stop, jobs
  <1>1. TypeOK
    BY DEF IInv
  <1>2. /\ UNCHANGED <<options, job_index, reported, stop_requested, jobs_at_stop>>
        /\ handled' \subseteq Signals
        /\ pc' # "killed" /\ pc' # "parse"
        /\ exit_code' \in {-1, 0, 1}
    BY <1>1 DEF MainStep, ParseOptions, Load, InstallSigint, InstallSigterm,
                EnterBody, LeaveLoop, StartJob, Generate, Simulate, Finish,
                Goto, Return, TypeOK, Signals
  <1>3. TypeOK'
    <2>1. pc' \in {"load", "sigint", "sigterm", "loop", "start", "generate",
                   "simulate", "report", "end", "returned"}
      BY DEF MainStep, ParseOptions, Load, InstallSigint, InstallSigterm,
             EnterBody, LeaveLoop, StartJob, Generate, Simulate, Report, Finish,
             Goto, Return
    <2> QED
      BY <1>1, <1>2, <2>1 DEF TypeOK
  <1>4. \A i \in DOMAIN reported : reported'[i] = JobSeed(seed, i - 1)'
    BY <1>2 DEF IInv, JobSeed
  <1>5. StopIsPrompt'
    BY <1>2 DEF IInv, StopIsPrompt
  <1>6. CASE pc' = "returned"
    <2>1. SuccessIsReported'
      BY <1>2, <1>6
         DEF MainStep, ParseOptions, Load, InstallSigint, InstallSigterm,
             EnterBody, LeaveLoop, StartJob, Generate, Simulate, Report, Finish,
             Goto, Return, IInv, SuccessIsReported
    <2> QED
      BY <1>2, <1>3, <1>4, <1>5, <1>6, <2>1 DEF IInv, InBody
  <1>7. CASE pc' # "returned"
    <2>1. UNCHANGED exit_code
      BY <1>7 DEF MainStep, ParseOptions, Load, InstallSigint, InstallSigterm,
                  EnterBody, LeaveLoop, StartJob, Generate, Simulate, Report,
                  Finish, Goto, Return
    <2>2. \/ pc = "parse" /\ pc' = "load" /\ command \in {"run", "repeat"}
          \/ pc = "load" /\ pc' = "sigint"
          \/ pc = "sigint" /\ pc' = "sigterm"
          \/ pc = "sigterm" /\ pc' = "loop"
          \/ pc = "loop" /\ pc' = "start" /\ ~stop_requested /\ job_index < MaxJobs
          \/ pc = "loop" /\ pc' = "end" /\ stop_requested
          \/ pc = "start" /\ pc' = "generate"
          \/ pc = "generate" /\ pc' = "simulate"
          \/ pc = "simulate" /\ pc' = "report"
      BY <1>7 DEF MainStep, ParseOptions, Load, InstallSigint, InstallSigterm,
                  EnterBody, LeaveLoop, StartJob, Generate, Simulate, Finish,
                  Goto, Return
    <2>3. exit_code = -1 /\ command \in {"run", "repeat"}
      BY <2>2 DEF IInv
    <2>4. InBody' => /\ job_index < MaxJobs
                     /\ stop_requested => job_index = jobs_at_stop
      BY <2>2 DEF IInv, InBody
    <2>5. (command = "run" /\ pc' # "end") => job_index = 0
      BY <2>2 DEF IInv, InBody
    <2>6. pc' = "end" => stop_requested
      BY <2>2
    <2>7. stop_requested <=> jobs_at_stop # -1
      BY DEF IInv
    <2> QED
      BY <1>2, <1>3, <1>4, <1>5, <1>7, <2>1, <2>3, <2>4, <2>5, <2>6, <2>7
         DEF IInv, InBody, SuccessIsReported
  <1> QED
    BY <1>6, <1>7

LEMMA NextInvariant == IInv /\ [Next]_vars => IInv'
  <1> SUFFICES ASSUME IInv, [Next]_vars
               PROVE  IInv'
    OBVIOUS
  <1>1. CASE Next
    BY <1>1, ReportStep, SignalStep, StatementStep DEF Next, MainStep
  <1>2. CASE UNCHANGED vars
    BY <1>2 DEF vars, options, stop, jobs, IInv, TypeOK, InBody, StopIsPrompt,
                SuccessIsReported, JobSeed
  <1> QED
    BY <1>1, <1>2

\* IInv holds in every state of every process.
THEOREM Invariance == Spec => []IInv
  <1>1. Init => IInv
    BY InitInvariant
  <1>2. IInv /\ [Next]_vars => IInv'
    BY NextInvariant
  <1> QED
    BY <1>1, <1>2, PTL DEF Spec

\* After a request to stop at most one more job is reported.
THEOREM PromptStop == Spec => []StopIsPrompt
  <1>1. IInv => StopIsPrompt
    BY DEF IInv
  <1> QED
    BY <1>1, Invariance, PTL

\* Exit status 0 of a run means its job was reported or a stop was requested.
THEOREM HonestSuccess == Spec => []SuccessIsReported
  <1>1. IInv => SuccessIsReported
    BY DEF IInv
  <1> QED
    BY <1>1, Invariance, PTL

\* The words tell the job by its seed, and the scenario by its id.
LEMMA DistinctStreams == IInv => StreamsDistinct
  <1> SUFFICES ASSUME IInv,
                      NEW i \in DOMAIN reported, NEW j \in DOMAIN reported,
                      NEW a \in 0 .. (ScenarioCount - 1),
                      NEW b \in 0 .. (ScenarioCount - 1),
                      <<i, a>> # <<j, b>>,
                      SeedWords(reported[i], a) = SeedWords(reported[j], b)
               PROVE  FALSE
    BY DEF StreamsDistinct
  <1>1. TypeOK
    BY DEF IInv
  <1>2. i \in 1 .. job_index /\ j \in 1 .. job_index
    BY <1>1, StateFacts
  <1>3. WideBase \in Nat /\ MaxJobs <= WideBase /\ ScenarioCount <= WideBase
        /\ ScenarioCount \in Nat /\ MaxJobs \in Nat
    <2>1. WordBase * WordBase \in Nat
      BY WordBaseAssumption
    <2>2. WideBase \in Nat
      BY <2>1 DEF WideBase
    <2> QED
      BY <2>2, JobLoopAssumption
  <1>4. /\ i - 1 \in 0 .. (WideBase - 1) /\ j - 1 \in 0 .. (WideBase - 1)
        /\ a \in 0 .. (WideBase - 1) /\ b \in 0 .. (WideBase - 1)
    BY <1>1, <1>2, <1>3, StateFacts
  <1>5. /\ reported[i] = JobSeed(seed, i - 1)
        /\ reported[j] = JobSeed(seed, j - 1)
    BY DEF IInv
  <1>7. /\ reported[i] \in 0 .. (WideBase - 1)
        /\ reported[j] \in 0 .. (WideBase - 1)
    <2>1. i - 1 \in Nat /\ j - 1 \in Nat
      BY <1>3, <1>4
    <2> QED
      BY <1>1, <1>5, <2>1, StateFacts, JobSeedType
  <1>8. reported[i] = reported[j] /\ a = b
    BY <1>4, <1>7, SeedWordsInjective
  <1>9. i - 1 # j - 1
    BY <1>2, <1>8
  <1> QED
    BY <1>1, <1>4, <1>5, <1>8, <1>9, StateFacts, JobSeedInjective

\* No two scenarios a process reports, of one job or of two, draw from the same
\* random stream.
THEOREM StreamsOfJobs == Spec => []StreamsDistinct
  BY DistinctStreams, Invariance, PTL

\* Every variable keeps its type: the seeds reported are 64-bit values, one
\* for each job counted, and the history of the stop never runs ahead.
THEOREM TypeCorrect == Spec => []TypeOK
  <1>1. IInv => TypeOK
    BY DEF IInv
  <1> QED
    BY <1>1, Invariance, PTL
=============================================================================
