-------------------------------- MODULE JobLoop --------------------------------
(***************************************************************************)
(* The process of apps/main.cpp: main, runJob, and the signal handler that *)
(* asks it to stop.  A signal may arrive between any two steps, also while *)
(* the handler for it is not installed yet, and then it ends the process.  *)
(* std::signal keeps a handler installed once it has run (the Linux C      *)
(* library, which the Docker image uses).                                  *)
(*                                                                         *)
(* What generation and simulation compute is modelled elsewhere; here each *)
(* either returns or throws a std::exception, which main catches.          *)
(***************************************************************************)
EXTENDS RandomStreams, Sequences

CONSTANTS
    Seeds,        \* the values options.seed may take
    ScenarioCount, \* options.scenario_count
    MaxJobs       \* bound on the jobs one process starts

ASSUME JobLoopAssumption ==
    /\ Seeds \subseteq 0 .. (WideBase - 1)
    /\ ScenarioCount \in 1 .. WideBase
    /\ MaxJobs \in 1 .. WideBase

VARIABLES
    command,        \* what parseOptions makes of the command line
    seed,           \* options.seed
    pc,             \* the next statement of main or runJob
    handled,        \* the signals whose handler is installed
    stop_requested, \* the flag the handler sets
    job_index,
    reported,       \* the seeds of the jobs reported on std::cout, in order
    exit_code,      \* -1 until main returns
    jobs_at_stop    \* history: jobs reported when the flag was set, or -1

options == <<command, seed>>
stop    == <<handled, stop_requested, jobs_at_stop>>
jobs    == <<job_index, reported>>
vars    == <<options, pc, stop, jobs, exit_code>>

Signals  == {"SIGINT", "SIGTERM"}
Commands == {"rejected", "help", "run", "repeat"}

\* No further step: main has returned, or a signal has ended the process.
Ended == pc \in {"returned", "killed"}

Init ==
    /\ command \in Commands
    /\ seed \in Seeds
    /\ pc = "parse"
    /\ handled = {} /\ stop_requested = FALSE /\ jobs_at_stop = -1
    /\ job_index = 0 /\ reported = <<>>
    /\ exit_code = -1

Goto(label) ==
    /\ pc' = label
    /\ UNCHANGED <<options, jobs, exit_code>>

Return(code) ==
    /\ pc' = "returned"
    /\ exit_code' = code
    /\ UNCHANGED <<options, jobs>>

-----------------------------------------------------------------------------
(* Start-up.                                                               *)

ParseOptions ==
    /\ pc = "parse"
    /\ \/ command = "rejected" /\ Return(1)
       \/ command = "help" /\ Return(0)
       \/ command \in {"run", "repeat"} /\ Goto("load")
    /\ UNCHANGED stop

\* The market model, the market state, the portfolio and the generator.
Load ==
    /\ pc = "load"
    /\ Goto("sigint") \/ Return(1)
    /\ UNCHANGED stop

InstallSigint ==
    /\ pc = "sigint"
    /\ handled' = handled \cup {"SIGINT"}
    /\ Goto("sigterm")
    /\ UNCHANGED <<stop_requested, jobs_at_stop>>

InstallSigterm ==
    /\ pc = "sigterm"
    /\ handled' = handled \cup {"SIGTERM"}
    /\ Goto("loop")
    /\ UNCHANGED <<stop_requested, jobs_at_stop>>

-----------------------------------------------------------------------------
(* The loop, and runJob in it.                                             *)

\* Mutant of EnterBody: the flag is not tested.
EnterBodyAlways ==
    /\ pc = "loop"
    /\ job_index < MaxJobs
    /\ Goto("start")
    /\ UNCHANGED stop

\* `while (stop_requested == 0)`, bounded by MaxJobs
EnterBody ==
    /\ pc = "loop"
    /\ ~stop_requested
    /\ job_index < MaxJobs
    /\ Goto("start")
    /\ UNCHANGED stop

LeaveLoop ==
    /\ pc = "loop"
    /\ stop_requested
    /\ Goto("end")
    /\ UNCHANGED stop

\* Mutant of StartJob: every job starts with the flag cleared.
StartJobClearsFlag ==
    /\ pc = "start"
    /\ stop_requested' = FALSE
    /\ Goto("generate")
    /\ UNCHANGED <<handled, jobs_at_stop>>

\* "Starting job"
StartJob ==
    /\ pc = "start"
    /\ Goto("generate")
    /\ UNCHANGED stop

\* generator.generate(options.scenario_count, job_seed, ...)
Generate ==
    /\ pc = "generate"
    /\ Goto("simulate") \/ Return(1)
    /\ UNCHANGED stop

\* Mutant of Simulate: a job that fails is skipped.
SimulateOrSkip ==
    /\ pc = "simulate"
    /\ Goto("report") \/ Goto("end")
    /\ UNCHANGED stop

\* SimulationEngine{}.run(...)
Simulate ==
    /\ pc = "simulate"
    /\ Goto("report") \/ Return(1)
    /\ UNCHANGED stop

\* printReport; back in main, ++job_index and `if (!options.repeat) break`.
Report ==
    /\ pc = "report"
    /\ reported' = Append(reported, JobSeed(seed, job_index))
    /\ job_index' = job_index + 1
    /\ pc' = IF command = "repeat" THEN "loop" ELSE "end"
    /\ UNCHANGED <<options, stop, exit_code>>

Finish ==
    /\ pc = "end"
    /\ Return(0)
    /\ UNCHANGED stop

-----------------------------------------------------------------------------
(* Signals, at any time.                                                   *)

\* handleSignal, on whatever thread the signal is delivered to.
HandleSignal ==
    /\ ~Ended
    /\ handled # {}
    /\ stop_requested' = TRUE
    /\ jobs_at_stop' = IF jobs_at_stop = -1 THEN Len(reported) ELSE jobs_at_stop
    /\ UNCHANGED <<options, pc, handled, jobs, exit_code>>

\* The default action of a signal without a handler.
DieOfSignal ==
    /\ ~Ended
    /\ handled # Signals
    /\ pc' = "killed"
    /\ UNCHANGED <<options, stop, jobs, exit_code>>

-----------------------------------------------------------------------------

\* The statements of main, in any state.
MainStep ==
    \/ ParseOptions
    \/ Load
    \/ InstallSigint
    \/ InstallSigterm
    \/ EnterBody
    \/ LeaveLoop
    \/ StartJob
    \/ Generate
    \/ Simulate
    \/ Report
    \/ Finish

Next == MainStep \/ HandleSignal \/ DieOfSignal

\* The process keeps running; nobody has to send a signal.
Spec == Init /\ [][Next]_vars /\ WF_vars(MainStep)

-----------------------------------------------------------------------------
(* Properties.                                                             *)

\* Types; the seeds reported are 64-bit values, one for each job counted.
TypeOK ==
    /\ command \in Commands
    /\ seed \in Seeds
    /\ pc \in {"parse", "load", "sigint", "sigterm", "loop", "start", "generate",
               "simulate", "report", "end", "returned", "killed"}
    /\ handled \subseteq Signals
    /\ stop_requested \in BOOLEAN
    /\ job_index \in 0 .. MaxJobs
    /\ reported \in Seq(0 .. (WideBase - 1))
    /\ Len(reported) = job_index
    /\ exit_code \in {-1, 0, 1}
    /\ jobs_at_stop \in -1 .. job_index

\* A request to stop is never lost: after it at most one more job is
\* reported, the one in progress or about to start ("Stopping after the
\* current simulation job").
StopIsPrompt == jobs_at_stop # -1 => job_index <= jobs_at_stop + 1

\* Exit status 0 of a run without --repeat means its job was reported, unless
\* the user asked it to stop; with --repeat it means the user did.
SuccessIsReported ==
    exit_code = 0 /\ command \in {"run", "repeat"} =>
        \/ jobs_at_stop # -1
        \/ command = "run" /\ job_index = 1

\* No two scenarios that a process reports, of one job or of two, draw from the
\* same stream, so their results are independent samples.
StreamsDistinct ==
    \A i, j \in DOMAIN reported, a, b \in 0 .. (ScenarioCount - 1) :
        <<i, a>> # <<j, b>> =>
            SeedWords(reported[i], a) # SeedWords(reported[j], b)

\* A process that was asked to stop ends, whatever the job in progress does.
StopEndsProcess == jobs_at_stop # -1 ~> Ended

\* The statements of the loop body.
InBody == pc \in {"start", "generate", "simulate", "report"}

\* The inductive invariant behind StopIsPrompt, SuccessIsReported and
\* StreamsDistinct: the flag and its history agree, a body entered before the
\* stop is the last one, and job number j runs with seed options.seed + j.
IInv ==
    /\ TypeOK
    /\ stop_requested <=> jobs_at_stop # -1
    /\ InBody => job_index < MaxJobs
    /\ InBody /\ stop_requested => job_index = jobs_at_stop
    /\ StopIsPrompt
    /\ pc = "parse" => exit_code = -1
    /\ pc \notin {"parse", "returned", "killed"} =>
          exit_code = -1 /\ command \in {"run", "repeat"}
    /\ command = "run" /\ (InBody \/ pc \in {"parse", "load", "sigint", "sigterm", "loop"}) =>
          job_index = 0
    /\ pc = "end" => stop_requested \/ (command = "run" /\ job_index = 1)
    /\ SuccessIsReported
    /\ \A i \in DOMAIN reported : reported[i] = JobSeed(seed, i - 1)
=============================================================================
