-------------------------------- MODULE Process --------------------------------
(***************************************************************************)
(* The threads of one process: the job loop of main, the call of generate  *)
(* in each job with the workers it starts, and the signal handler, which   *)
(* the system may run on any thread that exists, in the middle of whatever *)
(* the thread does.                                                        *)
(*                                                                         *)
(* stop_requested is a volatile sig_atomic_t: a handler and the code it    *)
(* interrupts may share it, two threads may not, unless something orders   *)
(* their accesses.  A handler is therefore entered, stores, and returns in *)
(* steps of their own, and its thread does nothing else meanwhile.         *)
(*                                                                         *)
(* The statements of main are the actions of JobLoop, except that generate *)
(* is the call that ScenarioGenerator models: its scenario_count and       *)
(* thread_count are the options of these names, its seed is the job's.     *)
(***************************************************************************)
EXTENDS ScenarioGenerator, Sequences

CONSTANTS
    BaseSeeds,  \* the values options.seed may take
    MaxJobs,    \* bound on the jobs the process starts
    MaxSignals  \* bound on the signals that are handled

ASSUME ProcessAssumption ==
    /\ BaseSeeds \subseteq 0 .. (WideBase - 1)
    /\ Seeds = 0 .. (WideBase - 1)
    /\ ScenarioCounts \subseteq 1 .. WideBase
    /\ ThreadCounts \subseteq Nat \ {0}
    /\ MaxJobs \in 1 .. WideBase
    /\ MaxSignals \in Nat

VARIABLES
    \* main and runJob, see JobLoop
    command,
    base_seed,      \* options.seed
    pc,
    handled,
    stop_requested,
    job_index,
    reported,
    exit_code,
    jobs_at_stop,
    \* the signal handler
    storing,        \* the threads in it that have not stored the flag yet
    leaving,        \* the threads in it that have
    signals         \* signals handled so far

\* ScenarioCount only says for how many scenarios streams are distinct.
Job == INSTANCE JobLoop
           WITH seed <- base_seed, Seeds <- BaseSeeds, ScenarioCount <- WideBase

job_vars == <<command, base_seed, pc, handled, stop_requested, job_index,
              reported, exit_code, jobs_at_stop>>
handler_vars == <<storing, leaving, signals>>
process_vars == <<vars, job_vars, handler_vars>>

\* A thread is 0 for the one that runs main, w + 1 for that of worker w; a
\* single worker has no thread of its own.
MainThread  == 0
ThreadOf(w) == IF worker_count = 1 THEN MainThread ELSE w + 1

\* The threads of workers that exist: started, and not joined yet.
WorkerThreads == {ThreadOf(w) : w \in joined .. (spawned - 1)} \ {MainThread}

Threads == {MainThread} \cup WorkerThreads

\* The threads in the handler.
Handling == storing \cup leaving

\* Thread t can take a step of its own.
Runs(t) == ~Job!Ended /\ t \notin Handling

ProcessInit ==
    /\ Job!Init
    /\ seed = base_seed
    /\ Init /\ nonfinite = {}
    /\ storing = {} /\ leaving = {} /\ signals = 0

-----------------------------------------------------------------------------
(* main and runJob.                                                        *)

\* The first state of a call, Init of ScenarioGenerator: its arguments
\* decide which draws overflow, and nothing of the last call is left.
BeginGenerate ==
    /\ nonfinite' \in SUBSET Ids(scenario_count)
    /\ main' = "entry" /\ thrown' = "none" /\ scenarios' = <<>>
    /\ worker_count' = 0 /\ spawned' = 0 /\ joined' = 0
    /\ generated_shocks' = <<>> /\ worker_exceptions' = <<>>
    /\ worker' = <<>> /\ next' = <<>>

\* Mutant of CallGenerate: every job is generated with options.seed.
CallGenerateSameSeed ==
    /\ Runs(MainThread)
    /\ Job!StartJob
    /\ UNCHANGED <<scenario_count, thread_count, handler_vars>>
    /\ seed' = base_seed
    /\ BeginGenerate

\* "Starting job", and the call with options.seed + job_index.
CallGenerate ==
    /\ Runs(MainThread)
    /\ Job!StartJob
    /\ UNCHANGED <<scenario_count, thread_count, handler_vars>>
    /\ seed' = JobSeed(base_seed, job_index)
    /\ BeginGenerate

\* A step of the calling thread in generate; ~jthread waits for the thread
\* to end, with any handler that runs on it.
InGenerate ==
    /\ Runs(MainThread)
    /\ pc = "generate"
    /\ main = "join" /\ joined < spawned => Runs(ThreadOf(joined))
    /\ CallerStep
    /\ UNCHANGED <<job_vars, handler_vars>>

\* Mutant of EndGenerate: the exception of the call is swallowed.
EndGenerateAnyway ==
    /\ Runs(MainThread)
    /\ main = "exit"
    /\ Job!Generate
    /\ pc' = "simulate"
    /\ UNCHANGED <<vars, handler_vars>>

\* generate returns its scenarios or throws, and main returns 1.
EndGenerate ==
    /\ Runs(MainThread)
    /\ main = "exit"
    /\ Job!Generate
    /\ pc' = IF thrown = "none" THEN "simulate" ELSE "returned"
    /\ UNCHANGED <<vars, handler_vars>>

\* Every other statement.
MainStatement ==
    /\ Runs(MainThread)
    /\ \/ Job!ParseOptions
       \/ Job!Load
       \/ Job!InstallSigint
       \/ Job!InstallSigterm
       \/ Job!EnterBody
       \/ Job!LeaveLoop
       \/ Job!Simulate
       \/ Job!Report
       \/ Job!Finish
    /\ UNCHANGED <<vars, handler_vars>>

-----------------------------------------------------------------------------
(* The workers.                                                            *)

InWorker(w) ==
    /\ Runs(ThreadOf(w))
    /\ WorkerStep(w)
    /\ UNCHANGED <<job_vars, handler_vars>>

-----------------------------------------------------------------------------
(* Signals.  A handler that interrupts another on one thread stores the    *)
(* same value and is counted as one with it.                               *)

\* The system picks thread t for a signal that has a handler.
EnterHandler(t) ==
    /\ Runs(t)
    /\ handled # {}
    /\ signals < MaxSignals
    /\ signals' = signals + 1
    /\ storing' = storing \cup {t}
    /\ UNCHANGED <<job_vars, vars, leaving>>

StoreFlag(t) ==
    /\ t \in storing
    /\ Job!HandleSignal
    /\ storing' = storing \ {t}
    /\ leaving' = leaving \cup {t}
    /\ UNCHANGED <<vars, signals>>

LeaveHandler(t) ==
    /\ ~Job!Ended
    /\ t \in leaving
    /\ leaving' = leaving \ {t}
    /\ UNCHANGED <<job_vars, vars, storing, signals>>

\* A signal that has no handler yet ends the process.
DieOfSignal ==
    /\ Job!DieOfSignal
    /\ UNCHANGED <<vars, handler_vars>>

-----------------------------------------------------------------------------

Progress ==
    \/ CallGenerate
    \/ InGenerate
    \/ EndGenerate
    \/ MainStatement
    \/ \E w \in Workers : InWorker(w)
    \/ \E t \in Handling : StoreFlag(t) \/ LeaveHandler(t)

ProcessNext == Progress \/ (\E t \in Threads : EnterHandler(t)) \/ DieOfSignal

\* Some thread that can run does; nobody has to send a signal.
ProcessSpec ==
    ProcessInit /\ [][ProcessNext]_process_vars /\ WF_process_vars(Progress)

-----------------------------------------------------------------------------
(* Properties.                                                             *)

\* main reads stop_requested at `while` and at `if`: no other thread is then
\* in the handler, and all that ever were have been joined, so that the read
\* races with no store.
FlagReadRaceFree == pc \in {"loop", "end"} => Handling \subseteq {MainThread}

\* No worker thread exists outside of generate: none sees its model, its
\* options or the stack of main go, whatever exception ended the call.
WorkersEndFirst == pc # "generate" => WorkerThreads = {}

\* What generate returns for the job seed s: all the scenarios, each with the
\* shocks of its own stream.
ScenariosOf(s) ==
    [id \in Ids(scenario_count) |->
        [scenario_id |-> id, price_shocks |-> SeedWords(s, id)]]

\* The scenarios that are simulated and reported as job number job_index are
\* all the scenarios of its seed, as if the process ran this job alone.
JobUsesOwnStreams ==
    pc \in {"simulate", "report"} =>
        scenarios = ScenariosOf(JobSeed(base_seed, job_index))

\* From the first test of the flag on both signals have their handler, so
\* that no signal ends the process while workers run.
HandlersInv ==
    /\ handled \subseteq Job!Signals
    /\ pc = "sigterm" => "SIGINT" \in handled
    /\ pc \in {"loop", "end"} \/ Job!InBody => handled = Job!Signals

\* main leaves the call only when it has ended, goes on only if it returned,
\* and what it returned is made of the seed of the job.
CallInv ==
    /\ base_seed \in BaseSeeds
    /\ job_index \in Nat
    /\ main = "exit" /\ thrown = "none" => scenarios = ScenariosOf(seed)
    /\ pc \in {"generate", "simulate", "report"} =>
          seed = JobSeed(base_seed, job_index)
    /\ pc \in {"simulate", "report"} => main = "exit" /\ thrown = "none"
    /\ pc # "generate" => joined = spawned

\* The inductive invariant behind the properties above: the call, the job it
\* belongs to and the handlers agree, and only threads that exist run one.
ProcessInv ==
    /\ IInv
    /\ CallInv
    /\ HandlersInv
    /\ Handling \subseteq Threads

\* Threads and handlers are invisible to the job loop: it behaves as JobLoop
\* says, and ends when JobLoop says it does.
ImplementsJobLoop == Job!Spec
=============================================================================
