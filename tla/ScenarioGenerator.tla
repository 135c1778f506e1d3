-------------------------- MODULE ScenarioGenerator --------------------------
(***************************************************************************)
(* One call of MonteCarloScenarioGenerator::generate: the calling thread   *)
(* ("main" below), the worker threads it starts, the two buffers they      *)
(* share with it, and every exception that can leave the call.             *)
(*                                                                         *)
(* A worker writes only its own slots of generated_shocks and its own slot *)
(* of worker_exceptions, without a lock; the calling thread reads both     *)
(* after the destructor of `workers` has joined every thread, and destroys *)
(* them when the call ends, with or without an exception.                  *)
(*                                                                         *)
(* A price shock map is identified with the seed words of the stream it is *)
(* drawn from; <<>> is the empty map a slot starts with.  Whether a draw   *)
(* overflows depends on the model, the job seed and the scenario id only,  *)
(* so it is part of the request (nonfinite).  Memory may run out wherever  *)
(* the code allocates.                                                     *)
(***************************************************************************)
EXTENDS ScenarioRanges, RandomStreams

CONSTANTS
    ScenarioCounts, \* the values scenario_count may take
    ThreadCounts,   \* the values thread_count may take
    Seeds           \* the values seed may take

ASSUME RequestAssumption ==
    /\ ScenarioCounts \subseteq Nat
    /\ ThreadCounts \subseteq Nat
    /\ Seeds \subseteq Nat

VARIABLES
    scenario_count,    \* argument
    seed,              \* argument, the job seed
    thread_count,      \* argument
    nonfinite,         \* ids whose draws give a non-finite price shock
    main,              \* what the calling thread does next
    thrown,            \* the exception leaving the call, or "none"
    scenarios,         \* the value returned
    worker_count,      \* 0 until the buffers are allocated
    generated_shocks,  \* one slot per scenario
    worker_exceptions, \* one slot per worker
    worker,            \* what each thread is doing
    next,              \* scenario_id, the loop counter of each worker
    spawned,           \* workers started so far
    joined             \* workers joined so far

request == <<scenario_count, seed, thread_count, nonfinite>>
caller  == <<main, thrown, scenarios>>
threads == <<worker, next>>
buffers == <<generated_shocks, worker_exceptions>>
counts  == <<worker_count, spawned, joined>>
vars    == <<request, caller, threads, buffers, counts>>

Ids(n)  == 0 .. (n - 1)
Workers == 0 .. (worker_count - 1)
Slots   == IF worker_count = 0 THEN {} ELSE Ids(scenario_count)

Begin(w) == RangeBegin(scenario_count, worker_count, w)
End(w)   == RangeEnd(scenario_count, worker_count, w)

EmptyMap == <<>>
Maps     == {EmptyMap} \cup {SeedWords(seed, id) : id \in Ids(scenario_count)}

\* What a worker can catch.
Caught == {"overflow_error", "bad_alloc"}

\* What can leave the call.
Thrown == Caught \cup {"invalid_argument", "length_error", "system_error"}

Request ==
    /\ scenario_count \in ScenarioCounts
    /\ seed \in Seeds
    /\ thread_count \in ThreadCounts
    /\ nonfinite \in SUBSET Ids(scenario_count)

Init ==
    /\ Request
    /\ main = "entry" /\ thrown = "none" /\ scenarios = <<>>
    /\ worker_count = 0 /\ spawned = 0 /\ joined = 0
    /\ generated_shocks = <<>> /\ worker_exceptions = <<>>
    /\ worker = <<>> /\ next = <<>>

-----------------------------------------------------------------------------
(* The calling thread, up to the start of the workers.                     *)

\* throw of the exception e with nothing left to join
Leave(e) ==
    /\ main' = "exit"
    /\ thrown' = e
    /\ UNCHANGED scenarios

RejectThreadCount ==
    /\ main = "entry"
    /\ thread_count = 0
    /\ Leave("invalid_argument")
    /\ UNCHANGED <<request, threads, buffers, counts>>

\* `return {}`
ReturnEmpty ==
    /\ main = "entry"
    /\ thread_count # 0
    /\ scenario_count = 0
    /\ Leave("none")
    /\ UNCHANGED <<request, threads, buffers, counts>>

\* The two buffers are sized before any worker exists.
Allocate ==
    /\ main = "entry"
    /\ thread_count # 0
    /\ scenario_count # 0
    /\ worker_count' = WorkerCount(scenario_count, thread_count)
    /\ generated_shocks' = [id \in Ids(scenario_count) |-> EmptyMap]
    /\ worker_exceptions' = [w \in Workers' |-> "none"]
    /\ worker' = [w \in Workers' |-> "unborn"]
    /\ next' = [w \in Workers' |->
                  RangeBegin(scenario_count, worker_count', w)]
    /\ main' = "spawn"
    /\ UNCHANGED <<request, thrown, scenarios, spawned, joined>>

\* A count beyond max_size() is a length_error.
AllocateFails ==
    /\ main = "entry"
    /\ thread_count # 0
    /\ scenario_count # 0
    /\ \E e \in {"bad_alloc", "length_error"} : Leave(e)
    /\ UNCHANGED <<request, threads, buffers, counts>>

\* A single worker is a plain call: the calling thread waits for it to
\* return as it would wait for a thread to end.
\* Otherwise workers.emplace_back(generate_range, worker_id).
Spawn ==
    /\ main = "spawn"
    /\ worker' = [worker EXCEPT ![spawned] = "running"]
    /\ spawned' = spawned + 1
    /\ main' = IF spawned + 1 = worker_count THEN "join" ELSE "spawn"
    /\ UNCHANGED <<request, thrown, scenarios, next, buffers, worker_count, joined>>

\* Mutant of SpawnFails: the started threads are detached, not joined.
SpawnFailsDetached ==
    /\ main = "spawn"
    /\ worker_count > 1
    /\ \E e \in {"system_error", "bad_alloc"} : Leave(e)
    /\ UNCHANGED <<request, threads, buffers, counts>>

\* A thread cannot be started (or `workers` not be reserved): the exception
\* unwinds through the destructor of `workers`, which joins those that were.
SpawnFails ==
    /\ main = "spawn"
    /\ worker_count > 1
    /\ main' = "join"
    /\ thrown' \in {"system_error", "bad_alloc"}
    /\ UNCHANGED <<request, scenarios, threads, buffers, counts>>

-----------------------------------------------------------------------------
(* The workers: generate_range and the calls of generatePriceShocks.       *)

\* Mutant of Generate: scenario_id <= end.
GenerateInclusive(w) ==
    /\ worker[w] = "running"
    /\ next[w] <= End(w)
    /\ next[w] \notin nonfinite
    /\ generated_shocks' =
          [generated_shocks EXCEPT ![next[w]] = SeedWords(seed, next[w])]
    /\ next' = [next EXCEPT ![w] = next[w] + 1]
    /\ UNCHANGED <<request, caller, worker, worker_exceptions, counts>>

\* Mutant of Generate: one stream per worker instead of one per scenario.
GenerateWorkerStream(w) ==
    /\ worker[w] = "running"
    /\ next[w] < End(w)
    /\ next[w] \notin nonfinite
    /\ generated_shocks' =
          [generated_shocks EXCEPT ![next[w]] = SeedWords(seed, w)]
    /\ next' = [next EXCEPT ![w] = next[w] + 1]
    /\ UNCHANGED <<request, caller, worker, worker_exceptions, counts>>

\* One iteration of the loop that stores its map and goes on.
Generate(w) ==
    /\ worker[w] = "running"
    /\ next[w] < End(w)
    /\ next[w] \notin nonfinite
    /\ generated_shocks' =
          [generated_shocks EXCEPT ![next[w]] = SeedWords(seed, next[w])]
    /\ next' = [next EXCEPT ![w] = next[w] + 1]
    /\ UNCHANGED <<request, caller, worker, worker_exceptions, counts>>

\* Mutant of GenerateFails: the try block is inside the loop.
GenerateFailsInLoop(w, e) ==
    /\ worker[w] = "running"
    /\ next[w] < End(w)
    /\ e = "overflow_error" => next[w] \in nonfinite
    /\ worker_exceptions' = [worker_exceptions EXCEPT ![w] = e]
    /\ next' = [next EXCEPT ![w] = next[w] + 1]
    /\ UNCHANGED <<request, caller, worker, generated_shocks, counts>>

\* Mutant of GenerateFails: a scenario that fails is drawn again.
GenerateFailsRetry(w, e) ==
    /\ worker[w] = "running"
    /\ next[w] < End(w)
    /\ e = "overflow_error" => next[w] \in nonfinite
    /\ UNCHANGED vars

\* catch (...): the rest of the range is abandoned.
GenerateFails(w, e) ==
    /\ worker[w] = "running"
    /\ next[w] < End(w)
    /\ e = "overflow_error" => next[w] \in nonfinite
    /\ worker_exceptions' = [worker_exceptions EXCEPT ![w] = e]
    /\ worker' = [worker EXCEPT ![w] = "finished"]
    /\ UNCHANGED <<request, caller, next, generated_shocks, counts>>

FinishRange(w) ==
    /\ worker[w] = "running"
    /\ next[w] = End(w)
    /\ worker' = [worker EXCEPT ![w] = "finished"]
    /\ UNCHANGED <<request, caller, next, buffers, counts>>

-----------------------------------------------------------------------------
(* The calling thread, from the destructor of `workers` on.                *)

\* ~jthread of the next worker.
Join ==
    /\ main = "join"
    /\ joined < spawned
    /\ worker[joined] = "finished"
    /\ joined' = joined + 1
    /\ UNCHANGED <<request, caller, threads, buffers, worker_count, spawned>>

\* Mutant of LeaveWorkers: the threads are joined only when all started.
LeaveWorkersEarly ==
    /\ main = "join"
    /\ joined = spawned \/ thrown # "none"
    /\ main' = IF thrown = "none" THEN "rethrow" ELSE "exit"
    /\ UNCHANGED <<request, thrown, scenarios, threads, buffers, counts>>

\* Mutant of LeaveWorkers: the threads are detached.
LeaveWorkersDetached ==
    /\ main = "join"
    /\ main' = IF thrown = "none" THEN "rethrow" ELSE "exit"
    /\ UNCHANGED <<request, thrown, scenarios, threads, buffers, counts>>

\* `workers` is gone: the exception of SpawnFails goes on, if there is one.
LeaveWorkers ==
    /\ main = "join"
    /\ joined = spawned
    /\ main' = IF thrown = "none" THEN "rethrow" ELSE "exit"
    /\ UNCHANGED <<request, thrown, scenarios, threads, buffers, counts>>

Failed == {w \in Workers : worker_exceptions[w] # "none"}

\* The failed worker with the lowest id.
FirstFailed(w) == w \in Failed /\ \A v \in Failed : w <= v

\* std::rethrow_exception of the first exception in worker order
Rethrow ==
    /\ main = "rethrow"
    /\ \E w \in Failed : FirstFailed(w) /\ Leave(worker_exceptions[w])
    /\ UNCHANGED <<request, threads, buffers, counts>>

\* The slots are moved into the scenarios, in id order.
Assemble ==
    /\ main = "rethrow"
    /\ Failed = {}
    /\ scenarios' = [id \in Ids(scenario_count) |->
                        [scenario_id |-> id,
                         price_shocks |-> generated_shocks[id]]]
    /\ generated_shocks' = [id \in Ids(scenario_count) |-> EmptyMap]
    /\ main' = "exit"
    /\ UNCHANGED <<request, thrown, threads, worker_exceptions, counts>>

\* scenarios.reserve(scenario_count) fails before the first slot is moved;
\* the name of a scenario may need memory when some slots have been.
AssembleFails ==
    /\ main = "rethrow"
    /\ Failed = {}
    /\ \E e \in {"bad_alloc", "length_error"}, moved \in 0 .. scenario_count :
          /\ e = "length_error" => moved = 0
          /\ generated_shocks' =
                [id \in Ids(scenario_count) |->
                    IF id < moved THEN EmptyMap ELSE generated_shocks[id]]
          /\ Leave(e)
    /\ UNCHANGED <<request, threads, worker_exceptions, counts>>

-----------------------------------------------------------------------------

WorkerStep(w) ==
    \/ Generate(w)
    \/ \E e \in Caught : GenerateFails(w, e)
    \/ FinishRange(w)

CallerStep ==
    \/ RejectThreadCount
    \/ ReturnEmpty
    \/ Allocate
    \/ AllocateFails
    \/ Spawn
    \/ SpawnFails
    \/ Join
    \/ LeaveWorkers
    \/ Rethrow
    \/ Assemble
    \/ AssembleFails

Next == CallerStep \/ \E w \in Workers : WorkerStep(w)

\* The scheduler runs some thread that can run; no thread is favoured.
Spec == Init /\ [][Next]_vars /\ WF_vars(Next)

-----------------------------------------------------------------------------
(* Properties.                                                             *)

\* Types; a worker never leaves its range.
TypeOK ==
    /\ Request
    /\ main \in {"entry", "spawn", "join", "rethrow", "exit"}
    /\ thrown \in Thrown \cup {"none"}
    /\ worker_count \in {0, WorkerCount(scenario_count, thread_count)}
    /\ spawned \in 0 .. worker_count
    /\ joined \in 0 .. spawned
    /\ generated_shocks \in [Slots -> Maps]
    /\ worker_exceptions \in [Workers -> Caught \cup {"none"}]
    /\ worker \in [Workers -> {"unborn", "running", "finished"}]
    /\ next \in [Workers -> Nat]
    /\ \A w \in Workers : next[w] \in Begin(w) .. End(w)

\* The buffers the workers hold references to are alive while any worker
\* runs: the call has not gone past the destructor of `workers`, whether
\* every thread could be started or not.
BuffersOutliveWorkers ==
    \A w \in Workers : worker[w] = "running" => main \in {"spawn", "join"}

\* The ids a worker has written or is writing.
Touched(w) == {id \in Begin(w) .. next[w] : id < End(w)}

\* Workers write generated_shocks without a lock: no slot has two writers.
NoSlotRace ==
    \A v, w \in Workers : v # w => Touched(v) \cap Touched(w) = {}

\* The failure the call reports is the one that generating the ids one after
\* the other would have met: every id below it holds its shocks, and an
\* overflow is reported for an id that does overflow.
FailureIsSequential ==
    main = "rethrow" =>
        \A w \in Failed : FirstFailed(w) =>
            /\ \A id \in 0 .. (next[w] - 1) :
                  generated_shocks[id] = SeedWords(seed, id)
            /\ worker_exceptions[w] = "overflow_error" => next[w] \in nonfinite

\* What each phase of the calling thread has established.
PhaseInv ==
    /\ main = "entry" => worker_count = 0 /\ thrown = "none"
    /\ main # "exit" => scenarios = <<>>
    /\ main \in {"spawn", "join", "rethrow"} =>
          /\ thread_count > 0 /\ scenario_count > 0
          /\ worker_count = WorkerCount(scenario_count, thread_count)
    /\ main = "spawn" => thrown = "none" /\ joined = 0 /\ spawned < worker_count
    /\ main = "join" =>
          \/ thrown = "none" /\ spawned = worker_count
          \/ thrown \in {"system_error", "bad_alloc"} /\ worker_count > 1
    /\ main = "rethrow" =>
          thrown = "none" /\ joined = worker_count /\ spawned = worker_count
    /\ main = "exit" => joined = spawned

\* How far worker w is, and what it leaves behind when it ends.
WorkerInv(w) ==
    /\ worker[w] = "unborn" <=> w >= spawned
    /\ w < joined => worker[w] = "finished"
    /\ worker_exceptions[w] # "none" =>
          /\ worker[w] = "finished"
          /\ next[w] < End(w)
          /\ worker_exceptions[w] = "overflow_error" => next[w] \in nonfinite
    /\ worker[w] = "finished" /\ worker_exceptions[w] = "none" =>
          next[w] = End(w)

\* Every id worker w has passed holds the shocks of its own stream.
SlotInv(w) ==
    \A id \in Begin(w) .. (next[w] - 1) :
        /\ id \notin nonfinite
        /\ main # "exit" => generated_shocks[id] = SeedWords(seed, id)

\* The inductive invariant behind the properties above: the phase of the
\* calling thread, the progress of the workers and the slots agree.
IInv ==
    /\ TypeOK
    /\ PhaseInv
    /\ \A w \in Workers : WorkerInv(w) /\ SlotInv(w)

\* The outcome of the call in the terms of GenerationContract.
Outcome ==
    IF main # "exit" THEN [status |-> "pending", scenarios |-> <<>>]
    ELSE IF thrown # "none" THEN [status |-> thrown, scenarios |-> <<>>]
    ELSE [status |-> "returned", scenarios |-> scenarios]

Contract == INSTANCE GenerationContract WITH result <- Outcome

\* Threads are invisible: the call returns what GenerationContract allows.
ImplementsContract == Contract!Spec

\* The phases of the calling thread that may still come.
Ahead == [entry   |-> {"spawn", "join", "rethrow", "exit"},
          spawn   |-> {"join", "rethrow", "exit"},
          join    |-> {"rethrow", "exit"},
          rethrow |-> {"exit"},
          exit    |-> {}]

\* The ids whose iteration is over.
Passed == UNION {Begin(w) .. (next[w] - 1) : w \in Workers}

\* What the call has not done yet, with the workers it is to have.
StepsLeft ==
    LET W == WorkerCount(scenario_count, thread_count)
    IN  ({"advance"} \X Ahead[main])
        \cup ({"generate"} \X (Ids(scenario_count) \ Passed))
        \cup ({"start"} \X (spawned .. (W - 1)))
        \cup ({"end"} \X {w \in Ids(W) : w \in Workers => worker[w] # "finished"})
        \cup ({"join"} \X (joined .. (W - 1)))

\* No step is taken twice: each one does something that was still to be done and
\* undoes nothing.  No id is generated by two workers or again after a failure, no
\* thread is started, ends or is joined a second time, and so a call is over after
\* as many steps as there were at its beginning.
NoStepRepeats == [][StepsLeft' \subseteq StepsLeft /\ StepsLeft' # StepsLeft]_vars

\* The call ends whatever fails: nobody waits for a worker that never ends.
GenerateTerminates == <>(main = "exit")
=============================================================================
