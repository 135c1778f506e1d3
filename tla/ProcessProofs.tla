----------------------------- MODULE ProcessProofs -----------------------------
(***************************************************************************)
(* First one call of MonteCarloScenarioGenerator::generate, by itself, for *)
(* every number of scenarios, every number of threads and every word size: *)
(* IInv is an inductive invariant, the safety properties follow from it,   *)
(* and no step is ever taken twice.  Then the whole process, in which that *)
(* call is a part of each job, for every number of jobs and signals,       *)
(* whatever thread a handler interrupts.                                   *)
(***************************************************************************)
EXTENDS Process, ArithmeticProofs

-----------------------------------------------------------------------------
(* One call of generate: facts about one state.                            *)

\* The arguments and the ranges of the workers, in a state of the right type.
LEMMA WorkerRange ==
    ASSUME TypeOK, NEW w \in Workers
    PROVE  /\ scenario_count \in Nat /\ worker_count \in 1 .. scenario_count
           /\ Slots = Ids(scenario_count)
           /\ w \in Nat
           /\ Begin(w) \in Nat /\ End(w) \in Nat
           /\ Begin(w) < End(w) /\ End(w) <= scenario_count
           /\ next[w] \in Begin(w) .. End(w)
  <1>1. scenario_count \in Nat /\ thread_count \in Nat
    BY RequestAssumption DEF TypeOK, Request
  <1>2. worker_count \in 1 .. scenario_count
    BY <1>1 DEF TypeOK, Workers, WorkerCount, Lesser
  <1>3. w \in 0 .. (worker_count - 1)
    BY DEF Workers
  <1>4. /\ Begin(w) \in Nat /\ End(w) \in Nat
        /\ Begin(w) < End(w) /\ End(w) <= scenario_count
    BY <1>1, <1>2, <1>3, RangeInBounds DEF Begin, End
  <1> QED
    BY <1>1, <1>2, <1>3, <1>4 DEF TypeOK, Slots

\* The ids of two workers differ, so a slot belongs to one worker.
LEMMA SlotOwner ==
    ASSUME TypeOK, NEW v \in Workers, NEW w \in Workers, v # w,
           NEW i \in Int, NEW j \in Int,
           Begin(v) <= i, i < End(v), Begin(w) <= j, j < End(w)
    PROVE  i # j
  <1>1. /\ scenario_count \in Nat /\ worker_count \in 1 .. scenario_count
        /\ Begin(v) \in Nat /\ End(v) \in Nat
        /\ Begin(w) \in Nat /\ End(w) \in Nat
    BY WorkerRange
  <1>2. RangeOf(scenario_count, worker_count, v)
          \cap RangeOf(scenario_count, worker_count, w) = {}
    BY <1>1, RangesDisjoint DEF Workers
  <1>3. /\ i \in RangeOf(scenario_count, worker_count, v)
        /\ j \in RangeOf(scenario_count, worker_count, w)
    BY <1>1 DEF RangeOf, Begin, End
  <1> QED
    BY <1>2, <1>3

-----------------------------------------------------------------------------
(* One call of generate: IInv is inductive.                                *)

LEMMA InitInvariant == Init => IInv
  <1> SUFFICES ASSUME Init PROVE IInv
    OBVIOUS
  <1>1. Workers = {} /\ Slots = {}
    BY DEF Init, Workers, Slots
  <1>2. TypeOK
    BY <1>1 DEF Init, TypeOK
  <1>3. PhaseInv
    BY DEF Init, PhaseInv
  <1> QED
    BY <1>1, <1>2, <1>3 DEF IInv

LEMMA InitInvariantNext == Init' => IInv'
  BY InitInvariant, PTL

\* Steps of the calling thread that leave the workers and buffers alone.
LEMMA CallerSteps ==
    ASSUME IInv,
           \/ RejectThreadCount
           \/ ReturnEmpty
           \/ AllocateFails
           \/ SpawnFails
           \/ LeaveWorkers
           \/ Rethrow
    PROVE  IInv'
  <1> USE DEF request, threads, buffers, counts
  <1>1. UNCHANGED <<request, threads, buffers, counts>>
    BY DEF RejectThreadCount, ReturnEmpty, AllocateFails, SpawnFails,
           LeaveWorkers, Rethrow
  <1>2. /\ Workers' = Workers /\ Slots' = Slots
        /\ Maps' = Maps
        /\ \A w : Begin(w)' = Begin(w) /\ End(w)' = End(w)
    BY <1>1 DEF Workers, Slots, Maps, Begin, End
  <1>3. /\ main' \in {"join", "rethrow", "exit"}
        /\ thrown' \in Thrown \cup {"none"}
        /\ main # "exit"
    <2>1. CASE Rethrow
      BY <2>1 DEF Rethrow, Leave, Failed, IInv, TypeOK, Thrown
    <2> QED
      BY <2>1 DEF RejectThreadCount, ReturnEmpty, AllocateFails, SpawnFails,
                  LeaveWorkers, Leave, IInv, TypeOK, Thrown, Caught
  <1>4. TypeOK'
    BY <1>1, <1>2, <1>3 DEF IInv, TypeOK, Request
  <1>5. PhaseInv'
    <2>1. TypeOK /\ PhaseInv
      BY DEF IInv
    <2>2. CASE SpawnFails
      BY <1>1, <2>1, <2>2 DEF SpawnFails, TypeOK, PhaseInv
    <2>3. CASE LeaveWorkers
      BY <1>1, <2>1, <2>3 DEF LeaveWorkers, TypeOK, PhaseInv
    <2>4. CASE ~SpawnFails /\ ~LeaveWorkers
      <3>1. main' = "exit" /\ main \in {"entry", "rethrow"}
        BY <2>4 DEF RejectThreadCount, ReturnEmpty, AllocateFails, Rethrow,
                    Leave
      <3>2. joined = spawned
        BY <2>1, <3>1 DEF TypeOK, PhaseInv
      <3> QED
        BY <1>1, <3>1, <3>2 DEF PhaseInv
    <2> QED
      BY <2>2, <2>3, <2>4
  <1>6. \A w \in Workers' : WorkerInv(w)' /\ SlotInv(w)'
    BY <1>1, <1>2, <1>3 DEF IInv, WorkerInv, SlotInv
  <1> QED
    BY <1>4, <1>5, <1>6 DEF IInv

LEMMA AllocateStep ==
    ASSUME IInv, Allocate
    PROVE  IInv'
  <1> USE DEF request, threads, buffers, counts
  <1>1. /\ scenario_count \in Nat \ {0} /\ thread_count \in Nat \ {0}
        /\ scenario_count' = scenario_count /\ seed' = seed
        /\ thread_count' = thread_count
        /\ nonfinite' = nonfinite
        /\ spawned' = 0 /\ joined' = 0
        /\ main' = "spawn" /\ thrown' = "none" /\ scenarios' = <<>>
    BY RequestAssumption
       DEF Allocate, IInv, TypeOK, Request, PhaseInv
  <1>2. worker_count' = WorkerCount(scenario_count, thread_count)
        /\ worker_count' \in 1 .. scenario_count
    BY <1>1 DEF Allocate, WorkerCount, Lesser
  <1>3. /\ Workers' = 0 .. (worker_count' - 1)
        /\ Slots' = Ids(scenario_count)
    BY <1>1, <1>2 DEF Workers, Slots
  <1>4. ASSUME NEW w \in Workers'
        PROVE  /\ next'[w] = Begin(w)' /\ Begin(w)' \in Nat
               /\ End(w)' \in Nat /\ Begin(w)' < End(w)'
               /\ worker'[w] = "unborn"
               /\ worker_exceptions'[w] = "none"
               /\ w \in Nat
    <2>1. w \in 0 .. (worker_count' - 1)
      BY <1>3
    <2>2. /\ next'[w] = RangeBegin(scenario_count, worker_count', w)
          /\ worker'[w] = "unborn"
          /\ worker_exceptions'[w] = "none"
      BY DEF Allocate
    <2>3. /\ Begin(w)' = RangeBegin(scenario_count, worker_count', w)
          /\ End(w)' = RangeEnd(scenario_count, worker_count', w)
      BY <1>1 DEF Begin, End
    <2>4. /\ RangeBegin(scenario_count, worker_count', w) \in Nat
          /\ RangeEnd(scenario_count, worker_count', w) \in Nat
          /\ RangeBegin(scenario_count, worker_count', w)
               < RangeEnd(scenario_count, worker_count', w)
      BY <1>1, <1>2, <2>1, RangeInBounds
    <2> QED
      BY <2>1, <2>2, <2>3, <2>4
  <1>5. TypeOK'
    <2>1. generated_shocks' \in [Slots' -> Maps']
      BY <1>1, <1>3 DEF Allocate, Maps
    <2>2. /\ worker_exceptions' \in [Workers' -> Caught \cup {"none"}]
          /\ worker' \in [Workers' -> {"unborn", "running", "finished"}]
      BY DEF Allocate
    <2>3. next' \in [Workers' -> Nat]
      <3>1. next' = [w \in Workers' |-> next'[w]]
        BY DEF Allocate
      <3>2. \A w \in Workers' : next'[w] \in Nat
        BY <1>4
      <3> QED
        BY <3>1, <3>2
    <2>4. \A w \in Workers' : next'[w] \in Begin(w)' .. End(w)'
      BY <1>4
    <2>5. Request'
      BY <1>1 DEF IInv, TypeOK, Request
    <2> QED
      BY <1>1, <1>2, <2>1, <2>2, <2>3, <2>4, <2>5 DEF TypeOK
  <1>6. PhaseInv'
    BY <1>1, <1>2 DEF PhaseInv
  <1>7. ASSUME NEW w \in Workers'
        PROVE  WorkerInv(w)' /\ SlotInv(w)'
    <2>1. WorkerInv(w)'
      BY <1>1, <1>4 DEF WorkerInv
    <2>2. SlotInv(w)'
      BY <1>4 DEF SlotInv
    <2> QED
      BY <2>1, <2>2
  <1> QED
    BY <1>5, <1>6, <1>7 DEF IInv

LEMMA SpawnStep ==
    ASSUME IInv, Spawn
    PROVE  IInv'
  <1> USE DEF request, threads, buffers, counts
  <1>1. /\ TypeOK /\ PhaseInv
        /\ main = "spawn" /\ thrown = "none" /\ joined = 0 /\ scenarios = <<>>
        /\ spawned \in Nat /\ worker_count \in Nat /\ spawned < worker_count
    BY RequestAssumption
       DEF IInv, Spawn, TypeOK, PhaseInv, Request, WorkerCount, Lesser
  <1>2. /\ UNCHANGED <<request, thrown, scenarios, next, generated_shocks,
                       worker_exceptions, worker_count, joined>>
        /\ spawned' = spawned + 1
        /\ main' \in {"spawn", "join"}
        /\ main' = "join" <=> spawned' = worker_count
        /\ worker' = [worker EXCEPT ![spawned] = "running"]
    BY <1>1 DEF Spawn
  <1>3. /\ Workers' = Workers /\ Slots' = Slots /\ Maps' = Maps
        /\ \A w : Begin(w)' = Begin(w) /\ End(w)' = End(w)
    BY <1>2 DEF Workers, Slots, Maps, Begin, End
  <1>4. TypeOK'
    <2>1. worker' \in [Workers' -> {"unborn", "running", "finished"}]
      BY <1>1, <1>2, <1>3 DEF TypeOK
    <2>2. spawned' \in 0 .. worker_count /\ joined' \in 0 .. spawned'
      BY <1>1, <1>2
    <2>3. /\ main' \in {"entry", "spawn", "join", "rethrow", "exit"}
          /\ thrown' \in Thrown \cup {"none"}
          /\ Request'
      BY <1>1, <1>2 DEF TypeOK, Request
    <2>4. \A w \in Workers' : next'[w] \in Begin(w)' .. End(w)'
      BY <1>1, <1>2, <1>3 DEF TypeOK
    <2>5. /\ worker_count' \in {0, WorkerCount(scenario_count, thread_count)'}
          /\ generated_shocks' \in [Slots' -> Maps']
          /\ worker_exceptions' \in [Workers' -> Caught \cup {"none"}]
          /\ next' \in [Workers' -> Nat]
      BY <1>1, <1>2, <1>3 DEF TypeOK
    <2> QED
      BY <1>2, <2>1, <2>2, <2>3, <2>4, <2>5 DEF TypeOK
  <1>5. PhaseInv'
    BY <1>1, <1>2 DEF PhaseInv
  <1>6. ASSUME NEW w \in Workers
        PROVE  WorkerInv(w)' /\ SlotInv(w)'
    <2>1. WorkerInv(w) /\ SlotInv(w) /\ w \in Nat
      BY DEF IInv, Workers
    <2>2. worker'[w] = IF w = spawned THEN "running" ELSE worker[w]
      BY <1>1, <1>2 DEF TypeOK
    <2>3. WorkerInv(w)'
      BY <1>1, <1>2, <1>3, <2>1, <2>2 DEF WorkerInv
    <2>4. SlotInv(w)'
      BY <1>1, <1>2, <1>3, <2>1 DEF SlotInv
    <2> QED
      BY <2>3, <2>4
  <1> QED
    BY <1>3, <1>4, <1>5, <1>6 DEF IInv

\* A step of one worker, and of the join that waits for one.  The proofs
\* share what such a step leaves alone.
LEMMA WorkerStepFrame ==
    ASSUME IInv, NEW w \in Workers, WorkerStep(w)
    PROVE  /\ UNCHANGED <<request, caller, counts>>
           /\ Workers' = Workers /\ Slots' = Slots /\ Maps' = Maps
           /\ \A v : Begin(v)' = Begin(v) /\ End(v)' = End(v)
           /\ main \in {"spawn", "join"}
           /\ worker[w] = "running"
           /\ PhaseInv'
           /\ Request'
  <1> USE DEF request, caller, counts
  <1>1. UNCHANGED <<request, caller, counts>> /\ worker[w] = "running"
    BY DEF WorkerStep, Generate, GenerateFails, FinishRange
  <1>2. /\ Workers' = Workers /\ Slots' = Slots /\ Maps' = Maps
        /\ \A v : Begin(v)' = Begin(v) /\ End(v)' = End(v)
    BY <1>1 DEF Workers, Slots, Maps, Begin, End
  <1>3. main \in {"spawn", "join"}
    <2>1. /\ WorkerInv(w) /\ PhaseInv /\ TypeOK /\ w \in Nat
          /\ w < worker_count /\ worker_count \in Nat
      BY WorkerRange DEF IInv, Workers
    <2>2. w < spawned /\ ~(w < joined)
      BY <1>1, <2>1 DEF WorkerInv, TypeOK
    <2> QED
      BY <2>1, <2>2 DEF PhaseInv, TypeOK
  <1>4. PhaseInv' /\ Request'
    BY <1>1 DEF IInv, TypeOK, PhaseInv, Request
  <1> QED
    BY <1>1, <1>2, <1>3, <1>4

LEMMA GenerateStep ==
    ASSUME IInv, NEW w \in Workers, Generate(w)
    PROVE  IInv'
  <1> USE DEF request, caller, counts
  <1>1. WorkerStep(w)
    BY DEF WorkerStep
  <1>2. /\ UNCHANGED <<request, caller, counts>>
        /\ Workers' = Workers /\ Slots' = Slots /\ Maps' = Maps
        /\ \A v : Begin(v)' = Begin(v) /\ End(v)' = End(v)
        /\ main \in {"spawn", "join"} /\ worker[w] = "running"
        /\ PhaseInv' /\ Request'
    BY <1>1, WorkerStepFrame
  <1>3. TypeOK /\ \A v \in Workers : WorkerInv(v) /\ SlotInv(v)
    BY DEF IInv
  <1>4. /\ next[w] \in Begin(w) .. (End(w) - 1)
        /\ Begin(w) \in Nat /\ End(w) \in Nat
        /\ next[w] \in Ids(scenario_count)
        /\ next[w] \in Slots
    BY <1>3, WorkerRange DEF Generate, Ids
  <1>5. next' = [next EXCEPT ![w] = next[w] + 1]
        /\ UNCHANGED <<worker, worker_exceptions>>
        /\ next[w] \notin nonfinite
    BY DEF Generate
  <1>6. \A v \in Workers : next'[v] = IF v = w THEN next[w] + 1 ELSE next[v]
    BY <1>3, <1>5 DEF TypeOK
  <1>7. \A id \in Slots : generated_shocks'[id] =
           IF id = next[w] THEN SeedWords(seed, id) ELSE generated_shocks[id]
    BY <1>3 DEF Generate, TypeOK
  <1>8. TypeOK'
    <2>1. generated_shocks' \in [Slots' -> Maps']
      <3>1. SeedWords(seed, next[w]) \in Maps
        BY <1>4 DEF Maps
      <3> QED
        BY <1>2, <1>3, <3>1 DEF Generate, TypeOK
    <2>2. next' \in [Workers' -> Nat]
      BY <1>2, <1>3, <1>4, <1>5 DEF TypeOK
    <2>3. \A v \in Workers' : next'[v] \in Begin(v)' .. End(v)'
      BY <1>2, <1>3, <1>4, <1>6 DEF TypeOK
    <2> QED
      BY <1>2, <1>3, <1>5, <2>1, <2>2, <2>3 DEF TypeOK
  <1>9. ASSUME NEW v \in Workers
        PROVE  WorkerInv(v)'
    <2>1. CASE v = w
      BY <1>2, <1>3, <1>5, <2>1 DEF WorkerInv
    <2>2. CASE v # w
      BY <1>2, <1>3, <1>5, <1>6, <2>2 DEF WorkerInv
    <2> QED
      BY <2>1, <2>2
  <1>10. ASSUME NEW v \in Workers
         PROVE  SlotInv(v)'
    <2>1. SUFFICES ASSUME NEW id \in Begin(v) .. (next'[v] - 1)
                   PROVE  /\ id \notin nonfinite
                          /\ generated_shocks'[id] = SeedWords(seed, id)
      BY <1>2 DEF SlotInv
    <2>2. /\ Begin(v) \in Nat /\ End(v) \in Nat /\ End(v) <= scenario_count
          /\ scenario_count \in Nat /\ Slots = Ids(scenario_count)
          /\ next[v] \in Begin(v) .. End(v)
      BY <1>3, WorkerRange
    <2>3. id \in Slots /\ id < End(v)
      <3>1. next'[v] \in Nat /\ next'[v] <= End(v)
        BY <1>4, <1>6, <2>2
      <3>2. id \in Nat /\ id < End(v)
        BY <2>2, <3>1
      <3> QED
        BY <2>2, <3>2 DEF Ids
    <2>4. CASE id = next[w]
      BY <1>5, <1>7, <2>3, <2>4
    <2>5. CASE id # next[w]
      <3>1. id \in Begin(v) .. (next[v] - 1)
        BY <1>4, <1>6, <2>2, <2>5
      <3>2. id \notin nonfinite /\ generated_shocks[id] = SeedWords(seed, id)
        BY <1>2, <1>3, <3>1 DEF SlotInv
      <3> QED
        BY <1>7, <2>3, <2>5, <3>2
    <2> QED
      BY <2>4, <2>5
  <1> QED
    BY <1>2, <1>8, <1>9, <1>10 DEF IInv

\* A worker that ends, at the end of its range or with an exception.
LEMMA EndStep ==
    ASSUME IInv, NEW w \in Workers,
           FinishRange(w) \/ \E e \in Caught : GenerateFails(w, e)
    PROVE  IInv'
  <1> USE DEF request, caller, counts
  <1>1. WorkerStep(w)
    BY DEF WorkerStep
  <1>2. /\ UNCHANGED <<request, caller, counts>>
        /\ Workers' = Workers /\ Slots' = Slots /\ Maps' = Maps
        /\ \A v : Begin(v)' = Begin(v) /\ End(v)' = End(v)
        /\ main \in {"spawn", "join"} /\ worker[w] = "running"
        /\ PhaseInv' /\ Request'
    BY <1>1, WorkerStepFrame
  <1>3. TypeOK /\ \A v \in Workers : WorkerInv(v) /\ SlotInv(v)
    BY DEF IInv
  <1>4. /\ UNCHANGED <<next, generated_shocks>>
        /\ worker' = [worker EXCEPT ![w] = "finished"]
    BY DEF FinishRange, GenerateFails, buffers
  <1>5. \/ UNCHANGED worker_exceptions /\ next[w] = End(w)
        \/ /\ \E e \in Caught :
                 /\ worker_exceptions' = [worker_exceptions EXCEPT ![w] = e]
                 /\ e = "overflow_error" => next[w] \in nonfinite
           /\ next[w] < End(w)
    BY DEF FinishRange, GenerateFails, buffers
  <1>6. worker_exceptions' \in [Workers -> Caught \cup {"none"}]
    BY <1>3, <1>5 DEF TypeOK
  <1>7. TypeOK'
    BY <1>2, <1>3, <1>4, <1>6 DEF TypeOK
  <1>8. ASSUME NEW v \in Workers
        PROVE  WorkerInv(v)'
    <2>1. CASE v = w
      <3>1. worker'[w] = "finished" /\ WorkerInv(w)
        BY <1>3, <1>4 DEF TypeOK
      <3>2. worker_exceptions'[w] = "none" => next[w] = End(w)
        BY <1>3, <1>5 DEF TypeOK, Caught
      <3>3. worker_exceptions'[w] # "none" =>
              /\ next[w] < End(w)
              /\ worker_exceptions'[w] = "overflow_error" => next[w] \in nonfinite
        BY <1>2, <1>3, <1>5 DEF TypeOK, WorkerInv
      <3> QED
        BY <1>2, <1>4, <2>1, <3>1, <3>2, <3>3 DEF WorkerInv
    <2>2. CASE v # w
      <3>1. worker'[v] = worker[v] /\ worker_exceptions'[v] = worker_exceptions[v]
        BY <1>3, <1>4, <1>5, <2>2 DEF TypeOK
      <3> QED
        BY <1>2, <1>3, <1>4, <3>1 DEF WorkerInv
    <2> QED
      BY <2>1, <2>2
  <1>9. ASSUME NEW v \in Workers
        PROVE  SlotInv(v)'
    BY <1>2, <1>3, <1>4 DEF SlotInv
  <1> QED
    BY <1>2, <1>7, <1>8, <1>9 DEF IInv

LEMMA JoinStep ==
    ASSUME IInv, Join
    PROVE  IInv'
  <1> USE DEF request, caller, threads, buffers
  <1>1. /\ UNCHANGED <<request, caller, threads, buffers, worker_count, spawned>>
        /\ joined' = joined + 1 /\ joined < spawned
        /\ worker[joined] = "finished" /\ main = "join"
    BY DEF Join
  <1>2. /\ Workers' = Workers /\ Slots' = Slots /\ Maps' = Maps
        /\ \A v : Begin(v)' = Begin(v) /\ End(v)' = End(v)
    BY <1>1 DEF Workers, Slots, Maps, Begin, End
  <1>3. TypeOK /\ PhaseInv /\ \A v \in Workers : WorkerInv(v) /\ SlotInv(v)
    BY DEF IInv
  <1>4. spawned \in Nat /\ joined \in Nat
    <2>1. worker_count \in Nat
      BY <1>3, RequestAssumption
         DEF TypeOK, Request, WorkerCount, Lesser
    <2> QED
      BY <1>3, <2>1 DEF TypeOK
  <1>5. TypeOK'
    <2>1. joined' \in 0 .. spawned'
      BY <1>1, <1>4
    <2> QED
      BY <1>1, <1>2, <1>3, <2>1 DEF TypeOK, Request
  <1>6. PhaseInv'
    BY <1>1, <1>3 DEF PhaseInv
  <1>7. ASSUME NEW v \in Workers
        PROVE  WorkerInv(v)' /\ SlotInv(v)'
    <2>1. WorkerInv(v)'
      <3>1. v < joined' => v < joined \/ v = joined
        BY <1>1, <1>4 DEF Workers
      <3> QED
        BY <1>1, <1>2, <1>3, <3>1 DEF WorkerInv
    <2>2. SlotInv(v)'
      BY <1>1, <1>2, <1>3 DEF SlotInv
    <2> QED
      BY <2>1, <2>2
  <1> QED
    BY <1>2, <1>5, <1>6, <1>7 DEF IInv

LEMMA AssembleStep ==
    ASSUME IInv, Assemble \/ AssembleFails
    PROVE  IInv'
  <1> USE DEF request, threads, counts
  <1>1. /\ UNCHANGED <<request, threads, worker_exceptions, counts>>
        /\ main = "rethrow" /\ main' = "exit"
        /\ thrown' \in Thrown \cup {"none"}
    BY DEF Assemble, AssembleFails, Leave, Thrown, Caught, IInv, TypeOK
  <1>2. /\ Workers' = Workers /\ Slots' = Slots /\ Maps' = Maps
        /\ \A v : Begin(v)' = Begin(v) /\ End(v)' = End(v)
    BY <1>1 DEF Workers, Slots, Maps, Begin, End
  <1>3. TypeOK /\ PhaseInv /\ \A v \in Workers : WorkerInv(v) /\ SlotInv(v)
    BY DEF IInv
  <1>4. Slots = Ids(scenario_count)
    BY <1>1, <1>3, RequestAssumption
       DEF Slots, PhaseInv, TypeOK, Request, WorkerCount, Lesser
  <1>5. TypeOK'
    <2>1. generated_shocks' \in [Slots' -> Maps']
      BY <1>2, <1>3, <1>4 DEF Assemble, AssembleFails, TypeOK, Maps
    <2> QED
      BY <1>1, <1>2, <1>3, <2>1 DEF TypeOK, Request
  <1>6. PhaseInv'
    BY <1>1, <1>3 DEF PhaseInv
  <1>7. ASSUME NEW v \in Workers
        PROVE  WorkerInv(v)' /\ SlotInv(v)'
    BY <1>1, <1>2, <1>3 DEF WorkerInv, SlotInv
  <1> QED
    BY <1>2, <1>5, <1>6, <1>7 DEF IInv

LEMMA NextInvariant ==
    ASSUME IInv, [Next]_vars
    PROVE  IInv'
  <1>1. CASE Next
    <2>1. ASSUME NEW w \in Workers, WorkerStep(w)
          PROVE  IInv'
      BY <2>1, GenerateStep, EndStep DEF WorkerStep
    <2> QED
      BY <1>1, <2>1, CallerSteps, AllocateStep, SpawnStep, JoinStep,
         AssembleStep DEF Next, CallerStep
  <1>2. CASE UNCHANGED vars
    BY <1>2 DEF vars, request, caller, threads, buffers, counts, IInv, TypeOK,
                Request, PhaseInv, WorkerInv, SlotInv, Workers, Slots, Maps,
                Begin, End
  <1> QED
    BY <1>1, <1>2

\* IInv holds in every state of every call.
THEOREM Invariance == Spec => []IInv
  <1>1. Init => IInv
    BY InitInvariant
  <1>2. IInv /\ [Next]_vars => IInv'
    BY NextInvariant
  <1> QED
    BY <1>1, <1>2, PTL DEF Spec

\* Every variable keeps its type and every worker stays in its range.
THEOREM TypeCorrect == Spec => []TypeOK
  <1>1. IInv => TypeOK
    BY DEF IInv
  <1> QED
    BY <1>1, Invariance, PTL

LEMMA BuffersFollow == IInv => BuffersOutliveWorkers
  <1> SUFFICES ASSUME IInv, NEW w \in Workers, worker[w] = "running"
               PROVE  main \in {"spawn", "join"}
    BY DEF BuffersOutliveWorkers
  <1>1. /\ TypeOK /\ PhaseInv /\ WorkerInv(w)
        /\ w \in Nat /\ w < worker_count /\ worker_count \in Nat
    BY WorkerRange DEF IInv, Workers
  <1>2. w < spawned /\ ~(w < joined)
    BY <1>1 DEF WorkerInv, TypeOK
  <1> QED
    BY <1>1, <1>2 DEF PhaseInv, TypeOK

\* No worker runs once the call has left the scope of its buffers, also when
\* a thread could not be started.
THEOREM BuffersSafe == Spec => []BuffersOutliveWorkers
  BY BuffersFollow, Invariance, PTL

LEMMA SlotsFollow == IInv => NoSlotRace
  <1> SUFFICES ASSUME IInv, NEW v \in Workers, NEW w \in Workers, v # w
               PROVE  Touched(v) \cap Touched(w) = {}
    BY DEF NoSlotRace
  <1>1. TypeOK
    BY DEF IInv
  <1>2. \A i \in Touched(v), j \in Touched(w) :
           /\ i \in Int /\ Begin(v) <= i /\ i < End(v)
           /\ j \in Int /\ Begin(w) <= j /\ j < End(w)
    BY <1>1, WorkerRange DEF Touched
  <1> QED
    BY <1>1, <1>2, SlotOwner

\* No slot of generated_shocks is written by two workers.
THEOREM SlotsRaceFree == Spec => []NoSlotRace
  BY SlotsFollow, Invariance, PTL

\* At the check of worker_exceptions, a worker without an exception has
\* generated its whole range.
LEMMA RangeGenerated ==
    ASSUME IInv, main = "rethrow",
           NEW v \in Workers, worker_exceptions[v] = "none",
           NEW id \in Int, Begin(v) <= id, id < End(v)
    PROVE  id \notin nonfinite /\ generated_shocks[id] = SeedWords(seed, id)
  <1>1. TypeOK /\ PhaseInv /\ WorkerInv(v) /\ SlotInv(v)
    BY DEF IInv
  <1>2. Begin(v) \in Nat /\ End(v) \in Nat /\ worker_count \in Nat /\ v < worker_count
    BY <1>1, WorkerRange DEF Workers
  <1>3. next[v] = End(v)
    BY <1>1, <1>2 DEF PhaseInv, WorkerInv
  <1> QED
    BY <1>1, <1>2, <1>3 DEF SlotInv

\* The worker an id belongs to.
LEMMA OwnerExists ==
    ASSUME IInv, main = "rethrow", NEW id \in Ids(scenario_count)
    PROVE  \E v \in Workers : Begin(v) <= id /\ id < End(v)
  <1>1. scenario_count \in Nat /\ worker_count \in 1 .. scenario_count
    BY RequestAssumption
       DEF IInv, TypeOK, Request, PhaseInv, WorkerCount, Lesser
  <1>2. PICK v \in 0 .. (worker_count - 1) :
             id \in RangeOf(scenario_count, worker_count, v)
    BY <1>1, RangesCover DEF Ids
  <1>3. Begin(v) \in Nat /\ End(v) \in Nat
    BY <1>2, WorkerRange DEF IInv, Workers
  <1> QED
    BY <1>2, <1>3 DEF RangeOf, Begin, End, Workers

LEMMA FailureFollows == IInv => FailureIsSequential
  <1> SUFFICES ASSUME IInv, main = "rethrow",
                      NEW w \in Failed, FirstFailed(w)
               PROVE  /\ \A id \in 0 .. (next[w] - 1) :
                            generated_shocks[id] = SeedWords(seed, id)
                      /\ worker_exceptions[w] = "overflow_error"
                            => next[w] \in nonfinite
    BY DEF FailureIsSequential
  <1>1. /\ w \in Workers /\ worker_exceptions[w] # "none"
        /\ TypeOK /\ WorkerInv(w) /\ SlotInv(w)
    BY DEF IInv, Failed
  <1>2. /\ next[w] \in Nat /\ next[w] < End(w)
        /\ Begin(w) \in Nat /\ End(w) \in Nat /\ End(w) <= scenario_count
        /\ scenario_count \in Nat /\ worker_count \in 1 .. scenario_count
    BY <1>1, WorkerRange DEF WorkerInv, TypeOK
  <1>3. ASSUME NEW id \in 0 .. (next[w] - 1)
        PROVE  generated_shocks[id] = SeedWords(seed, id)
    <2>1. id \in Ids(scenario_count)
      BY <1>2 DEF Ids
    <2>2. PICK v \in Workers : Begin(v) <= id /\ id < End(v)
      BY <2>1, OwnerExists
    <2>3. v \in Nat /\ w \in Nat /\ Begin(v) \in Nat
      BY <1>1, WorkerRange
    <2>4. CASE v = w
      BY <1>1, <1>2, <2>2, <2>4 DEF SlotInv
    <2>5. CASE v < w
      <3>1. worker_exceptions[v] = "none"
        BY <2>3, <2>5 DEF FirstFailed, Failed
      <3> QED
        BY <2>1, <2>2, <3>1, RangeGenerated DEF Ids
    <2>6. CASE w < v
      <3>1. End(w) = RangeBegin(scenario_count, worker_count, w + 1)
        <4>1. scenario_count \in Nat /\ worker_count \in Nat \ {0} /\ w \in Nat
          BY <1>2, <2>3
        <4>2. RangeEnd(scenario_count, worker_count, w)
                = RangeBegin(scenario_count, worker_count, w + 1)
          BY <4>1, RangesAdjacent
        <4> QED
          BY <4>2 DEF End
      <3>2. RangeBegin(scenario_count, worker_count, w + 1) <= Begin(v)
        <4>1. w + 1 \in Nat /\ w + 1 <= v /\ worker_count \in Nat \ {0}
          BY <1>2, <2>3, <2>6
        <4> QED
          BY <1>2, <2>3, <4>1, RangesOrdered DEF Begin
      <3> QED
        BY <1>2, <2>2, <2>3, <3>1, <3>2
    <2> QED
      BY <2>3, <2>4, <2>5, <2>6
  <1> QED
    BY <1>1, <1>3 DEF WorkerInv

\* The failure reported is the one a single thread would have met.
THEOREM SequentialFailure == Spec => []FailureIsSequential
  BY FailureFollows, Invariance, PTL

-----------------------------------------------------------------------------
(* The call implements GenerationContract.                                 *)

\* A step that ends the call with an exception ends the contract the same way.
LEMMA LeaveMaps ==
    ASSUME NEW e \in Thrown, Leave(e), UNCHANGED request, main # "exit"
    PROVE  Contract!Settle(Contract!Throw(e))
  <1>1. Outcome = Contract!Pending
    BY DEF Outcome, Contract!Pending
  <1>2. Outcome' = Contract!Throw(e)
    BY DEF Leave, Outcome, Thrown, Caught, Contract!Throw
  <1> QED
    BY <1>1, <1>2 DEF Contract!Settle, Contract!request, request

\* All scenarios are delivered, each with the shocks of its own stream, and
\* only when every one of them is finite.
LEMMA AssembleDelivers ==
    ASSUME IInv, Assemble
    PROVE  /\ nonfinite = {}
           /\ scenarios' =
                 [id \in Ids(scenario_count) |->
                    [scenario_id |-> id, price_shocks |-> SeedWords(seed, id)]]
  <1>1. main = "rethrow" /\ Failed = {}
    BY DEF Assemble
  <1>2. ASSUME NEW id \in Ids(scenario_count)
        PROVE  id \notin nonfinite /\ generated_shocks[id] = SeedWords(seed, id)
    <2>1. PICK v \in Workers : Begin(v) <= id /\ id < End(v)
      BY <1>1, OwnerExists
    <2>2. worker_exceptions[v] = "none"
      BY <1>1 DEF Failed
    <2> QED
      BY <1>1, <2>1, <2>2, RangeGenerated DEF Ids
  <1>3. nonfinite \subseteq Ids(scenario_count)
    BY DEF IInv, TypeOK, Request
  <1>4. \A id \in Ids(scenario_count) :
           [scenario_id |-> id, price_shocks |-> generated_shocks[id]]
             = [scenario_id |-> id, price_shocks |-> SeedWords(seed, id)]
    BY <1>2
  <1>5. scenarios' =
           [id \in Ids(scenario_count) |->
              [scenario_id |-> id, price_shocks |-> generated_shocks[id]]]
    BY DEF Assemble
  <1>6. scenarios' =
           [id \in Ids(scenario_count) |->
              [scenario_id |-> id, price_shocks |-> SeedWords(seed, id)]]
    BY <1>4, <1>5, Zenon
  <1> QED
    BY <1>2, <1>3, <1>6

\* What it delivers is what the contract promises.
LEMMA AssembleMaps ==
    ASSUME IInv, Assemble
    PROVE  Contract!Deliver
  <1>1. /\ main = "rethrow" /\ main' = "exit" /\ thrown' = "none"
        /\ thread_count # 0 /\ UNCHANGED request
    BY RequestAssumption DEF Assemble, IInv, PhaseInv, TypeOK, Request
  <1>2. nonfinite = {}
    BY AssembleDelivers
  <1>3. Contract!Generated(scenario_count) =
           [id \in Ids(scenario_count) |->
              [scenario_id |-> id, price_shocks |-> SeedWords(seed, id)]]
    <2>1. \A id : Contract!SeedWords(seed, id) = SeedWords(seed, id)
      BY DEF Contract!SeedWords, Contract!LowWord, Contract!HighWord,
             SeedWords, LowWord, HighWord
    <2> QED
      BY <2>1 DEF Contract!Generated, Contract!Ids, Ids
  <1>4. scenarios' = Contract!Generated(scenario_count)
    BY <1>3, AssembleDelivers, Zenon
  <1>5. /\ Outcome = Contract!Pending
        /\ Outcome' = Contract!Return(Contract!Generated(scenario_count))
    BY <1>1, <1>4 DEF Outcome, Contract!Pending, Contract!Return
  <1> QED
    BY <1>1, <1>2, <1>5
       DEF Contract!Deliver, Contract!Settle, Contract!request, request

\* The exceptions of the workers are the ones the contract allows.
LEMMA RethrowMaps ==
    ASSUME IInv, Rethrow
    PROVE  Contract!ReportNonFinite \/ Contract!ReportMemory
  <1>1. PICK w \in Failed : FirstFailed(w) /\ Leave(worker_exceptions[w])
    BY DEF Rethrow
  <1>2. /\ main = "rethrow" /\ UNCHANGED request
        /\ thread_count # 0 /\ scenario_count # 0
    BY RequestAssumption DEF Rethrow, IInv, PhaseInv, TypeOK, Request
  <1>3. /\ worker_exceptions[w] \in Caught
        /\ worker_exceptions[w] = "overflow_error" => nonfinite # {}
    BY DEF IInv, TypeOK, WorkerInv, Failed
  <1>4. Contract!Settle(Contract!Throw(worker_exceptions[w]))
    BY <1>1, <1>2, <1>3, LeaveMaps DEF Thrown
  <1> QED
    BY <1>2, <1>3, <1>4
       DEF Caught, Contract!ReportNonFinite, Contract!ReportMemory

\* Every other step is a step of the contract or changes nothing it shows.
LEMMA StepMaps ==
    ASSUME IInv, [Next]_vars
    PROVE  [Contract!Next]_(Contract!contract_vars)
  <1> USE DEF Contract!Next
  <1>0. TypeOK /\ PhaseInv
    BY DEF IInv
  <1>1. CASE RejectThreadCount
    BY <1>1, LeaveMaps DEF RejectThreadCount, Thrown, Contract!RejectThreadCount
  <1>2. CASE ReturnEmpty
    <2>1. nonfinite = {}
      BY <1>0, <1>2 DEF ReturnEmpty, TypeOK, Request, Ids
    <2>2. scenarios' = Contract!Generated(scenario_count)
      <3>1. scenarios' = <<>> /\ Contract!Ids(scenario_count) = {}
        BY <1>0, <1>2 DEF ReturnEmpty, Leave, PhaseInv, Contract!Ids
      <3> QED
        BY <3>1 DEF Contract!Generated
    <2>3. /\ Outcome = Contract!Pending
          /\ Outcome' = Contract!Return(Contract!Generated(scenario_count))
      BY <1>2, <2>2
         DEF ReturnEmpty, Leave, Outcome, Contract!Pending, Contract!Return
    <2> QED
      BY <1>2, <2>1, <2>3
         DEF ReturnEmpty, Contract!Deliver, Contract!Settle, Contract!request,
             request
  <1>3. CASE AllocateFails
    BY <1>3, LeaveMaps DEF AllocateFails, Thrown, Caught, Contract!ReportMemory
  <1>4. CASE Rethrow
    BY <1>4, RethrowMaps
  <1>5. CASE Assemble
    BY <1>5, AssembleMaps
  <1>6. CASE AssembleFails
    <2>1. thread_count # 0 /\ scenario_count # 0
      BY <1>0, <1>6, RequestAssumption
         DEF AssembleFails, PhaseInv, TypeOK, Request
    <2> QED
      BY <1>6, <2>1, LeaveMaps
         DEF AssembleFails, Thrown, Caught, Contract!ReportMemory
  <1>7. CASE LeaveWorkers /\ thrown # "none"
    <2>1. /\ thrown \in {"system_error", "bad_alloc"} /\ thrown' = thrown
          /\ main = "join" /\ main' = "exit" /\ UNCHANGED request
          /\ worker_count > 1
      BY <1>0, <1>7 DEF LeaveWorkers, PhaseInv
    <2>2. thread_count > 1 /\ scenario_count > 1
      BY <1>0, <2>1, RequestAssumption
         DEF PhaseInv, TypeOK, Request, WorkerCount, Lesser
    <2>3. Contract!Settle(Contract!Throw(thrown))
      BY <2>1 DEF Contract!Settle, Contract!Throw, Contract!Pending,
                  Contract!request, request, Outcome
    <2> QED
      BY <2>1, <2>2, <2>3, RequestAssumption
         DEF Contract!ReportMemory, Contract!ReportThreads, TypeOK, Request
  <1>8. CASE \/ Allocate \/ Spawn \/ SpawnFails \/ Join
             \/ LeaveWorkers /\ thrown = "none"
    <2>1. main # "exit" /\ main' # "exit" /\ UNCHANGED request
      BY <1>8 DEF Allocate, Spawn, SpawnFails, Join, LeaveWorkers, caller
    <2> QED
      BY <2>1 DEF Outcome, Contract!contract_vars, request
  <1>9. CASE (\E w \in Workers : WorkerStep(w)) \/ UNCHANGED vars
    <2>1. UNCHANGED <<request, caller>>
      BY <1>9 DEF WorkerStep, Generate, GenerateFails, FinishRange, vars
    <2> QED
      BY <2>1 DEF Outcome, Contract!contract_vars, request, caller
  <1> QED
    BY <1>1, <1>2, <1>3, <1>4, <1>5, <1>6, <1>7, <1>8, <1>9 DEF Next, CallerStep

\* Whatever the threads do and whatever fails, the call delivers exactly the
\* scenarios of the request, or an exception the contract allows.
THEOREM ContractSafety == Spec => Contract!Safety
  <1>1. Init => Contract!Init
    BY DEF Init, Request, Ids, Outcome, Contract!Init, Contract!Request,
           Contract!Ids, Contract!Pending
  <1>2. IInv /\ [Next]_vars => [Contract!Next]_(Contract!contract_vars)
    BY StepMaps
  <1> QED
    BY <1>1, <1>2, Invariance, PTL DEF Spec, Contract!Safety

-----------------------------------------------------------------------------
(* One call of generate: no step is taken twice.                           *)

\* The counts of a call are numbers.
LEMMA CountsType ==
    ASSUME IInv
    PROVE  /\ worker_count \in Nat /\ spawned \in Nat /\ joined \in Nat
           /\ joined <= spawned /\ spawned <= worker_count
  <1>1. worker_count \in Nat
    BY RequestAssumption DEF IInv, TypeOK, Request, WorkerCount, Lesser
  <1> QED
    BY <1>1 DEF IInv, TypeOK

\* The workers the call has, or is to have once its buffers are allocated.
AllWorkers == WorkerCount(scenario_count, thread_count)

\* The parts of StepsLeft.
ToGenerate == Ids(scenario_count) \ Passed
ToStart    == spawned .. (AllWorkers - 1)
ToEnd      == {w \in Ids(AllWorkers) : w \in Workers => worker[w] # "finished"}
ToJoin     == joined .. (AllWorkers - 1)

\* What StepsLeft consists of.
ConsistsOfParts ==
    /\ \A s : s \in StepsLeft <=>
                 \/ \E x \in Ahead[main] : s = <<"advance", x>>
                 \/ \E x \in ToGenerate : s = <<"generate", x>>
                 \/ \E x \in ToStart : s = <<"start", x>>
                 \/ \E x \in ToEnd : s = <<"end", x>>
                 \/ \E x \in ToJoin : s = <<"join", x>>
    /\ \A x : /\ <<"advance", x>> \in StepsLeft <=> x \in Ahead[main]
              /\ <<"generate", x>> \in StepsLeft <=> x \in ToGenerate
              /\ <<"start", x>> \in StepsLeft <=> x \in ToStart
              /\ <<"end", x>> \in StepsLeft <=> x \in ToEnd
              /\ <<"join", x>> \in StepsLeft <=> x \in ToJoin

LEMMA StepsOfParts == ConsistsOfParts
  <1> DEFINE A == Ahead[main]
  <1>1. StepsLeft = ({"advance"} \X A) \cup ({"generate"} \X ToGenerate)
                    \cup ({"start"} \X ToStart) \cup ({"end"} \X ToEnd)
                    \cup ({"join"} \X ToJoin)
    BY DEF StepsLeft, ToGenerate, ToStart, ToEnd, ToJoin, AllWorkers
  <1> HIDE DEF A
  <1>2. \A s : s \in StepsLeft <=>
                 \/ \E x \in A : s = <<"advance", x>>
                 \/ \E x \in ToGenerate : s = <<"generate", x>>
                 \/ \E x \in ToStart : s = <<"start", x>>
                 \/ \E x \in ToEnd : s = <<"end", x>>
                 \/ \E x \in ToJoin : s = <<"join", x>>
    BY <1>1
  <1>3. \A x : /\ <<"advance", x>> \in StepsLeft <=> x \in A
               /\ <<"generate", x>> \in StepsLeft <=> x \in ToGenerate
               /\ <<"start", x>> \in StepsLeft <=> x \in ToStart
               /\ <<"end", x>> \in StepsLeft <=> x \in ToEnd
               /\ <<"join", x>> \in StepsLeft <=> x \in ToJoin
    BY <1>2
  <1> QED
    BY <1>2, <1>3 DEF A, ConsistsOfParts

LEMMA NextStepsOfParts == ConsistsOfParts'
  BY StepsOfParts, PTL

\* What a step takes off one list without adding to another comes off all of them.
LEMMA StepsShrink ==
    ASSUME Ahead[main]' \subseteq Ahead[main], ToGenerate' \subseteq ToGenerate,
           ToStart' \subseteq ToStart, ToEnd' \subseteq ToEnd, ToJoin' \subseteq ToJoin,
           \/ Ahead[main]' # Ahead[main] \/ ToGenerate' # ToGenerate
           \/ ToStart' # ToStart \/ ToEnd' # ToEnd \/ ToJoin' # ToJoin
    PROVE  StepsLeft' \subseteq StepsLeft /\ StepsLeft' # StepsLeft
  <1>1. StepsLeft' \subseteq StepsLeft
    BY StepsOfParts, NextStepsOfParts DEF ConsistsOfParts
  <1>2. ASSUME StepsLeft' = StepsLeft
        PROVE  /\ Ahead[main]' = Ahead[main] /\ ToGenerate' = ToGenerate
               /\ ToStart' = ToStart /\ ToEnd' = ToEnd /\ ToJoin' = ToJoin
    BY <1>2, StepsOfParts, NextStepsOfParts DEF ConsistsOfParts
  <1> QED
    BY <1>1, <1>2

\* The calling thread never goes back.
LEMMA AdvanceCounts ==
    ASSUME UNCHANGED <<request, threads, worker_count, spawned, joined>>,
           main' \in Ahead[main], main \in DOMAIN Ahead
    PROVE  StepsLeft' \subseteq StepsLeft /\ StepsLeft' # StepsLeft
  <1>1. /\ ToGenerate' = ToGenerate /\ ToStart' = ToStart
        /\ ToEnd' = ToEnd /\ ToJoin' = ToJoin
    BY DEF request, threads, ToGenerate, ToStart, ToEnd, ToJoin, AllWorkers,
           Passed, Workers, Begin
  <1>2. Ahead[main]' \subseteq Ahead[main] /\ Ahead[main]' # Ahead[main]
    BY DEF Ahead
  <1> QED
    BY <1>1, <1>2, StepsShrink

LEMMA CallerCounts ==
    ASSUME IInv,
           \/ RejectThreadCount \/ ReturnEmpty \/ AllocateFails \/ SpawnFails
           \/ LeaveWorkers \/ Rethrow \/ Assemble \/ AssembleFails
    PROVE  StepsLeft' \subseteq StepsLeft /\ StepsLeft' # StepsLeft
  <1>1. UNCHANGED <<request, threads, worker_count, spawned, joined>>
    BY DEF RejectThreadCount, ReturnEmpty, AllocateFails, SpawnFails, LeaveWorkers,
           Rethrow, Assemble, AssembleFails, counts
  <1>2. main' \in Ahead[main] /\ main \in DOMAIN Ahead
    BY DEF RejectThreadCount, ReturnEmpty, AllocateFails, SpawnFails, LeaveWorkers,
           Rethrow, Assemble, AssembleFails, Leave, Ahead
  <1> QED
    BY <1>1, <1>2, AdvanceCounts

\* The workers that Allocate provides for have everything before them.
LEMMA AllocateCounts ==
    ASSUME IInv, Allocate
    PROVE  StepsLeft' \subseteq StepsLeft /\ StepsLeft' # StepsLeft
  <1>1. /\ UNCHANGED <<request, spawned, joined>> /\ main = "entry" /\ main' = "spawn"
        /\ worker_count = 0 /\ worker_count' = AllWorkers /\ AllWorkers' = AllWorkers
    BY DEF Allocate, IInv, PhaseInv, AllWorkers, request
  <1>2. Ahead[main]' \subseteq Ahead[main] /\ Ahead[main]' # Ahead[main]
    BY <1>1 DEF Ahead
  <1>3. ToStart' = ToStart /\ ToJoin' = ToJoin
    BY <1>1 DEF ToStart, ToJoin
  <1>4. ToEnd' \subseteq ToEnd
    <2>1. Workers = {}
      BY <1>1 DEF Workers
    <2> QED
      BY <1>1, <2>1 DEF ToEnd, Ids
  <1>5. ToGenerate' \subseteq ToGenerate
    <2>1. Workers = {}
      BY <1>1 DEF Workers
    <2>2. Passed = {}
      BY <2>1 DEF Passed
    <2> QED
      BY <1>1, <2>2 DEF ToGenerate, Ids, request
  <1> QED
    BY <1>2, <1>3, <1>4, <1>5, StepsShrink

LEMMA SpawnCounts ==
    ASSUME IInv, Spawn
    PROVE  StepsLeft' \subseteq StepsLeft /\ StepsLeft' # StepsLeft
  <1>1. /\ UNCHANGED <<request, next, worker_count, joined>> /\ main = "spawn"
        /\ main' \in {"spawn", "join"} /\ spawned' = spawned + 1
        /\ worker' = [worker EXCEPT ![spawned] = "running"]
    BY DEF Spawn
  <1>2. /\ spawned \in Nat /\ worker_count \in Nat /\ spawned < worker_count
        /\ worker_count = AllWorkers /\ spawned \in Workers
    BY <1>1, CountsType DEF IInv, PhaseInv, AllWorkers, Workers
  <1>3. AllWorkers' = AllWorkers /\ Workers' = Workers /\ Passed' = Passed
    BY <1>1 DEF AllWorkers, Workers, Passed, Begin, request
  <1>4. Ahead[main]' \subseteq Ahead[main]
    BY <1>1 DEF Ahead
  <1>5. ToGenerate' = ToGenerate /\ ToJoin' = ToJoin
    BY <1>1, <1>3 DEF ToGenerate, ToJoin, Ids, request
  <1>6. ToStart' \subseteq ToStart /\ spawned \in ToStart /\ spawned \notin ToStart'
    BY <1>1, <1>2, <1>3 DEF ToStart
  <1>7. ToEnd' \subseteq ToEnd
    <2>1. worker[spawned] = "unborn"
      BY <1>2 DEF IInv, WorkerInv
    <2>2. \A w \in Workers : worker'[w] # "finished" => worker[w] # "finished"
      BY <1>1, <1>2, <2>1 DEF IInv, TypeOK
    <2> QED
      BY <1>3, <2>2 DEF ToEnd, Ids
  <1> QED
    BY <1>4, <1>5, <1>6, <1>7, StepsShrink

LEMMA JoinCounts ==
    ASSUME IInv, Join
    PROVE  StepsLeft' \subseteq StepsLeft /\ StepsLeft' # StepsLeft
  <1>1. /\ UNCHANGED <<request, caller, threads, worker_count, spawned>>
        /\ joined' = joined + 1 /\ joined < spawned /\ main = "join"
    BY DEF Join
  <1>2. /\ spawned \in Nat /\ joined \in Nat /\ spawned <= worker_count
        /\ worker_count = AllWorkers /\ worker_count \in Nat
    BY <1>1, CountsType DEF IInv, PhaseInv, AllWorkers
  <1>3. /\ AllWorkers' = AllWorkers /\ Ahead[main]' = Ahead[main]
        /\ ToGenerate' = ToGenerate /\ ToStart' = ToStart /\ ToEnd' = ToEnd
    BY <1>1 DEF request, caller, threads, ToGenerate, ToStart, ToEnd, AllWorkers,
                Passed, Workers, Begin, Ahead
  <1>4. ToJoin' \subseteq ToJoin /\ joined \in ToJoin /\ joined \notin ToJoin'
    BY <1>1, <1>2, <1>3 DEF ToJoin
  <1> QED
    BY <1>3, <1>4, StepsShrink

\* The id a worker passes is one that no worker has passed.
LEMMA GenerateCounts ==
    ASSUME IInv, NEW w \in Workers, Generate(w)
    PROVE  StepsLeft' \subseteq StepsLeft /\ StepsLeft' # StepsLeft
  <1>1. WorkerStep(w) /\ TypeOK
    BY DEF WorkerStep, IInv
  <1>2. /\ UNCHANGED <<request, caller, counts>> /\ Workers' = Workers
        /\ \A v : Begin(v)' = Begin(v)
    BY <1>1, WorkerStepFrame
  <1>3. /\ UNCHANGED worker /\ next' = [next EXCEPT ![w] = next[w] + 1]
        /\ next[w] < End(w) /\ next[w] \in Begin(w) .. End(w)
        /\ Begin(w) \in Nat /\ End(w) \in Nat /\ End(w) <= scenario_count
        /\ scenario_count \in Nat
    BY <1>1, WorkerRange DEF Generate
  <1>4. \A v \in Workers : next'[v] = IF v = w THEN next[w] + 1 ELSE next[v]
    BY <1>1, <1>3 DEF TypeOK
  <1>5. \A v \in Workers : /\ Begin(v) \in Nat /\ next[v] \in Nat /\ next[v] <= End(v)
                           /\ End(v) \in Nat
    BY <1>1, WorkerRange
  <1>6. Passed \subseteq Passed'
    <2> SUFFICES ASSUME NEW v \in Workers, NEW id \in Begin(v) .. (next[v] - 1)
                 PROVE  id \in Begin(v) .. (next'[v] - 1)
      BY <1>2 DEF Passed
    <2> QED
      BY <1>4, <1>5
  <1>7. next[w] \in Passed'
    <2>1. next[w] \in Begin(w) .. (next'[w] - 1)
      BY <1>3, <1>4
    <2> QED
      BY <1>2, <2>1 DEF Passed
  <1>8. next[w] \notin Passed
    <2> SUFFICES ASSUME NEW v \in Workers, next[w] \in Begin(v) .. (next[v] - 1)
                 PROVE  FALSE
      BY DEF Passed
    <2>1. v # w
      BY <1>3, <1>5
    <2>2. next[w] \in Int /\ Begin(v) <= next[w] /\ next[w] < End(v) /\ Begin(w) <= next[w]
      BY <1>3, <1>5
    <2> QED
      BY <1>1, <1>3, <2>1, <2>2, SlotOwner
  <1>9. next[w] \in Ids(scenario_count)
    BY <1>3 DEF Ids
  <1>10. ToGenerate' \subseteq ToGenerate /\ ToGenerate' # ToGenerate
    BY <1>2, <1>6, <1>7, <1>8, <1>9 DEF ToGenerate, Ids, request
  <1>11. /\ Ahead[main]' = Ahead[main] /\ ToStart' = ToStart
         /\ ToEnd' = ToEnd /\ ToJoin' = ToJoin
    BY <1>2, <1>3 DEF request, caller, counts, ToStart, ToEnd, ToJoin, AllWorkers, Ahead
  <1> QED
    BY <1>10, <1>11, StepsShrink

LEMMA EndCounts ==
    ASSUME IInv, NEW w \in Workers,
           FinishRange(w) \/ \E e \in Caught : GenerateFails(w, e)
    PROVE  StepsLeft' \subseteq StepsLeft /\ StepsLeft' # StepsLeft
  <1>1. WorkerStep(w) /\ TypeOK
    BY DEF WorkerStep, IInv
  <1>2. /\ UNCHANGED <<request, caller, counts>> /\ Workers' = Workers
        /\ \A v : Begin(v)' = Begin(v)
    BY <1>1, WorkerStepFrame
  <1>3. /\ UNCHANGED next /\ worker[w] = "running"
        /\ worker' = [worker EXCEPT ![w] = "finished"]
    BY DEF FinishRange, GenerateFails
  <1>4. \A v \in Workers : worker'[v] = IF v = w THEN "finished" ELSE worker[v]
    BY <1>1, <1>3 DEF TypeOK
  <1>5. w \in ToEnd /\ w \notin ToEnd' /\ ToEnd' \subseteq ToEnd
    <2>1. w \in Ids(AllWorkers) /\ AllWorkers' = AllWorkers
      <3>1. worker_count # 0
        BY DEF Workers
      <3>2. worker_count = AllWorkers
        BY <1>1, <3>1 DEF TypeOK, AllWorkers
      <3> QED
        BY <1>2, <3>2 DEF Workers, Ids, AllWorkers, request
    <2> QED
      BY <1>2, <1>3, <1>4, <2>1 DEF ToEnd, Ids
  <1>6. Passed' = Passed
    BY <1>2, <1>3 DEF Passed
  <1>7. /\ Ahead[main]' = Ahead[main] /\ ToGenerate' = ToGenerate
        /\ ToStart' = ToStart /\ ToJoin' = ToJoin
    BY <1>2, <1>6 DEF request, caller, counts, ToGenerate, ToStart, ToJoin,
                      AllWorkers, Ahead, Ids
  <1> QED
    BY <1>5, <1>7, StepsShrink

\* Every step of a call is one the call had not taken before.
THEOREM StepsCount == Spec => NoStepRepeats
  <1>1. ASSUME IInv, Next
        PROVE  StepsLeft' \subseteq StepsLeft /\ StepsLeft' # StepsLeft
    <2>1. CASE CallerStep
      BY <1>1, <2>1, CallerCounts, AllocateCounts, SpawnCounts, JoinCounts
         DEF CallerStep
    <2>2. ASSUME NEW w \in Workers, WorkerStep(w)
          PROVE  StepsLeft' \subseteq StepsLeft /\ StepsLeft' # StepsLeft
      BY <1>1, <2>2, GenerateCounts, EndCounts DEF WorkerStep
    <2> QED
      BY <1>1, <2>1, <2>2 DEF Next
  <1>2. IInv /\ [Next]_vars =>
            [StepsLeft' \subseteq StepsLeft /\ StepsLeft' # StepsLeft]_vars
    BY <1>1
  <1> QED
    BY <1>2, Invariance, PTL DEF Spec, NoStepRepeats

\* A set has at most n elements.
AtMost(S, n) == IsFiniteSet(S) /\ Cardinality(S) <= n

LEMMA AtMostUnion ==
    ASSUME NEW S, NEW T, NEW m \in Nat, NEW n \in Nat, AtMost(S, m), AtMost(T, n)
    PROVE  AtMost(S \cup T, m + n)
  <1>1. Cardinality(S) \in Nat /\ Cardinality(T) \in Nat
    BY FS_CardinalityType DEF AtMost
  <1>2. IsFiniteSet(S \cap T)
    BY FS_Subset DEF AtMost
  <1>3. Cardinality(S \cap T) \in Nat
    BY <1>2, FS_CardinalityType
  <1> QED
    BY <1>1, <1>3, FS_Union DEF AtMost

LEMMA AtMostTagged ==
    ASSUME NEW S, NEW T, NEW n \in Nat, NEW tag, AtMost(S, n), T \subseteq S
    PROVE  AtMost({tag} \X T, n)
  <1>1. AtMost(T, n) /\ Cardinality(T) \in Nat
    <2>1. IsFiniteSet(T) /\ Cardinality(T) <= Cardinality(S)
      BY FS_Subset DEF AtMost
    <2>2. Cardinality(T) \in Nat /\ Cardinality(S) \in Nat
      BY <2>1, FS_CardinalityType DEF AtMost
    <2> QED
      BY <2>1, <2>2 DEF AtMost
  <1>2. IsFiniteSet({tag}) /\ Cardinality({tag}) = 1
    BY FS_Singleton
  <1>3. /\ IsFiniteSet({tag} \X T)
        /\ Cardinality({tag} \X T) = Cardinality({tag}) * Cardinality(T)
    <2>1. IsFiniteSet(T)
      BY <1>1 DEF AtMost
    <2> HIDE DEF AtMost
    <2> QED
      BY <1>2, <2>1, FS_Product
  <1>4. Cardinality({tag} \X T) = Cardinality(T)
    BY <1>1, <1>2, <1>3
  <1> QED
    BY <1>1, <1>3, <1>4 DEF AtMost

LEMMA StepsAtMost ==
    ASSUME IInv
    PROVE  AtMost(StepsLeft, 4 + scenario_count + 3 * AllWorkers)
  <1>1. /\ scenario_count \in Nat /\ AllWorkers \in Nat
        /\ spawned \in Nat /\ joined \in Nat /\ main \in DOMAIN Ahead
    BY CountsType, RequestAssumption
       DEF IInv, TypeOK, Request, AllWorkers, WorkerCount, Lesser, Ahead
  <1>2. AtMost({"spawn", "join", "rethrow", "exit"}, 4)
    <2> DEFINE two   == {"spawn"} \cup {"join"}
               three == two \cup {"rethrow"}
    <2>1. ASSUME NEW x PROVE AtMost({x}, 1)
      <3>1. IsFiniteSet({x}) /\ Cardinality({x}) = 1
        BY FS_Singleton
      <3> QED
        BY <3>1 DEF AtMost
    <2>2. AtMost(two, 1 + 1)
      BY <2>1, AtMostUnion
    <2> HIDE DEF two
    <2>3. AtMost(three, 2 + 1)
      <3>1. AtMost(two, 2)
        BY <2>2, 1 + 1 = 2
      <3>2. AtMost({"rethrow"}, 1)
        BY <2>1
      <3> QED
        BY <3>1, <3>2, AtMostUnion
    <2> HIDE DEF three
    <2>4. AtMost(three \cup {"exit"}, 3 + 1)
      <3>1. AtMost(three, 3) /\ AtMost({"exit"}, 1)
        BY <2>1, <2>3
      <3> QED
        BY <3>1, AtMostUnion
    <2>5. three \cup {"exit"} = {"spawn", "join", "rethrow", "exit"}
      BY DEF three, two
    <2> QED
      BY <2>4, <2>5
  <1>3. ASSUME NEW n \in Nat PROVE AtMost(Ids(n), n)
    <2>1. n - 1 \in Int /\ 0 \in Int /\ (IF 0 > n - 1 THEN 0 ELSE (n - 1) - 0 + 1) = n
      OBVIOUS
    <2>2. IsFiniteSet(0 .. (n - 1)) /\ Cardinality(0 .. (n - 1)) = n
      BY <2>1, FS_Interval
    <2> QED
      BY <2>2 DEF AtMost, Ids
  <1> DEFINE A == {"advance"} \X Ahead[main]
             B == {"generate"} \X ToGenerate
             C == {"start"} \X ToStart
             D == {"end"} \X ToEnd
             E == {"join"} \X ToJoin
  <1>4. AtMost(A, 4)
    <2>1. Ahead[main] \subseteq {"spawn", "join", "rethrow", "exit"}
      BY <1>1 DEF Ahead
    <2> QED
      BY <1>2, <2>1, AtMostTagged
  <1>5. AtMost(B, scenario_count)
    <2>1. ToGenerate \subseteq Ids(scenario_count) /\ AtMost(Ids(scenario_count), scenario_count)
      BY <1>1, <1>3 DEF ToGenerate
    <2> QED
      BY <1>1, <2>1, AtMostTagged
  <1>6. AtMost(C, AllWorkers) /\ AtMost(D, AllWorkers) /\ AtMost(E, AllWorkers)
    <2>1. /\ ToStart \subseteq Ids(AllWorkers) /\ ToEnd \subseteq Ids(AllWorkers)
          /\ ToJoin \subseteq Ids(AllWorkers) /\ AtMost(Ids(AllWorkers), AllWorkers)
      BY <1>1, <1>3 DEF ToStart, ToEnd, ToJoin, Ids
    <2> QED
      BY <1>1, <2>1, AtMostTagged
  <1>7. StepsLeft = A \cup B \cup C \cup D \cup E
    BY DEF StepsLeft, ToGenerate, ToStart, ToEnd, ToJoin, AllWorkers
  <1> HIDE DEF A, B, C, D, E
  <1>8. AtMost(A \cup B, 4 + scenario_count)
    BY <1>1, <1>4, <1>5, AtMostUnion
  <1>9. AtMost((C \cup D) \cup E, (AllWorkers + AllWorkers) + AllWorkers)
    <2>1. AtMost(C \cup D, AllWorkers + AllWorkers)
      BY <1>1, <1>6, AtMostUnion
    <2> DEFINE cd == C \cup D
               m == AllWorkers + AllWorkers
    <2>2. AtMost(cd, m) /\ m \in Nat
      BY <1>1, <2>1
    <2> HIDE DEF cd, m
    <2>3. AtMost(cd \cup E, m + AllWorkers)
      BY <1>1, <1>6, <2>2, AtMostUnion
    <2> QED
      BY <2>3 DEF cd, m
  <1> DEFINE ab == A \cup B
             cde == (C \cup D) \cup E
             m == 4 + scenario_count
             n == (AllWorkers + AllWorkers) + AllWorkers
  <1>10. AtMost(ab, m) /\ AtMost(cde, n) /\ m \in Nat /\ n \in Nat
    BY <1>1, <1>8, <1>9
  <1>11. StepsLeft = ab \cup cde /\ m + n = 4 + scenario_count + 3 * AllWorkers
    BY <1>1, <1>7
  <1> HIDE DEF ab, cde, m, n
  <1>12. AtMost(ab \cup cde, m + n)
    BY <1>10, AtMostUnion
  <1> QED
    BY <1>11, <1>12

\* A call takes at most 4 + scenario_count + 3 * worker_count steps: so many are
\* left at its beginning, and every step leaves fewer.
THEOREM CallIsBounded ==
    Spec => /\ []AtMost(StepsLeft, 4 + scenario_count + 3 * AllWorkers)
            /\ [][/\ Cardinality(StepsLeft) \in Nat
                  /\ Cardinality(StepsLeft)' \in Nat
                  /\ Cardinality(StepsLeft)' < Cardinality(StepsLeft)]_vars
  <1>1. IInv => AtMost(StepsLeft, 4 + scenario_count + 3 * AllWorkers)
    BY StepsAtMost
  <1>2. IInv => IsFiniteSet(StepsLeft)
    BY StepsAtMost DEF AtMost
  <1>3. IInv' => (IsFiniteSet(StepsLeft))'
    BY <1>2, PTL
  <1>4. ASSUME IInv, IInv', StepsLeft' \subseteq StepsLeft /\ StepsLeft' # StepsLeft
        PROVE  /\ Cardinality(StepsLeft) \in Nat
               /\ Cardinality(StepsLeft)' \in Nat
               /\ Cardinality(StepsLeft)' < Cardinality(StepsLeft)
    <2>1. IsFiniteSet(StepsLeft) /\ IsFiniteSet(StepsLeft')
      BY <1>2, <1>3, <1>4
    <2>2. Cardinality(StepsLeft) \in Nat /\ Cardinality(StepsLeft') \in Nat
      BY <2>1, FS_CardinalityType
    <2>3. /\ Cardinality(StepsLeft') <= Cardinality(StepsLeft)
          /\ Cardinality(StepsLeft') # Cardinality(StepsLeft)
      BY <1>4, <2>1, FS_Subset
    <2> QED
      BY <2>2, <2>3
  <1>5. IInv /\ IInv' /\ [StepsLeft' \subseteq StepsLeft /\ StepsLeft' # StepsLeft]_vars
            => [/\ Cardinality(StepsLeft) \in Nat
                /\ Cardinality(StepsLeft)' \in Nat
                /\ Cardinality(StepsLeft)' < Cardinality(StepsLeft)]_vars
    BY <1>4
  <1> QED
    BY <1>1, <1>5, Invariance, StepsCount, PTL DEF NoStepRepeats

\* The guards of the steps: a caller that does not wait for a worker, the end of a
\* wait, an exception to rethrow or none, and an iteration or the end of a range.
StepIsPossible ==
    \/ main \in {"entry", "spawn"}
    \/ main = "join" /\ joined = spawned
    \/ main = "join" /\ joined < spawned /\ worker[joined] = "finished"
    \/ main = "rethrow" /\ (Failed = {} \/ \E w \in Failed : FirstFailed(w))
    \/ \E w \in Workers : worker[w] = "running" /\ next[w] \in Begin(w) .. End(w)

\* A call that has not ended never comes to a stop: the worker it waits for was
\* started and has not left its range, and of several failures one is the first.
THEOREM NobodyWaitsInVain == Spec => [](main # "exit" => StepIsPossible)
  <1>1. ASSUME IInv, main # "exit" PROVE StepIsPossible
    <2>1. /\ TypeOK /\ PhaseInv /\ worker_count \in Nat /\ spawned \in Nat
          /\ joined \in Nat /\ joined <= spawned /\ spawned <= worker_count
      BY <1>1, CountsType DEF IInv
    <2>2. CASE main \in {"entry", "spawn"}
      BY <2>2 DEF StepIsPossible
    <2>3. CASE main = "join"
      <3>1. CASE joined = spawned
        BY <2>3, <3>1 DEF StepIsPossible
      <3>2. CASE joined # spawned
        <4>1. joined < spawned /\ joined \in Workers
          BY <2>1, <3>2 DEF Workers
        <4>2. worker[joined] \in {"running", "finished"}
          BY <1>1, <2>1, <4>1 DEF IInv, TypeOK, WorkerInv
        <4>3. next[joined] \in Begin(joined) .. End(joined)
          BY <2>1, <4>1 DEF TypeOK
        <4> QED
          BY <2>3, <4>1, <4>2, <4>3 DEF StepIsPossible
      <3> QED
        BY <3>1, <3>2
    <2>4. CASE main = "rethrow"
      <3>1. ASSUME Failed # {} PROVE \E w \in Failed : FirstFailed(w)
        <4>1. Failed \subseteq Nat
          BY DEF Failed, Workers
        <4>2. \E w \in Failed : \A v \in Failed : w <= v
          BY <3>1, <4>1, LeastNat
        <4> QED
          BY <4>2 DEF FirstFailed
      <3> QED
        BY <2>4, <3>1 DEF StepIsPossible
    <2> QED
      BY <1>1, <2>1, <2>2, <2>3, <2>4 DEF TypeOK
  <1> QED
    BY <1>1, Invariance, PTL

-----------------------------------------------------------------------------
(* The process: threads.                                                   *)

\* No worker thread is left once all that were started have been joined.
LEMMA JoinedAll ==
    ASSUME IInv, joined = spawned
    PROVE  WorkerThreads = {}
  <1>1. joined .. (spawned - 1) = {}
    BY CountsType
  <1> QED
    BY <1>1 DEF WorkerThreads

\* The steps that leave the workers alone change no thread.
LEMMA ThreadsKept ==
    ASSUME UNCHANGED counts
    PROVE  Threads' = Threads /\ WorkerThreads' = WorkerThreads
  BY DEF counts, Threads, WorkerThreads, ThreadOf, MainThread

\* There are 64-bit values.
LEMMA WideBaseType == WideBase \in Nat \ {0}
  <1>1. WordBase * WordBase \in Nat \ {0}
    BY WordBaseAssumption
  <1> QED
    BY <1>1 DEF WideBase

\* A job seed is a 64-bit value.
LEMMA JobSeedType ==
    ASSUME NEW s \in Nat, NEW i \in Nat
    PROVE  JobSeed(s, i) \in 0 .. (WideBase - 1)
  <1>1. WideBase \in Nat \ {0}
    BY WideBaseType
  <1>2. s + i \in Nat
    OBVIOUS
  <1>3. (s + i) % WideBase \in Nat /\ (s + i) % WideBase < WideBase
    BY <1>1, <1>2, QuotientRemainder
  <1> QED
    BY <1>1, <1>3 DEF JobSeed

-----------------------------------------------------------------------------
(* The process: the call of generate, in the steps that are its own.       *)

\* The first state of a call is one that ScenarioGenerator starts in.
LEMMA CallBegins ==
    ASSUME ProcessInv, CallGenerate
    PROVE  IInv'
  <1>1. /\ scenario_count' = scenario_count /\ thread_count' = thread_count
        /\ scenario_count \in ScenarioCounts /\ thread_count \in ThreadCounts
        /\ base_seed \in Nat /\ job_index \in Nat
    BY ProcessAssumption, WideBaseType
       DEF ProcessInv, CallInv, IInv, TypeOK, Request, CallGenerate
  <1>2. seed' \in Seeds
    BY <1>1, JobSeedType, ProcessAssumption DEF CallGenerate
  <1>3. nonfinite' \in SUBSET Ids(scenario_count')
    BY <1>1 DEF CallGenerate, BeginGenerate
  <1>4. Request'
    BY <1>1, <1>2, <1>3 DEF Request
  <1>5. /\ main' = "entry" /\ thrown' = "none" /\ scenarios' = <<>>
        /\ worker_count' = 0 /\ spawned' = 0 /\ joined' = 0
        /\ generated_shocks' = <<>> /\ worker_exceptions' = <<>>
        /\ worker' = <<>> /\ next' = <<>>
    BY DEF CallGenerate, BeginGenerate
  <1>6. Init'
    BY <1>4, <1>5 DEF Init
  <1> QED
    BY <1>6, InitInvariantNext

\* A step of the caller ends the call without an exception only when it has
\* assembled all the scenarios.
LEMMA CallerDelivers ==
    ASSUME IInv, scenario_count # 0, CallerStep,
           main' = "exit", thrown' = "none"
    PROVE  scenarios' = ScenariosOf(seed)'
  <1>1. Assemble
    <2>1. ~RejectThreadCount /\ ~AllocateFails /\ ~AssembleFails
      BY DEF RejectThreadCount, AllocateFails, AssembleFails, Leave
    <2>2. ~ReturnEmpty
      BY DEF ReturnEmpty
    <2>3. ~Rethrow
      BY DEF Rethrow, Leave, Failed
    <2>4. ~LeaveWorkers
      BY DEF LeaveWorkers, caller
    <2>5. ~Allocate /\ ~Spawn /\ ~SpawnFails /\ ~Join
      BY DEF Allocate, Spawn, SpawnFails, Join, caller
    <2> QED
      BY <2>1, <2>2, <2>3, <2>4, <2>5 DEF CallerStep
  <1>2. UNCHANGED request
    BY <1>1 DEF Assemble
  <1>3. ScenariosOf(seed)' = ScenariosOf(seed)
    BY <1>2 DEF request, ScenariosOf, Ids
  <1>4. scenarios' = ScenariosOf(seed)
    BY <1>1, AssembleDelivers DEF ScenariosOf
  <1> QED
    BY <1>3, <1>4

\* No step of the call changes its arguments.
LEMMA RequestKept ==
    ASSUME CallerStep
    PROVE  UNCHANGED request /\ main # "exit"
  BY DEF CallerStep, RejectThreadCount, ReturnEmpty, Allocate, AllocateFails,
         Spawn, SpawnFails, Join, LeaveWorkers, Rethrow, Assemble,
         AssembleFails

\* The caller takes a thread away only by joining it.
LEMMA CallerThreads ==
    ASSUME IInv, CallerStep, NEW t \in Threads,
           main = "join" /\ joined < spawned => t # ThreadOf(joined)
    PROVE  t \in Threads'
  <1>1. CASE Allocate
    <2>1. joined = spawned
      BY <1>1 DEF IInv, TypeOK, PhaseInv, Allocate
    <2>2. t = MainThread
      BY <2>1, JoinedAll DEF Threads
    <2> QED
      BY <2>2 DEF Threads
  <1>2. CASE Spawn
    <2>1. UNCHANGED <<worker_count, joined>> /\ spawned' = spawned + 1
      BY <1>2 DEF Spawn
    <2>2. joined .. (spawned - 1) \subseteq joined' .. (spawned' - 1)
      BY <2>1, CountsType
    <2>3. \A w : ThreadOf(w)' = ThreadOf(w)
      BY <2>1 DEF ThreadOf, MainThread
    <2> QED
      BY <2>2, <2>3 DEF Threads, WorkerThreads
  <1>3. CASE Join
    <2>1. /\ UNCHANGED <<worker_count, spawned>> /\ joined' = joined + 1
          /\ main = "join" /\ joined < spawned
      BY <1>3 DEF Join
    <2>2. \A w : ThreadOf(w)' = ThreadOf(w)
      BY <2>1 DEF ThreadOf, MainThread
    <2>3. CASE t = MainThread
      BY <2>3 DEF Threads
    <2>4. CASE t # MainThread
      <3>1. PICK w \in joined .. (spawned - 1) : t = ThreadOf(w)
        BY <2>4 DEF Threads, WorkerThreads
      <3>2. w # joined
        BY <2>1, <3>1
      <3>3. w \in joined' .. (spawned' - 1)
        BY <2>1, <3>1, <3>2, CountsType
      <3> QED
        BY <2>2, <2>4, <3>1, <3>3 DEF Threads, WorkerThreads, MainThread
    <2> QED
      BY <2>3, <2>4
  <1>4. CASE ~Allocate /\ ~Spawn /\ ~Join
    <2>1. UNCHANGED counts
      BY <1>4 DEF CallerStep, RejectThreadCount, ReturnEmpty, AllocateFails,
                  SpawnFails, LeaveWorkers, Rethrow, Assemble, AssembleFails
    <2> QED
      BY <2>1, ThreadsKept
  <1> QED
    BY <1>1, <1>2, <1>3, <1>4

-----------------------------------------------------------------------------
(* ProcessInv is inductive.                                                *)

LEMMA ProcessInitInvariant == ProcessInit => ProcessInv
  <1> SUFFICES ASSUME ProcessInit PROVE ProcessInv
    OBVIOUS
  <1>1. IInv
    BY InitInvariant DEF ProcessInit
  <1>2. CallInv
    BY DEF ProcessInit, Job!Init, Init, CallInv
  <1>3. HandlersInv
    BY DEF ProcessInit, Job!Init, HandlersInv, Job!InBody
  <1>4. Handling = {}
    BY DEF ProcessInit, Handling
  <1> QED
    BY <1>1, <1>2, <1>3, <1>4 DEF ProcessInv

\* What a step of the job loop does, when no call is in progress or one ends,
\* leaves the call alone.
LEMMA CallKept ==
    ASSUME IInv, UNCHANGED vars
    PROVE  /\ IInv' /\ UNCHANGED counts
           /\ (main = "exit" /\ thrown = "none" => scenarios = ScenariosOf(seed))
                 => (main = "exit" /\ thrown = "none" => scenarios = ScenariosOf(seed))'
  <1>1. IInv'
    BY NextInvariant
  <1> QED
    BY <1>1 DEF vars, counts, caller, request, ScenariosOf, Ids

\* "Starting job": nothing runs but main, and the call begins.
LEMMA CallGenerateStep ==
    ASSUME ProcessInv, CallGenerate
    PROVE  ProcessInv'
  <1>1. IInv'
    BY CallBegins
  <1>2. /\ pc = "start" /\ pc' = "generate"
        /\ UNCHANGED <<base_seed, job_index, handled, handler_vars>>
        /\ main' = "entry" /\ seed' = JobSeed(base_seed, job_index)
        /\ MainThread \notin Handling
    BY DEF CallGenerate, BeginGenerate, Runs, Job!StartJob, Job!Goto,
           Job!options, Job!stop, Job!jobs
  <1>3. CallInv'
    BY <1>2 DEF ProcessInv, CallInv, JobSeed
  <1>4. HandlersInv'
    BY <1>2 DEF ProcessInv, HandlersInv, Job!InBody
  <1>5. Handling' \subseteq Threads'
    <2>1. WorkerThreads = {}
      BY <1>2, JoinedAll DEF ProcessInv, CallInv
    <2>2. Handling = {}
      BY <1>2, <2>1 DEF ProcessInv, Threads
    <2> QED
      BY <1>2, <2>2 DEF Handling, handler_vars
  <1> QED
    BY <1>1, <1>3, <1>4, <1>5 DEF ProcessInv

\* A step of the calling thread.
LEMMA InGenerateStep ==
    ASSUME ProcessInv, InGenerate
    PROVE  ProcessInv'
  <1> USE DEF ProcessInv
  <1>1. pc = "generate" /\ UNCHANGED <<job_vars, handler_vars>> /\ CallerStep
    BY DEF InGenerate
  <1>2. IInv'
    BY <1>1, NextInvariant DEF Next
  <1>3. UNCHANGED request
    BY <1>1, RequestKept
  <1>4. CallInv'
    <2>1. scenario_count # 0
      BY ProcessAssumption, WideBaseType DEF IInv, TypeOK, Request
    <2>2. main' = "exit" /\ thrown' = "none" => scenarios' = ScenariosOf(seed)'
      BY <1>1, <2>1, CallerDelivers
    <2> QED
      BY <1>1, <1>3, <2>2 DEF CallInv, job_vars, request, JobSeed
  <1>5. HandlersInv'
    BY <1>1 DEF HandlersInv, job_vars, Job!InBody
  <1>6. Handling' \subseteq Threads'
    <2> SUFFICES ASSUME NEW t \in Handling PROVE t \in Threads'
      BY <1>1 DEF Handling, handler_vars
    <2>1. main = "join" /\ joined < spawned => t # ThreadOf(joined)
      BY DEF InGenerate, Runs
    <2> QED
      BY <1>1, <2>1, CallerThreads
  <1> QED
    BY <1>2, <1>4, <1>5, <1>6

\* A step of a worker.
LEMMA InWorkerStep ==
    ASSUME ProcessInv, NEW w \in Workers, InWorker(w)
    PROVE  ProcessInv'
  <1> USE DEF ProcessInv
  <1>1. /\ UNCHANGED <<job_vars, handler_vars>>
        /\ UNCHANGED <<request, caller, counts>>
    BY DEF InWorker, WorkerStep, Generate, GenerateFails, FinishRange, buffers
  <1>2. IInv'
    BY NextInvariant DEF InWorker, Next
  <1>3. CallInv'
    BY <1>1 DEF CallInv, job_vars, request, caller, counts, JobSeed,
                ScenariosOf, Ids
  <1>4. HandlersInv'
    BY <1>1 DEF HandlersInv, job_vars, Job!InBody
  <1>5. Handling' \subseteq Threads'
    BY <1>1, ThreadsKept DEF Handling, handler_vars
  <1> QED
    BY <1>2, <1>3, <1>4, <1>5

\* generate returns or throws; every worker has been joined.
LEMMA EndGenerateStep ==
    ASSUME ProcessInv, EndGenerate
    PROVE  ProcessInv'
  <1> USE DEF ProcessInv
  <1>1. /\ UNCHANGED <<vars, handler_vars, base_seed, job_index, handled>>
        /\ pc = "generate" /\ main = "exit"
        /\ pc' = IF thrown = "none" THEN "simulate" ELSE "returned"
    BY DEF EndGenerate, Job!Generate, Job!Goto, Job!Return, Job!options,
           Job!stop, Job!jobs
  <1>2. IInv'
    BY <1>1, CallKept
  <1>3. CallInv'
    <2>1. joined = spawned
      BY <1>1 DEF IInv, PhaseInv
    <2> QED
      BY <1>1, <2>1, CallKept
         DEF CallInv, vars, caller, request, counts, JobSeed
  <1>4. HandlersInv'
    BY <1>1 DEF HandlersInv, Job!InBody
  <1>5. Handling' \subseteq Threads'
    BY <1>1, CallKept, ThreadsKept DEF Handling, handler_vars
  <1> QED
    BY <1>2, <1>3, <1>4, <1>5

\* The other statements of main run between two calls.
LEMMA MainStatementStep ==
    ASSUME ProcessInv, MainStatement
    PROVE  ProcessInv'
  <1> USE DEF ProcessInv
  <1>1. UNCHANGED <<vars, handler_vars>>
    BY DEF MainStatement
  <1>2. /\ base_seed' = base_seed
        /\ \/ pc = "parse" /\ pc' \in {"load", "returned"} /\ UNCHANGED <<handled, job_index>>
           \/ pc = "load" /\ pc' \in {"sigint", "returned"} /\ UNCHANGED <<handled, job_index>>
           \/ /\ pc = "sigint" /\ pc' = "sigterm" /\ UNCHANGED job_index
              /\ handled' = handled \cup {"SIGINT"}
           \/ /\ pc = "sigterm" /\ pc' = "loop" /\ UNCHANGED job_index
              /\ handled' = handled \cup {"SIGTERM"}
           \/ pc = "loop" /\ pc' \in {"start", "end"} /\ UNCHANGED <<handled, job_index>>
           \/ pc = "simulate" /\ pc' \in {"report", "returned"} /\ UNCHANGED <<handled, job_index>>
           \/ /\ pc = "report" /\ pc' \in {"loop", "end"} /\ UNCHANGED handled
              /\ job_index' = job_index + 1
           \/ pc = "end" /\ pc' = "returned" /\ UNCHANGED <<handled, job_index>>
    BY DEF MainStatement, Job!ParseOptions, Job!Load, Job!InstallSigint,
           Job!InstallSigterm, Job!EnterBody, Job!LeaveLoop, Job!Simulate,
           Job!Report, Job!Finish, Job!Goto, Job!Return, Job!options, Job!stop,
           Job!jobs
  <1>3. IInv'
    BY <1>1, CallKept
  <1>4. CallInv'
    <2>1. base_seed' \in BaseSeeds /\ job_index' \in Nat
      BY <1>2 DEF CallInv
    <2>2. main' = "exit" /\ thrown' = "none" => scenarios' = ScenariosOf(seed)'
      BY <1>1, CallKept DEF CallInv
    <2>3. pc # "generate" /\ pc' # "generate"
      BY <1>2
    <2>4. joined' = spawned'
      BY <1>1, <2>3, CallKept DEF CallInv, counts
    <2>5. pc' \in {"simulate", "report"} => pc = "simulate" /\ UNCHANGED job_index
      BY <1>2
    <2> QED
      BY <1>1, <1>2, <2>1, <2>2, <2>3, <2>4, <2>5
         DEF CallInv, vars, caller, request, JobSeed
  <1>5. HandlersInv'
    BY <1>2 DEF HandlersInv, Job!InBody, Job!Signals
  <1>6. Handling' \subseteq Threads'
    BY <1>1, CallKept, ThreadsKept DEF Handling, handler_vars
  <1> QED
    BY <1>3, <1>4, <1>5, <1>6

\* Entering, storing in and leaving a handler, on any thread that exists.
LEMMA HandlerStep ==
    ASSUME ProcessInv,
           \/ \E t \in Threads : EnterHandler(t)
           \/ \E t \in Handling : StoreFlag(t) \/ LeaveHandler(t)
    PROVE  ProcessInv'
  <1> USE DEF ProcessInv
  <1>1. UNCHANGED <<vars, base_seed, job_index, pc, handled>>
    BY DEF EnterHandler, StoreFlag, LeaveHandler, job_vars, Job!HandleSignal,
           Job!options, Job!jobs
  <1>2. IInv'
    BY <1>1, CallKept
  <1>3. CallInv'
    BY <1>1 DEF CallInv, vars, caller, request, counts, JobSeed, ScenariosOf, Ids
  <1>4. HandlersInv'
    BY <1>1 DEF HandlersInv, Job!InBody
  <1>5. Handling' \subseteq Threads
    BY DEF EnterHandler, StoreFlag, LeaveHandler, Handling
  <1> QED
    BY <1>1, <1>2, <1>3, <1>4, <1>5, CallKept, ThreadsKept

\* A signal without a handler comes before the first call.
LEMMA DieStep ==
    ASSUME ProcessInv, DieOfSignal
    PROVE  ProcessInv'
  <1> USE DEF ProcessInv
  <1>1. /\ UNCHANGED <<vars, handler_vars, base_seed, job_index, handled>>
        /\ pc' = "killed" /\ handled # Job!Signals
    BY DEF DieOfSignal, Job!DieOfSignal, Job!options, Job!stop, Job!jobs
  <1>2. joined = spawned
    BY <1>1 DEF CallInv, HandlersInv, Job!InBody
  <1>3. IInv'
    BY <1>1, CallKept
  <1>4. CallInv'
    BY <1>1, <1>2 DEF CallInv, vars, caller, request, counts, JobSeed,
                      ScenariosOf, Ids
  <1>5. HandlersInv'
    BY <1>1 DEF HandlersInv, Job!InBody
  <1>6. Handling' \subseteq Threads'
    BY <1>1, CallKept, ThreadsKept DEF Handling, handler_vars
  <1> QED
    BY <1>3, <1>4, <1>5, <1>6

LEMMA ProcessNextInvariant == ProcessInv /\ [ProcessNext]_process_vars => ProcessInv'
  <1> SUFFICES ASSUME ProcessInv, [ProcessNext]_process_vars
               PROVE  ProcessInv'
    OBVIOUS
  <1>1. CASE ProcessNext
    BY <1>1, CallGenerateStep, InGenerateStep, InWorkerStep, EndGenerateStep,
       MainStatementStep, HandlerStep, DieStep DEF ProcessNext, Progress
  <1>2. CASE UNCHANGED process_vars
    <2>1. UNCHANGED <<vars, base_seed, job_index, pc, handled, handler_vars>>
      BY <1>2 DEF process_vars, job_vars
    <2>2. IInv' /\ UNCHANGED counts
      BY <2>1, CallKept DEF ProcessInv
    <2>3. CallInv'
      BY <2>1 DEF ProcessInv, CallInv, vars, caller, request, counts, JobSeed,
                  ScenariosOf, Ids
    <2>4. HandlersInv'
      BY <2>1 DEF ProcessInv, HandlersInv, Job!InBody
    <2>5. Handling' \subseteq Threads'
      BY <2>1, <2>2, ThreadsKept DEF ProcessInv, Handling, handler_vars
    <2> QED
      BY <2>2, <2>3, <2>4, <2>5 DEF ProcessInv
  <1> QED
    BY <1>1, <1>2

\* In every state of every process the call of generate, the job it belongs
\* to and the signal handlers agree: no signal ends the process during a call,
\* and only threads that exist run the handler.
THEOREM ProcessInvariance == ProcessSpec => []ProcessInv
  <1> QED
    BY ProcessInitInvariant, ProcessNextInvariant, PTL DEF ProcessSpec

\* The read of stop_requested at `while` and `if` races with no handler,
\* whatever threads the handlers of earlier signals ran on.
THEOREM FlagReadsRaceFree == ProcessSpec => []FlagReadRaceFree
  <1>1. ProcessInv => FlagReadRaceFree
    <2> SUFFICES ASSUME ProcessInv, pc \in {"loop", "end"}
                 PROVE  Handling \subseteq {MainThread}
      BY DEF FlagReadRaceFree
    <2>1. WorkerThreads = {}
      BY JoinedAll DEF ProcessInv, CallInv
    <2> QED
      BY <2>1 DEF ProcessInv, Threads
  <1> QED
    BY <1>1, ProcessInvariance, PTL

\* No worker thread outlives the call that started it, however it ends.
THEOREM WorkersEnd == ProcessSpec => []WorkersEndFirst
  <1>1. ProcessInv => WorkersEndFirst
    BY JoinedAll DEF ProcessInv, CallInv, WorkersEndFirst
  <1> QED
    BY <1>1, ProcessInvariance, PTL

\* Every job simulates and reports exactly the scenarios of its own seed.
THEOREM OwnStreams == ProcessSpec => []JobUsesOwnStreams
  <1>1. ProcessInv => JobUsesOwnStreams
    BY DEF ProcessInv, CallInv, JobUsesOwnStreams
  <1> QED
    BY <1>1, ProcessInvariance, PTL

\* In every job, whatever handler interrupts whatever thread, the buffers
\* outlive the workers, no slot has two writers, and the failure reported is
\* the one a single thread would have met.
THEOREM CallsAreSafe ==
    ProcessSpec => [](BuffersOutliveWorkers /\ NoSlotRace /\ FailureIsSequential)
  <1>1. ProcessInv => IInv
    BY DEF ProcessInv
  <1> QED
    BY <1>1, BuffersFollow, SlotsFollow, FailureFollows, ProcessInvariance, PTL

-----------------------------------------------------------------------------
(* The process implements the job loop.                                    *)

\* Each step of a thread is a statement of main, a signal, or nothing that
\* the job loop shows.
LEMMA ProcessStepMaps ==
    ASSUME [ProcessNext]_process_vars
    PROVE  [Job!Next]_(Job!vars)
  <1> USE DEF Job!vars, Job!options, Job!stop, Job!jobs, Job!Next, Job!MainStep
  <1>1. CASE CallGenerate
    BY <1>1 DEF CallGenerate
  <1>2. CASE EndGenerate
    BY <1>2 DEF EndGenerate
  <1>3. CASE MainStatement
    BY <1>3 DEF MainStatement
  <1>4. CASE DieOfSignal
    BY <1>4 DEF DieOfSignal
  <1>5. CASE \E t \in Handling : StoreFlag(t)
    BY <1>5 DEF StoreFlag
  <1>6. CASE \/ InGenerate
             \/ \E w \in Workers : InWorker(w)
             \/ \E t \in Handling : LeaveHandler(t)
             \/ \E t \in Threads : EnterHandler(t)
             \/ UNCHANGED process_vars
    <2>1. UNCHANGED job_vars
      BY <1>6 DEF InGenerate, InWorker, LeaveHandler, EnterHandler, process_vars
    <2> QED
      BY <2>1 DEF job_vars
  <1> QED
    BY <1>1, <1>2, <1>3, <1>4, <1>5, <1>6 DEF ProcessNext, Progress

\* Threads and handlers are invisible to the job loop: whatever they do, the
\* process takes the steps of JobLoop and no other.
THEOREM ImplementsJobLoopSafety ==
    ProcessSpec => Job!Init /\ [][Job!Next]_(Job!vars)
  <1>1. ProcessInit => Job!Init
    BY DEF ProcessInit
  <1>2. [ProcessNext]_process_vars => [Job!Next]_(Job!vars)
    BY ProcessStepMaps
  <1> QED
    BY <1>1, <1>2, PTL DEF ProcessSpec

-----------------------------------------------------------------------------
(* What is proved of the job loop therefore holds of the whole process.    *)

JobProofs == INSTANCE JobLoopProofs
                 WITH seed <- base_seed, Seeds <- BaseSeeds,
                      ScenarioCount <- WideBase

LEMMA JobAssumptions ==
    JobProofs!JobLoopAssumption /\ JobProofs!WordBaseAssumption
  BY ProcessAssumption, WordBaseAssumption, WideBaseType
     DEF JobProofs!JobLoopAssumption, JobProofs!WordBaseAssumption,
         JobProofs!WideBase, WideBase

\* The two instances of JobLoop define the same formulas.
LEMMA SameFormulas ==
    /\ Job!Init <=> JobProofs!Init
    /\ [Job!Next]_(Job!vars) <=> [JobProofs!Next]_(JobProofs!vars)
    /\ JobProofs!StopIsPrompt <=> Job!StopIsPrompt
    /\ JobProofs!SuccessIsReported <=> Job!SuccessIsReported
    /\ JobProofs!StreamsDistinct <=> Job!StreamsDistinct
  <1>1. Job!Init <=> JobProofs!Init
    BY DEF Job!Init, JobProofs!Init, Job!Commands, JobProofs!Commands
  <1>2. [Job!Next]_(Job!vars) <=> [JobProofs!Next]_(JobProofs!vars)
    <2>1. \A i : Job!JobSeed(base_seed, i) = JobProofs!JobSeed(base_seed, i)
      BY DEF Job!JobSeed, JobProofs!JobSeed, Job!WideBase, JobProofs!WideBase
    <2> QED
      BY <2>1
         DEF Job!Next, Job!MainStep, Job!ParseOptions, Job!Load,
             Job!InstallSigint, Job!InstallSigterm, Job!EnterBody,
             Job!LeaveLoop, Job!StartJob, Job!Generate, Job!Simulate,
             Job!Report, Job!Finish, Job!HandleSignal, Job!DieOfSignal,
             Job!Goto, Job!Return, Job!Ended, Job!Signals, Job!vars,
             Job!options, Job!stop, Job!jobs,
             JobProofs!Next, JobProofs!MainStep, JobProofs!ParseOptions,
             JobProofs!Load, JobProofs!InstallSigint,
             JobProofs!InstallSigterm, JobProofs!EnterBody,
             JobProofs!LeaveLoop, JobProofs!StartJob, JobProofs!Generate,
             JobProofs!Simulate, JobProofs!Report, JobProofs!Finish,
             JobProofs!HandleSignal, JobProofs!DieOfSignal, JobProofs!Goto,
             JobProofs!Return, JobProofs!Ended, JobProofs!Signals,
             JobProofs!vars, JobProofs!options, JobProofs!stop,
             JobProofs!jobs
  <1>3. JobProofs!StopIsPrompt <=> Job!StopIsPrompt
    BY DEF JobProofs!StopIsPrompt, Job!StopIsPrompt
  <1>4. JobProofs!SuccessIsReported <=> Job!SuccessIsReported
    BY DEF JobProofs!SuccessIsReported, Job!SuccessIsReported
  <1>5. JobProofs!StreamsDistinct <=> Job!StreamsDistinct
    BY DEF JobProofs!StreamsDistinct, Job!StreamsDistinct,
           JobProofs!SeedWords, Job!SeedWords, JobProofs!LowWord, Job!LowWord,
           JobProofs!HighWord, Job!HighWord
  <1> QED
    BY <1>1, <1>2, <1>3, <1>4, <1>5

LEMMA JobInvariance == ProcessSpec => []JobProofs!IInv
  <1>1. Job!Init => JobProofs!IInv
    BY SameFormulas, JobProofs!InitInvariant, JobAssumptions
  <1>2. JobProofs!IInv /\ [Job!Next]_(Job!vars) => JobProofs!IInv'
    BY SameFormulas, JobProofs!NextInvariant, JobAssumptions
  <1> QED
    BY <1>1, <1>2, ImplementsJobLoopSafety, PTL

\* With all its threads and handlers, the process obeys a stop after at most
\* one more job, exits with 0 only if the user got what he asked for, and uses
\* no random stream twice, for ids up to the last that 64 bits can hold.
THEOREM JobLoopPropertiesHold ==
    ProcessSpec => [](/\ Job!StopIsPrompt
                      /\ Job!SuccessIsReported
                      /\ Job!StreamsDistinct)
  <1>1. JobProofs!IInv => JobProofs!StopIsPrompt /\ JobProofs!SuccessIsReported
    BY DEF JobProofs!IInv
  <1>2. JobProofs!IInv => JobProofs!StreamsDistinct
    BY JobProofs!DistinctStreams, JobAssumptions
  <1>3. JobProofs!IInv => /\ Job!StopIsPrompt
                          /\ Job!SuccessIsReported
                          /\ Job!StreamsDistinct
    BY <1>1, <1>2, SameFormulas
  <1> QED
    BY <1>3, JobInvariance, PTL
=============================================================================
