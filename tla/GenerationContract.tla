-------------------------- MODULE GenerationContract --------------------------
(***************************************************************************)
(* What MonteCarloScenarioGenerator::generate promises its caller, with    *)
(* workers and threads left out: one step from the request to its outcome. *)
(* The scenarios returned are a function of the scenario count and the     *)
(* seed alone; the thread count decides only whether the request is valid  *)
(* and whether starting threads may fail.                                  *)
(***************************************************************************)
EXTENDS RandomStreams

CONSTANTS
    ScenarioCounts, \* the values scenario_count may take
    ThreadCounts,   \* the values thread_count may take
    Seeds           \* the values seed may take

VARIABLES
    scenario_count, \* argument
    seed,           \* argument, the job seed
    thread_count,   \* argument
    nonfinite,      \* the ids whose draws give a non-finite price shock
    result          \* what the caller has got so far

request == <<scenario_count, seed, thread_count, nonfinite>>
contract_vars == <<scenario_count, seed, thread_count, nonfinite, result>>

\* The ids of the scenarios of a request for n scenarios.
Ids(n) == 0 .. (n - 1)

Pending   == [status |-> "pending", scenarios |-> <<>>]
Return(s) == [status |-> "returned", scenarios |-> s]
Throw(e)  == [status |-> e, scenarios |-> <<>>]

\* The n scenarios of the job: number id carries id and the shocks of its
\* own stream.
Generated(n) ==
    [id \in Ids(n) |-> [scenario_id |-> id,
                        price_shocks |-> SeedWords(seed, id)]]

\* The caller's arguments, and which scenarios happen to overflow.
Request ==
    /\ scenario_count \in ScenarioCounts
    /\ seed \in Seeds
    /\ thread_count \in ThreadCounts
    /\ nonfinite \in SUBSET Ids(scenario_count)

Init == Request /\ result = Pending

Settle(outcome) ==
    /\ result = Pending
    /\ result' = outcome
    /\ UNCHANGED request

\* Every scenario is finite: all of them are returned.
Deliver ==
    /\ thread_count # 0
    /\ nonfinite = {}
    /\ Settle(Return(Generated(scenario_count)))

\* A thread count of zero is rejected, whatever else was asked.
RejectThreadCount ==
    /\ thread_count = 0
    /\ Settle(Throw("invalid_argument"))

\* Some scenario is not finite: no scenario is returned.
ReportNonFinite ==
    /\ thread_count # 0
    /\ nonfinite # {}
    /\ Settle(Throw("overflow_error"))

\* Memory may run out in any request that is not empty, or the count may be
\* beyond what a vector can hold.
ReportMemory ==
    /\ thread_count # 0
    /\ scenario_count # 0
    /\ \E e \in {"bad_alloc", "length_error"} : Settle(Throw(e))

\* Threads are started, and may fail to start, only when two would be used.
ReportThreads ==
    /\ thread_count > 1
    /\ scenario_count > 1
    /\ Settle(Throw("system_error"))

Next ==
    \/ Deliver
    \/ RejectThreadCount
    \/ ReportNonFinite
    \/ ReportMemory
    \/ ReportThreads

\* What a call may do, and that it ends.
Safety == Init /\ [][Next]_contract_vars
Spec   == Safety /\ WF_contract_vars(Next)
===============================================================================
