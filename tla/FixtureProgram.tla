--------------------------- MODULE FixtureProgram ---------------------------
(***************************************************************************)
(* ct_fixture_prog.c, the program the MCR fixtures are recordings of: main *)
(* starts workers that share an array of arguments with it, waits, and     *)
(* prints and adds up what they left there.  POSIX joins them one by one,  *)
(* Windows waits for all at once.  Neither looks at whether a thread could *)
(* be created.                                                             *)
(***************************************************************************)
EXTENDS Naturals, Sequences

CONSTANTS
    NumWorkers,         \* NUM_WORKERS
    Iterations,         \* WorkerArg.iterations
    Platforms,          \* which of "posix" and "windows" are built
    CanFail             \* whether the system may refuse a thread

ASSUME ProgramAssumption ==
    /\ NumWorkers \in Nat \ {0} /\ Iterations \in Nat \ {0}
    /\ Platforms \subseteq {"posix", "windows"}
    /\ CanFail \in BOOLEAN

Workers == 1 .. NumWorkers

VARIABLES
    platform,
    mainAt,         \* main's place
    i,              \* the worker main is at
    thread,         \* each worker's thread
    sum,            \* its local sum
    at,             \* and its loop counter
    result,         \* args[].result, garbage until main sets it
    printed,        \* the results main has printed
    finalSum

mainVars == <<mainAt, i, printed, finalSum>>
programVars == <<platform, mainVars, thread, sum, at, result>>

Garbage == 7777

\* The sums the program computes first: calculate_sum, sum_with_for, sum_with_while.
CalculateSum(a, b) ==
    LET total[k \in Nat] == IF k < a THEN 0 ELSE total[k - 1] + k IN total[b]
SumWithFor(n) == CalculateSum(1, n)
SumWithWhile(n) == CalculateSum(1, n)
MainSums == CalculateSum(10, 32) + SumWithFor(9) + SumWithWhile(9)

ProgramInit ==
    /\ platform \in Platforms
    /\ mainAt = "create" /\ i = 1
    /\ thread = [w \in Workers |-> "none"]
    /\ sum = [w \in Workers |-> 0] /\ at = [w \in Workers |-> 0]
    /\ result = [w \in Workers |-> Garbage]
    /\ printed = <<>>
    /\ finalSum = 0

\* The loop's end: the next worker, or the next part of main.
Turn(next) ==
    IF i < NumWorkers THEN i' = i + 1 /\ mainAt' = mainAt ELSE i' = 1 /\ mainAt' = next

Waits == IF platform = "windows" THEN "wait" ELSE "join"

\* The argument is set before the thread is there, and a refusal is not noticed.
Create ==
    /\ mainAt = "create"
    /\ result' = [result EXCEPT ![i] = 0]
    /\ \E made \in IF CanFail THEN {"running", "refused"} ELSE {"running"} :
            thread' = [thread EXCEPT ![i] = made]
    /\ Turn(Waits)
    /\ UNCHANGED <<platform, sum, at, printed, finalSum>>

Work(w) ==
    /\ thread[w] = "running" /\ at[w] < Iterations
    /\ sum' = [sum EXCEPT ![w] = @ + at[w] * w]
    /\ at' = [at EXCEPT ![w] = @ + 1]
    /\ UNCHANGED <<platform, mainVars, thread, result>>

\* Its result is the last thing a worker writes.
Return(w) ==
    /\ thread[w] = "running" /\ at[w] = Iterations
    /\ result' = [result EXCEPT ![w] = sum[w]]
    /\ thread' = [thread EXCEPT ![w] = "ended"]
    /\ UNCHANGED <<platform, mainVars, sum, at>>

\* Bug for WaitForAll: it waits for any of them (bWaitAll FALSE).
WaitForAny ==
    /\ mainAt = "wait"
    /\ \E w \in Workers : thread[w] \in {"ended", "refused"}
    /\ mainAt' = "print"
    /\ UNCHANGED <<platform, i, thread, sum, at, result, printed, finalSum>>

\* The wait for all of them returns at once when one handle is NULL.
WaitForAll ==
    /\ mainAt = "wait"
    /\ (\A w \in Workers : thread[w] = "ended") \/ (\E w \in Workers : thread[w] = "refused")
    /\ mainAt' = "print"
    /\ UNCHANGED <<platform, i, thread, sum, at, result, printed, finalSum>>

\* A join of a thread that was never made, its id never set, returns an error or
\* takes the program down.
Join ==
    /\ mainAt = "join"
    /\ \/ thread[i] \in {"ended", "refused"} /\ mainAt' = "print"
       \/ thread[i] = "refused" /\ mainAt' = "crashed"
    /\ UNCHANGED <<platform, i, thread, sum, at, result, printed, finalSum>>

\* A worker's line, between two joins or after the wait for all.
PrintResult ==
    /\ mainAt = "print"
    /\ printed' = Append(printed, result[i])
    /\ IF i < NumWorkers
       THEN i' = i + 1 /\ mainAt' = IF platform = "windows" THEN "print" ELSE "join"
       ELSE i' = 1 /\ mainAt' = "add"
    /\ finalSum' = IF i < NumWorkers THEN finalSum ELSE MainSums
    /\ UNCHANGED <<platform, thread, sum, at, result>>

AddResult ==
    /\ mainAt = "add"
    /\ finalSum' = finalSum + result[i]
    /\ Turn("done")
    /\ UNCHANGED <<platform, thread, sum, at, result, printed>>

Main == Create \/ WaitForAll \/ Join \/ PrintResult \/ AddResult
Worker(w) == mainAt \notin {"done", "crashed"} /\ (Work(w) \/ Return(w))

Ended == mainAt \in {"done", "crashed"} /\ UNCHANGED programVars

ProgramNext == Main \/ Ended \/ \E w \in Workers : Worker(w)

ProgramSpec == ProgramInit /\ [][ProgramNext]_programVars

-----------------------------------------------------------------------------
(* Properties. *)

Refused == \E w \in Workers : thread[w] = "refused"

\* A line is printed of a worker that is done and has the whole of its sum: on
\* POSIX for every worker whose thread was made, on Windows when all were, one
\* refusal ending the wait for the others (ct_fixture_prog.c:168-195).
LinesAreComplete ==
    \A w \in 1..Len(printed) :
        thread[w] # "refused" /\ (platform = "posix" \/ ~Refused) =>
            thread[w] = "ended" /\ printed[w] = sum[w]
=============================================================================
