----------------------------- MODULE Benchmark -----------------------------
(***************************************************************************)
(* run.py, which runs every executable on every data file, and the main    *)
(* function that the executables share: load, fit, save the labels, append *)
(* a row to the benchmark.  run.py looks at no return code, and an         *)
(* executable that cannot open a file ends with an uncaught exception.     *)
(* The executables work in the repository's data directory, whereas run.py *)
(* makes directories below output_path and opens the benchmark below the   *)
(* directory it was started in.  A user may also run an executable by      *)
(* hand, with fewer options.                                               *)
(*                                                                         *)
(* The binaries are taken to be built, and data_generation.py to have made *)
(* the data files.                                                         *)
(***************************************************************************)
EXTENDS PointsCsv, SequencesExt

CONSTANTS
    NumFiles,           \* data files, in the order of their names
    NumRows,            \* the points in each of them
    ClusterCounts, ThreadCounts, \* values given for these options
    MaxRuns,            \* bound on the commands that are given
    MaxKilled           \* bound on the executables that are killed

ASSUME BenchmarkAssumption ==
    /\ NumFiles \in Nat /\ NumRows \in [1 .. NumFiles -> Nat]
    /\ ClusterCounts \subseteq Nat \ {0} /\ ThreadCounts \subseteq Nat \ {0}
    /\ MaxRuns \in Nat /\ MaxKilled \in Nat

Files == 1 .. NumFiles

(* In the order in which run.py runs them. *)
Programs == <<"cpp_sequential", "taskflow_cpu", "cpp_parallel", "python_sklearn">>

Trees == {"repository", "elsewhere"}

(* dirs_to_make, as far as anything is written there. *)
DirsToMake == {"benchmarks", "cpp_parallel", "cpp_sequential", "python_sklearn"}

Events == {"load_from_csv", "kmeans_fit", "save_to_csv"}

VARIABLES
    dirs,           \* per tree, the directories in data and data/output
    benchmark,      \* per tree, the benchmark: if it has a header, and its rows
    output,         \* per program and file, the result saved last
    at,             \* where run.py and the executable it waits for are
    options,        \* the options of the command
    todo,           \* the executions that are left, the current one first
    execution,      \* executions started so far
    timed,          \* the events the timer of the executable has logged
    runs, killed    \* commands given and executables killed so far

files == <<dirs, benchmark, output>>
vars == <<files, at, options, todo, execution, timed, runs, killed>>

NoResult == [by |-> 0, complete |-> FALSE]

Options ==
    [clusters : ClusterCounts, threads : ThreadCounts,
     append : BOOLEAN, cwd : Trees, output_path : Trees,
     output_dir : BOOLEAN, by_hand : BOOLEAN]

NoCommand ==
    [clusters |-> 0, threads |-> 0, append |-> FALSE, cwd |-> "repository",
     output_path |-> "repository", output_dir |-> FALSE, by_hand |-> TRUE]

Row == [by : Nat, program : Range(Programs), file : Files, times : SUBSET Events,
        output_dir : BOOLEAN]

TypeOK ==
    /\ dirs \in [Trees -> SUBSET (DirsToMake \cup {"taskflow_cpu"})]
    /\ benchmark \in [Trees -> [header : BOOLEAN, rows : Seq(Row)]]
    /\ output \in [Range(Programs) \X Files -> [by : Nat, complete : BOOLEAN]]
    /\ at \in {"idle", "open", "next", "load", "fit", "save", "write",
               "append"}
    /\ options \in Options \cup {NoCommand}
    /\ todo \in Seq(Range(Programs) \X Files)
    /\ execution \in Nat
    /\ timed \subseteq Events
    /\ runs \in 0 .. MaxRuns
    /\ killed \in 0 .. MaxKilled

(* data_generation.py made the directories, too, and perhaps somebody made *)
(* the one of taskflow by hand.                                            *)
Init ==
    /\ \E made \in SUBSET {"taskflow_cpu"} :
          dirs = [repository |-> DirsToMake \cup made, elsewhere |-> {}]
    /\ benchmark = [t \in Trees |-> [header |-> FALSE, rows |-> <<>>]]
    /\ output = [pf \in Range(Programs) \X Files |-> NoResult]
    /\ at = "idle"
    /\ options = NoCommand
    /\ todo = <<>>
    /\ execution = 0
    /\ timed = {}
    /\ runs = 0
    /\ killed = 0

-----------------------------------------------------------------------------
(* run.py *)

StartRun(o) ==
    /\ at = "idle" /\ runs < MaxRuns
    /\ o.output_dir /\ ~ o.by_hand
    /\ options' = o
    /\ dirs' = [dirs EXCEPT ![o.output_path] = @ \cup DirsToMake]
    /\ at' = "open"
    /\ runs' = runs + 1
    /\ UNCHANGED <<benchmark, output, todo, execution, timed, killed>>

EndRun ==
    /\ at = "next" /\ todo = <<>>
    /\ at' = "idle"
    /\ options' = NoCommand
    /\ UNCHANGED <<files, todo, execution, timed, runs, killed>>

(* Mutant: files are numbered from 0. *)
Executions_fromZero ==
    [n \in 1 .. Len(Programs) * NumFiles |->
        <<Programs[(n - 1) \div NumFiles + 1], (n - 1) % NumFiles>>]

(* Every executable on every file, one executable after the other. *)
Executions ==
    [n \in 1 .. Len(Programs) * NumFiles |->
        <<Programs[(n - 1) \div NumFiles + 1], ((n - 1) % NumFiles) + 1>>]

OpenBenchmark ==
    /\ at = "open" /\ "benchmarks" \in dirs[options.cwd]
    /\ IF options.append THEN UNCHANGED benchmark
       ELSE benchmark' = [benchmark EXCEPT ![options.cwd] = [header |-> TRUE, rows |-> <<>>]]
    /\ todo' = Executions
    /\ at' = "next"
    /\ UNCHANGED <<dirs, output, options, execution, timed, runs, killed>>

(* run.py itself has no handler for this. *)
OpenFails ==
    /\ at = "open" /\ "benchmarks" \notin dirs[options.cwd]
    /\ at' = "next"
    /\ UNCHANGED <<files, options, todo, execution, timed, runs, killed>>

(* A user runs one executable on one file. *)
RunByHand(o, p, f) ==
    /\ at = "idle" /\ runs < MaxRuns
    /\ o = [o EXCEPT !.by_hand = TRUE, !.append = TRUE, !.cwd = "repository",
                     !.output_path = "repository"]
    /\ p = "python_sklearn" => o.output_dir
    /\ options' = o
    /\ todo' = <<<<p, f>>>>
    /\ at' = "next"
    /\ runs' = runs + 1
    /\ UNCHANGED <<files, execution, timed, killed>>

-----------------------------------------------------------------------------
(* The main function of an executable. *)

program == Head(todo)[1]
file == Head(todo)[2]

Execute ==
    /\ at = "next" /\ todo # <<>>
    /\ at' = "load"
    /\ execution' = execution + 1
    /\ timed' = {}
    /\ UNCHANGED <<files, options, todo, runs, killed>>

(* Whatever it returned, the next execution follows. *)
Leave == at' = "next" /\ todo' = Tail(todo)

Die ==
    /\ Leave
    /\ UNCHANGED <<files, options, execution, timed, runs>>

Load ==
    /\ at = "load"
    /\ timed' = timed \cup {"load_from_csv"}
    /\ at' = "fit"
    /\ UNCHANGED <<files, options, todo, execution, runs, killed>>

(* Mutant: the sampling draws one row too many. *)
TooManyClusters_orEqual == options.clusters >= NumRows[file]

TooManyClusters == options.clusters > NumRows[file]
OneThread == program = "cpp_parallel" /\ options.threads = 1

(* With more clusters than points the sampling of the three executables    *)
(* never ends: there is no step, and run.py waits for ever.                *)
Fit ==
    /\ at = "fit" /\ ~ TooManyClusters /\ ~ OneThread
    /\ timed' = timed \cup {"kmeans_fit"}
    /\ at' = IF options.output_dir THEN "save" ELSE "append"
    /\ UNCHANGED <<files, options, todo, execution, runs, killed>>

(* sklearn raises an exception instead, and one thread divides by zero. *)
FitFails ==
    /\ at = "fit"
    /\ IF TooManyClusters THEN program = "python_sklearn" ELSE OneThread
    /\ Die
    /\ UNCHANGED killed

(* The file of an earlier result is truncated when it is opened. *)
OpenOutput ==
    /\ at = "save" /\ program \in dirs["repository"]
    /\ output' = [output EXCEPT ![<<program, file>>] = [by |-> execution, complete |-> FALSE]]
    /\ at' = "write"
    /\ UNCHANGED <<dirs, benchmark, options, todo, execution, timed, runs, killed>>

NoOutputDir ==
    /\ at = "save" /\ program \notin dirs["repository"]
    /\ Die
    /\ UNCHANGED killed

(* Mutant: the labels are still in the buffer when the row is written. *)
WriteOutput_buffered ==
    /\ at = "write"
    /\ timed' = timed \cup {"save_to_csv"}
    /\ at' = "append"
    /\ UNCHANGED <<files, options, todo, execution, runs, killed>>

WriteOutput ==
    /\ at = "write"
    /\ output' = [output EXCEPT ![<<program, file>>].complete = TRUE]
    /\ timed' = timed \cup {"save_to_csv"}
    /\ at' = "append"
    /\ UNCHANGED <<dirs, benchmark, options, todo, execution, runs, killed>>

ThisRow == [by |-> execution, program |-> program, file |-> file, times |-> timed,
            output_dir |-> options.output_dir]

(* Mutant: the benchmark is not opened for appending. *)
AppendRow_truncates ==
    /\ at = "append"
    /\ benchmark' = [benchmark EXCEPT !["repository"].rows = <<ThisRow>>]
    /\ Leave
    /\ UNCHANGED <<dirs, output, options, execution, timed, runs, killed>>

AppendRow ==
    /\ at = "append"
    /\ benchmark' = [benchmark EXCEPT !["repository"].rows = Append(@, ThisRow)]
    /\ Leave
    /\ UNCHANGED <<dirs, output, options, execution, timed, runs, killed>>

(* An executable may be killed at any point. *)
Kill ==
    /\ at \in {"load", "fit", "save", "write", "append"} /\ killed < MaxKilled
    /\ killed' = killed + 1
    /\ Die

Work ==
    OpenBenchmark \/ OpenFails \/ Execute \/ EndRun \/ Load \/ Fit \/ FitFails
    \/ OpenOutput \/ NoOutputDir \/ WriteOutput \/ AppendRow

Next ==
    \/ Work \/ Kill
    \/ \E o \in Options :
          StartRun(o) \/ \E p \in Range(Programs), f \in Files : RunByHand(o, p, f)

(* A command that was given runs on; nobody has to give one, or kill. *)
FairSpec == Init /\ [][Next]_vars /\ WF_vars(Work)

-----------------------------------------------------------------------------
Rows == Range(benchmark["repository"].rows)

(* A row in the benchmark that was asked to save its result (labels, or    *)
(* the cluster centres of scikit-learn) has it on disk, complete, unless a *)
(* later execution has begun to overwrite it, and its times were measured  *)
(* by its own execution: what is killed or fails half-way leaves no row.   *)
(* Without --output_dir the third time was never started, and what the row *)
(* shows of it is uninitialised memory.                                    *)
RowsHaveResults ==
    \A r \in Rows :
        IF r.output_dir
        THEN LET result == output[<<r.program, r.file>>]
             IN  /\ r.times = Events
                 /\ result.by > r.by \/ (result.by = r.by /\ result.complete)
        ELSE r.times = Events \ {"save_to_csv"}

(* As long as nothing has been killed, a run of run.py reports each        *)
(* executable on each file once, whatever earlier runs that ended with an  *)
(* error left behind; but for the taskflow executable, which reports       *)
(* nothing unless somebody else made its directory.  Without --append, and *)
(* started in the repository, it leaves a header and its own rows only.    *)
RunReportsAll ==
    at = "next" /\ todo = <<>> /\ killed = 0 /\ options # NoCommand
    /\ ~ options.by_hand /\ "benchmarks" \in dirs[options.cwd] /\ options.threads > 1 =>
        LET reported == {n \in DOMAIN Executions :
                            \E r \in Rows : /\ r.by = execution - Len(Executions) + n
                                            /\ <<r.program, r.file>> = Executions[n]}
            silent == DOMAIN Executions \ reported
        IN  /\ silent = {n \in DOMAIN Executions :
                            Executions[n][1] \notin dirs["repository"]}
            /\ ~ options.append /\ options.cwd = "repository" =>
                  /\ benchmark["repository"].header
                  /\ Len(benchmark["repository"].rows) = Cardinality(reported)

(* What an executable loads is the table that was saved in the file, if    *)
(* the name of the file tells the truth about its rows and columns; what   *)
(* happens if not is said by TablesSurvive.                                *)
LoaderReadsTable == at = "load" => TablesSurvive

(* run.py ends, whatever fails or is killed, as long as no file has fewer  *)
(* points than clusters are asked for.  An executable that is given no     *)
(* thread would wait for ever, too; BenchmarkAssumption excludes it.       *)
RunEnds ==
    at = "open" /\ (\A f \in Files : options.clusters <= NumRows[f]) ~> at = "idle"
=============================================================================
