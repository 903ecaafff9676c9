--------------------------- MODULE Benchmark_proofs ---------------------------
(***************************************************************************)
(* A row of the benchmark stands for a result that is on disk, and a run   *)
(* of run.py that nothing disturbs reports every executable that has a     *)
(* directory: for any numbers of data files, commands and kills, and       *)
(* whatever options the commands are given.  And what an executable loads  *)
(* is the table that was saved.                                            *)
(***************************************************************************)
EXTENDS Benchmark, SequenceTheorems, FiniteSetTheorems, WellFoundedInduction, TLAPS

Executing == at \in {"load", "fit", "save", "write", "append"}

(* What the timer of the executable has logged, for each place it is at. *)
TimedInv ==
    /\ at = "load" => timed = {}
    /\ at = "fit" => timed = {"load_from_csv"}
    /\ at \in {"save", "write"} => options.output_dir /\ timed = Events \ {"save_to_csv"}
    /\ at = "append" => timed = IF options.output_dir THEN Events ELSE Events \ {"save_to_csv"}

(* The result is the one that the execution under way has saved. *)
OutputInv ==
    /\ at = "write" => output[<<program, file>>].by = execution
    /\ at = "append" /\ options.output_dir =>
          output[<<program, file>>].by = execution /\ output[<<program, file>>].complete

(* Rows are older than the execution under way. *)
AgeInv ==
    /\ \A r \in Rows : r.by <= execution
    /\ Executing => \A r \in Rows : r.by < execution

ProgressInv ==
    /\ Executing => todo # <<>>
    /\ at # "idle" => options \in Options

IInv == TypeOK /\ TimedInv /\ OutputInv /\ AgeInv /\ ProgressInv /\ RowsHaveResults

-----------------------------------------------------------------------------
LEMMA Quotient ==
    ASSUME NEW k \in Nat \ {0}, NEW n \in 1 .. 4 * k
    PROVE  (n - 1) \div k + 1 \in 1 .. 4 /\ ((n - 1) % k) + 1 \in 1 .. k
  <1> DEFINE q == (n - 1) \div k
             r == (n - 1) % k
  <1>1. q \in Int /\ r \in 0 .. k - 1 /\ n - 1 = k * q + r
    OBVIOUS
  <1> HIDE DEF q, r
  <1>2. q >= 0
    <2> SUFFICES ASSUME q <= -1 PROVE FALSE
      BY <1>1
    <2>1. k * q <= k * (-1)
      BY <1>1
    <2> QED BY <1>1, <2>1
  <1>3. q <= 3
    <2> SUFFICES ASSUME q >= 4 PROVE FALSE
      BY <1>1
    <2>1. k * q >= k * 4
      BY <1>1
    <2> QED BY <1>1, <2>1
  <1>4. q + 1 \in 1 .. 4 /\ r + 1 \in 1 .. k
    BY <1>1, <1>2, <1>3
  <1> QED BY <1>4 DEF q, r

LEMMA ProgramsFacts ==
    /\ Len(Programs) = 4 /\ DOMAIN Programs = 1 .. 4
    /\ \A i \in 1 .. 4 : Programs[i] \in Range(Programs)
  <1>1. Len(Programs) = 4 /\ DOMAIN Programs = 1 .. 4
    BY DEF Programs
  <1> QED BY <1>1 DEF Range

LEMMA ExecutionsType == Executions \in Seq(Range(Programs) \X Files)
  <1>1. Len(Programs) * NumFiles \in Nat /\ Len(Programs) * NumFiles = 4 * NumFiles
    BY ProgramsFacts, BenchmarkAssumption
  <1>2. ASSUME NEW n \in 1 .. Len(Programs) * NumFiles
        PROVE  <<Programs[(n - 1) \div NumFiles + 1], ((n - 1) % NumFiles) + 1>>
                  \in Range(Programs) \X Files
    <2>1. NumFiles \in Nat \ {0} /\ n \in 1 .. 4 * NumFiles
      BY <1>1, BenchmarkAssumption
    <2>2. (n - 1) \div NumFiles + 1 \in 1 .. 4 /\ ((n - 1) % NumFiles) + 1 \in 1 .. NumFiles
      BY <2>1, Quotient
    <2> QED BY <2>2, ProgramsFacts DEF Files
  <1>3. Executions \in [1 .. Len(Programs) * NumFiles -> Range(Programs) \X Files]
    BY <1>2 DEF Executions
  <1> QED BY <1>1, <1>3

LEMMA TodoFacts ==
    ASSUME TypeOK, todo # <<>>
    PROVE  /\ Head(todo) \in Range(Programs) \X Files
           /\ program \in Range(Programs) /\ file \in Files
           /\ Tail(todo) \in Seq(Range(Programs) \X Files)
  <1>1. todo \in Seq(Range(Programs) \X Files) /\ todo # <<>>
    BY DEF TypeOK
  <1>2. Head(todo) \in Range(Programs) \X Files /\ Tail(todo) \in Seq(Range(Programs) \X Files)
    BY <1>1, HeadTailProperties
  <1> QED BY <1>2 DEF program, file

LEMMA RowsFacts ==
    ASSUME TypeOK
    PROVE  /\ benchmark["repository"] \in [header : BOOLEAN, rows : Seq(Row)]
           /\ Rows \subseteq Row
  <1>1. benchmark["repository"] \in [header : BOOLEAN, rows : Seq(Row)]
    BY DEF TypeOK, Trees
  <1>2. benchmark["repository"].rows \in Seq(Row)
    BY <1>1
  <1>3. \A i \in DOMAIN benchmark["repository"].rows : benchmark["repository"].rows[i] \in Row
    BY <1>2
  <1> QED BY <1>1, <1>3 DEF Rows, Range

LEMMA ThisRowType ==
    ASSUME TypeOK, ProgressInv, at = "append"
    PROVE  ThisRow \in Row
  <1>1. todo # <<>> /\ options \in Options
    BY DEF ProgressInv, Executing
  <1>2. program \in Range(Programs) /\ file \in Files
    BY <1>1, TodoFacts
  <1>3. execution \in Nat /\ timed \in SUBSET Events
    BY DEF TypeOK
  <1>4. options.output_dir \in BOOLEAN
    BY <1>1 DEF Options
  <1> QED BY <1>2, <1>3, <1>4 DEF ThisRow, Row

LEMMA StepType == TypeOK /\ ProgressInv /\ [Next]_vars => TypeOK'
  <1> SUFFICES ASSUME TypeOK, ProgressInv, [Next]_vars PROVE TypeOK'
    OBVIOUS
  <1> USE DEF TypeOK
  <1>1. ASSUME NEW o \in Options, StartRun(o) PROVE TypeOK'
    <2>1. dirs' \in [Trees -> SUBSET (DirsToMake \cup {"taskflow_cpu"})]
      BY <1>1 DEF StartRun, Options
    <2>2. runs' \in 0 .. MaxRuns
      BY <1>1, BenchmarkAssumption DEF StartRun
    <2> QED BY <1>1, <2>1, <2>2 DEF StartRun
  <1>2. ASSUME NEW o \in Options, NEW p \in Range(Programs), NEW f \in Files, RunByHand(o, p, f)
        PROVE  TypeOK'
    <2>1. todo' \in Seq(Range(Programs) \X Files)
      BY <1>2 DEF RunByHand
    <2>2. runs' \in 0 .. MaxRuns
      BY <1>2, BenchmarkAssumption DEF RunByHand
    <2> QED BY <1>2, <2>1, <2>2 DEF RunByHand, files
  <1>3. CASE OpenBenchmark
    <2>1. <<>> \in Seq(Row)
      OBVIOUS
    <2>2. options.cwd \in Trees
      BY <1>3 DEF OpenBenchmark, ProgressInv, Options
    <2>3. benchmark' \in [Trees -> [header : BOOLEAN, rows : Seq(Row)]]
      <3>1. [header |-> TRUE, rows |-> <<>>] \in [header : BOOLEAN, rows : Seq(Row)]
        BY <2>1
      <3>2. \/ UNCHANGED benchmark
            \/ benchmark' = [benchmark EXCEPT ![options.cwd] = [header |-> TRUE, rows |-> <<>>]]
        BY <1>3 DEF OpenBenchmark
      <3>3. benchmark \in [Trees -> [header : BOOLEAN, rows : Seq(Row)]]
        OBVIOUS
      <3> QED BY <2>2, <3>1, <3>2, <3>3
    <2> QED BY <1>3, <2>3, ExecutionsType DEF OpenBenchmark
  <1>4. CASE OpenFails \/ EndRun
    BY <1>4 DEF OpenFails, EndRun, files
  <1>5. CASE Execute
    BY <1>5 DEF Execute, files
  <1>6. CASE Load
    BY <1>6 DEF Load, files, Events
  <1>7. CASE Fit
    BY <1>7 DEF Fit, files, Events
  <1>8. ASSUME Die, Executing PROVE /\ UNCHANGED <<dirs, benchmark, output, options, execution,
                                                   timed, runs>>
                                    /\ at' = "next" /\ todo' = Tail(todo)
                                    /\ todo' \in Seq(Range(Programs) \X Files)
    BY <1>8, TodoFacts DEF Die, Leave, ProgressInv, files
  <1>9. CASE FitFails \/ NoOutputDir
    BY <1>8, <1>9 DEF FitFails, NoOutputDir, Executing
  <1>10. CASE Kill
    <2>1. killed' \in 0 .. MaxKilled
      BY <1>10, BenchmarkAssumption DEF Kill
    <2> QED BY <1>8, <1>10, <2>1 DEF Kill, Executing
  <1>11. CASE OpenOutput
    <2>1. output' \in [Range(Programs) \X Files -> [by : Nat, complete : BOOLEAN]]
      BY <1>11 DEF OpenOutput
    <2> QED BY <1>11, <2>1 DEF OpenOutput
  <1>12. CASE WriteOutput
    <2>1. output' \in [Range(Programs) \X Files -> [by : Nat, complete : BOOLEAN]]
      BY <1>12 DEF WriteOutput
    <2> QED BY <1>12, <2>1 DEF WriteOutput, Events
  <1>13. CASE AppendRow
    <2>1. ThisRow \in Row
      BY <1>13, ThisRowType DEF AppendRow
    <2>2. benchmark["repository"] \in [header : BOOLEAN, rows : Seq(Row)]
      BY RowsFacts
    <2>3. Append(benchmark["repository"].rows, ThisRow) \in Seq(Row)
      BY <2>1, <2>2, AppendProperties
    <2>4. benchmark' \in [Trees -> [header : BOOLEAN, rows : Seq(Row)]]
      BY <1>13, <2>3 DEF AppendRow
    <2>5. Tail(todo) \in Seq(Range(Programs) \X Files)
      BY <1>13, TodoFacts DEF AppendRow, ProgressInv, Executing
    <2> QED BY <1>13, <2>4, <2>5 DEF AppendRow, Leave
  <1>14. CASE UNCHANGED vars
    BY <1>14 DEF vars, files
  <1> QED BY <1>1, <1>2, <1>3, <1>4, <1>5, <1>6, <1>7, <1>9, <1>10, <1>11, <1>12, <1>13, <1>14
          DEF Next, Work

-----------------------------------------------------------------------------
(* Where neither the benchmark nor an output changes, its rows keep what   *)
(* they stand for.                                                         *)
LEMMA RowsStay ==
    ASSUME IInv, UNCHANGED <<benchmark, output, execution>>
    PROVE  /\ RowsHaveResults' /\ Rows' = Rows
           /\ \A r \in Rows' : r.by <= execution'
           /\ Executing => \A r \in Rows' : r.by < execution'
  BY DEF IInv, RowsHaveResults, Rows, AgeInv

LEMMA Leaving ==
    ASSUME IInv, Leave, UNCHANGED <<benchmark, output, execution, options>>, Executing
    PROVE  (TimedInv /\ OutputInv /\ AgeInv /\ ProgressInv /\ RowsHaveResults)'
  <1>1. at' = "next"
    BY DEF Leave
  <1>2. TimedInv' /\ OutputInv'
    BY <1>1 DEF TimedInv, OutputInv
  <1>3. AgeInv' /\ RowsHaveResults'
    BY <1>1, RowsStay DEF AgeInv, Executing
  <1>4. at # "idle"
    BY DEF Executing
  <1>5. ProgressInv'
    BY <1>1, <1>4 DEF IInv, ProgressInv, Executing
  <1> QED BY <1>2, <1>3, <1>5

LEMMA StepCommands ==
    ASSUME IInv,
           \/ \E o \in Options : \/ StartRun(o)
                                 \/ \E p \in Range(Programs), f \in Files : RunByHand(o, p, f)
           \/ OpenFails \/ EndRun
    PROVE  (TimedInv /\ OutputInv /\ AgeInv /\ ProgressInv /\ RowsHaveResults)'
  <1>1. /\ UNCHANGED <<benchmark, output, execution>> /\ at' \in {"open", "next", "idle"}
        /\ at' # "idle" => options' \in Options
    BY DEF StartRun, RunByHand, OpenFails, EndRun, files, IInv, ProgressInv
  <1>2. TimedInv' /\ OutputInv'
    BY <1>1 DEF TimedInv, OutputInv
  <1>3. AgeInv' /\ RowsHaveResults'
    BY <1>1, RowsStay DEF AgeInv, Executing
  <1>4. ProgressInv'
    BY <1>1 DEF ProgressInv, Executing
  <1> QED BY <1>2, <1>3, <1>4

(* A benchmark that is opened anew has no rows. *)
LEMMA StepOpen ==
    ASSUME IInv, OpenBenchmark
    PROVE  (TimedInv /\ OutputInv /\ AgeInv /\ ProgressInv /\ RowsHaveResults)'
  <1>1. /\ at' = "next" /\ UNCHANGED <<output, execution, options>> /\ at = "open"
        /\ \/ UNCHANGED benchmark
           \/ benchmark' = [benchmark EXCEPT ![options.cwd] = [header |-> TRUE, rows |-> <<>>]]
    BY DEF OpenBenchmark
  <1>2. Rows' \subseteq Rows
    <2>1. CASE UNCHANGED benchmark
      BY <2>1 DEF Rows
    <2>2. CASE benchmark' = [benchmark EXCEPT ![options.cwd] = [header |-> TRUE, rows |-> <<>>]]
      <3>1. benchmark \in [Trees -> [header : BOOLEAN, rows : Seq(Row)]] /\ "repository" \in Trees
        BY DEF IInv, TypeOK, Trees
      <3>2. CASE options.cwd = "repository"
        <4>1. benchmark'["repository"] = [header |-> TRUE, rows |-> <<>>]
          BY <2>2, <3>1, <3>2
        <4>2. benchmark'["repository"].rows = <<>>
          BY <4>1
        <4>3. Range(<<>>) = {}
          BY DEF Range
        <4> QED BY <4>2, <4>3 DEF Rows
      <3>3. CASE options.cwd # "repository"
        <4>1. benchmark'["repository"] = benchmark["repository"]
          BY <2>2, <3>1, <3>3
        <4> QED BY <4>1 DEF Rows
      <3> QED BY <3>2, <3>3
    <2> QED BY <1>1, <2>1, <2>2
  <1>3. TimedInv' /\ OutputInv'
    BY <1>1 DEF TimedInv, OutputInv
  <1>4. RowsHaveResults'
    BY <1>1, <1>2 DEF IInv, RowsHaveResults
  <1>5. AgeInv'
    BY <1>1, <1>2 DEF IInv, AgeInv, Executing
  <1>6. ProgressInv'
    BY <1>1 DEF IInv, ProgressInv, Executing
  <1> QED BY <1>3, <1>4, <1>5, <1>6

LEMMA StepExecute ==
    ASSUME IInv, Execute
    PROVE  (TimedInv /\ OutputInv /\ AgeInv /\ ProgressInv /\ RowsHaveResults)'
  <1>1. /\ at = "next" /\ todo # <<>> /\ at' = "load" /\ execution' = execution + 1 /\ timed' = {}
        /\ UNCHANGED <<benchmark, output, options, todo>>
    BY DEF Execute, files
  <1>2. Rows' = Rows
    BY <1>1 DEF Rows
  <1>3. TimedInv' /\ OutputInv'
    BY <1>1 DEF TimedInv, OutputInv
  <1>4. AgeInv'
    <2>1. \A r \in Rows : r.by \in Nat /\ r.by <= execution
      BY RowsFacts DEF IInv, Row, AgeInv
    <2>2. execution \in Nat
      BY DEF IInv, TypeOK
    <2> QED BY <1>1, <1>2, <2>1, <2>2 DEF AgeInv
  <1>5. RowsHaveResults'
    BY <1>1, <1>2 DEF IInv, RowsHaveResults
  <1>6. ProgressInv'
    BY <1>1 DEF IInv, ProgressInv
  <1> QED BY <1>3, <1>4, <1>5, <1>6

LEMMA StepLoadFit ==
    ASSUME IInv, Load \/ Fit
    PROVE  (TimedInv /\ OutputInv /\ AgeInv /\ ProgressInv /\ RowsHaveResults)'
  <1>1. /\ Executing /\ at' \in {"fit", "save", "append"}
        /\ UNCHANGED <<benchmark, output, execution, options, todo>>
        /\ at' = "append" => ~ options.output_dir
    BY DEF Load, Fit, files, Executing
  <1>2. AgeInv' /\ RowsHaveResults'
    BY <1>1, RowsStay DEF AgeInv
  <1>3. TimedInv'
    <2>1. CASE Load
      BY <2>1 DEF Load, IInv, TimedInv
    <2>2. CASE Fit
      <3>1. options.output_dir \in BOOLEAN
        BY <2>2 DEF Fit, IInv, ProgressInv, Options
      <3>2. timed' = {"load_from_csv", "kmeans_fit"} /\ UNCHANGED options
            /\ at' = IF options.output_dir THEN "save" ELSE "append"
        BY <2>2 DEF Fit, IInv, TimedInv
      <3>3. Events \ {"save_to_csv"} = {"load_from_csv", "kmeans_fit"}
        BY DEF Events
      <3> QED BY <3>1, <3>2, <3>3 DEF TimedInv
    <2> QED BY <2>1, <2>2
  <1>4. OutputInv'
    BY <1>1 DEF OutputInv
  <1>5. ProgressInv'
    BY <1>1 DEF IInv, ProgressInv, Executing
  <1> QED BY <1>2, <1>3, <1>4, <1>5

(* Rows of the execution that is overwritten are older than this one. *)
LEMMA StepOpenOutput ==
    ASSUME IInv, OpenOutput
    PROVE  (TimedInv /\ OutputInv /\ AgeInv /\ ProgressInv /\ RowsHaveResults)'
  <1>1. /\ at = "save" /\ at' = "write" /\ Executing
        /\ output' = [output EXCEPT ![<<program, file>>] = [by |-> execution, complete |-> FALSE]]
        /\ UNCHANGED <<benchmark, options, todo, execution, timed>>
    BY DEF OpenOutput, Executing
  <1>2. program \in Range(Programs) /\ file \in Files /\ todo # <<>>
    BY <1>1, TodoFacts DEF IInv, ProgressInv
  <1>3. Rows' = Rows /\ Rows \subseteq Row /\ \A r \in Rows : r.by < execution
    BY <1>1, RowsFacts DEF IInv, Rows, AgeInv
  <1>4. /\ output \in [Range(Programs) \X Files -> [by : Nat, complete : BOOLEAN]]
        /\ execution \in Nat
    BY DEF IInv, TypeOK
  <1>5. TimedInv'
    BY <1>1 DEF IInv, TimedInv
  <1>6. OutputInv'
    <2>1. output'[<<program, file>>].by = execution
      BY <1>1, <1>2, <1>4
    <2> QED BY <1>1, <2>1 DEF OutputInv, program, file
  <1>7. AgeInv'
    BY <1>1, <1>3 DEF IInv, AgeInv
  <1>8. ProgressInv'
    BY <1>1, <1>2 DEF IInv, ProgressInv
  <1>9. RowsHaveResults'
    <2>1. ASSUME NEW r \in Rows, r.output_dir
          PROVE  /\ r.times = Events
                 /\ \/ output'[<<r.program, r.file>>].by > r.by
                    \/ output'[<<r.program, r.file>>].by = r.by /\ output'[<<r.program, r.file>>].complete
      <3>1. r.program \in Range(Programs) /\ r.file \in Files /\ r.by \in Nat
        BY <1>3 DEF Row
      <3>2. CASE <<r.program, r.file>> = <<program, file>>
        <4>1. output'[<<r.program, r.file>>] = [by |-> execution, complete |-> FALSE]
          BY <1>1, <1>2, <1>4, <3>2
        <4> QED BY <1>3, <1>4, <2>1, <3>1, <4>1 DEF IInv, RowsHaveResults
      <3>3. CASE <<r.program, r.file>> # <<program, file>>
        <4>1. output'[<<r.program, r.file>>] = output[<<r.program, r.file>>]
          BY <1>1, <1>4, <3>1, <3>3
        <4> QED BY <2>1, <4>1 DEF IInv, RowsHaveResults
      <3> QED BY <3>2, <3>3
    <2>2. \A r \in Rows : ~ r.output_dir => r.times = Events \ {"save_to_csv"}
      BY DEF IInv, RowsHaveResults
    <2> QED BY <1>3, <2>1, <2>2 DEF RowsHaveResults
  <1> QED BY <1>5, <1>6, <1>7, <1>8, <1>9

LEMMA StepWriteOutput ==
    ASSUME IInv, WriteOutput
    PROVE  (TimedInv /\ OutputInv /\ AgeInv /\ ProgressInv /\ RowsHaveResults)'
  <1>1. /\ at = "write" /\ at' = "append" /\ Executing
        /\ output' = [output EXCEPT ![<<program, file>>].complete = TRUE]
        /\ timed' = timed \cup {"save_to_csv"}
        /\ UNCHANGED <<benchmark, options, todo, execution>>
    BY DEF WriteOutput, Executing
  <1>2. program \in Range(Programs) /\ file \in Files /\ todo # <<>>
    BY <1>1, TodoFacts DEF IInv, ProgressInv
  <1>3. Rows' = Rows /\ Rows \subseteq Row
    BY <1>1, RowsFacts DEF IInv, Rows
  <1>4. /\ output \in [Range(Programs) \X Files -> [by : Nat, complete : BOOLEAN]]
        /\ output[<<program, file>>].by = execution
    BY <1>1 DEF IInv, TypeOK, OutputInv
  <1>5. TimedInv'
    <2>1. options.output_dir /\ timed = Events \ {"save_to_csv"}
      BY <1>1 DEF IInv, TimedInv
    <2>2. timed' = Events
      BY <1>1, <2>1 DEF Events
    <2> QED BY <1>1, <2>1, <2>2 DEF TimedInv
  <1>6. \A p \in Range(Programs), f \in Files :
           /\ output'[<<p, f>>].by = output[<<p, f>>].by
           /\ output[<<p, f>>].complete => output'[<<p, f>>].complete
    BY <1>1, <1>4
  <1>7. OutputInv'
    <2>1. output'[<<program, file>>].complete
      BY <1>1, <1>2, <1>4
    <2>2. output'[<<program, file>>].by = execution
      BY <1>2, <1>4, <1>6
    <2> QED BY <1>1, <2>1, <2>2 DEF OutputInv, program, file
  <1>8. AgeInv'
    BY <1>1, <1>3 DEF IInv, AgeInv, Executing
  <1>9. ProgressInv'
    BY <1>1, <1>2 DEF IInv, ProgressInv
  <1>10. RowsHaveResults'
    <2>1. \A r \in Rows : r.program \in Range(Programs) /\ r.file \in Files
      BY <1>3 DEF Row
    <2> QED BY <1>3, <1>6, <2>1 DEF IInv, RowsHaveResults
  <1> QED BY <1>5, <1>7, <1>8, <1>9, <1>10

LEMMA RowAdded ==
    ASSUME IInv, at = "append",
           benchmark' = [benchmark EXCEPT !["repository"].rows = Append(@, ThisRow)]
    PROVE  Rows' = Rows \cup {ThisRow}
  <1> DEFINE s == benchmark["repository"].rows
  <1>1. s \in Seq(Row) /\ benchmark \in [Trees -> [header : BOOLEAN, rows : Seq(Row)]]
        /\ "repository" \in Trees
    BY RowsFacts DEF IInv, TypeOK, Trees
  <1>2. benchmark'["repository"].rows = Append(s, ThisRow)
    BY <1>1
  <1>r. ThisRow \in Row
    BY ThisRowType DEF IInv
  <1> HIDE DEF s
  <1>3. /\ DOMAIN Append(s, ThisRow) = 1 .. Len(s) + 1 /\ DOMAIN s = 1 .. Len(s)
        /\ Len(s) \in Nat
        /\ \A i \in 1 .. Len(s) : Append(s, ThisRow)[i] = s[i]
        /\ Append(s, ThisRow)[Len(s) + 1] = ThisRow
    BY <1>1, <1>r DEF s
  <1>4. Range(Append(s, ThisRow)) = Range(s) \cup {ThisRow}
    BY <1>3 DEF Range
  <1> QED BY <1>2, <1>4 DEF Rows, s

(* The row comes last: whatever died before has left none. *)
LEMMA StepAppendRow ==
    ASSUME IInv, AppendRow
    PROVE  (TimedInv /\ OutputInv /\ AgeInv /\ ProgressInv /\ RowsHaveResults)'
  <1>1. /\ at = "append" /\ at' = "next" /\ Executing
        /\ benchmark' = [benchmark EXCEPT !["repository"].rows = Append(@, ThisRow)]
        /\ UNCHANGED <<output, options, execution>>
    BY DEF AppendRow, Executing, Leave
  <1>2. ThisRow \in Row
    BY <1>1, ThisRowType DEF IInv
  <1>3. Rows' = Rows \cup {ThisRow}
    BY <1>1, RowAdded
  <1>4. /\ ThisRow.by = execution /\ ThisRow.program = program /\ ThisRow.file = file
        /\ ThisRow.times = timed /\ ThisRow.output_dir = options.output_dir
    BY DEF ThisRow
  <1>5. TimedInv' /\ OutputInv'
    BY <1>1 DEF TimedInv, OutputInv
  <1>6. AgeInv'
    <2>1. execution \in Nat
      BY DEF IInv, TypeOK
    <2> QED BY <1>1, <1>3, <1>4, <2>1 DEF IInv, AgeInv, Executing
  <1>7. ProgressInv'
    BY <1>1 DEF IInv, ProgressInv, Executing
  <1>8. RowsHaveResults'
    <2>1. IF options.output_dir
          THEN /\ timed = Events /\ output[<<program, file>>].by = execution
               /\ output[<<program, file>>].complete
          ELSE timed = Events \ {"save_to_csv"}
      BY <1>1 DEF IInv, TimedInv, OutputInv
    <2>2. IF ThisRow.output_dir
          THEN LET result == output[<<ThisRow.program, ThisRow.file>>]
               IN  /\ ThisRow.times = Events
                   /\ result.by > ThisRow.by \/ (result.by = ThisRow.by /\ result.complete)
          ELSE ThisRow.times = Events \ {"save_to_csv"}
      BY <1>4, <2>1
    <2> QED BY <1>1, <1>3, <2>2 DEF IInv, RowsHaveResults
  <1> QED BY <1>5, <1>6, <1>7, <1>8

-----------------------------------------------------------------------------
LEMMA Initially == Init => IInv
  <1> SUFFICES ASSUME Init PROVE IInv
    OBVIOUS
  <1>1. TypeOK
    <2>1. dirs \in [Trees -> SUBSET (DirsToMake \cup {"taskflow_cpu"})]
      <3>1. PICK made \in SUBSET {"taskflow_cpu"} :
               dirs = [repository |-> DirsToMake \cup made, elsewhere |-> {}]
        BY DEF Init
      <3> DEFINE D == SUBSET (DirsToMake \cup {"taskflow_cpu"})
      <3>2. DirsToMake \cup made \in D /\ {} \in D
        OBVIOUS
      <3> HIDE DEF D
      <3>3. dirs \in [{"repository", "elsewhere"} -> D]
        BY <3>1, <3>2
      <3> QED BY <3>3 DEF Trees, D
    <2>2. benchmark \in [Trees -> [header : BOOLEAN, rows : Seq(Row)]]
      BY DEF Init
    <2>3. output \in [Range(Programs) \X Files -> [by : Nat, complete : BOOLEAN]]
      BY DEF Init, NoResult
    <2>4. runs \in 0 .. MaxRuns /\ killed \in 0 .. MaxKilled
      BY BenchmarkAssumption DEF Init
    <2>5. todo \in Seq(Range(Programs) \X Files) /\ timed \subseteq Events
      BY DEF Init
    <2>6. /\ execution \in Nat /\ options \in Options \cup {NoCommand}
          /\ at \in {"idle", "open", "next", "load", "fit", "save", "write", "append"}
      BY DEF Init
    <2> QED BY <2>1, <2>2, <2>3, <2>4, <2>5, <2>6 DEF TypeOK
  <1>2. Rows = {}
    BY DEF Rows, Range, Init, Trees
  <1> QED BY <1>1, <1>2 DEF IInv, TimedInv, OutputInv, AgeInv, ProgressInv, RowsHaveResults,
                            Executing, Init

LEMMA Inductive == FairSpec => []IInv
  <1>1. Init => IInv
    BY Initially
  <1>2. IInv /\ [Next]_vars => IInv'
    <2> SUFFICES ASSUME IInv, [Next]_vars
                 PROVE  (TimedInv /\ OutputInv /\ AgeInv /\ ProgressInv /\ RowsHaveResults)'
      BY StepType DEF IInv
    <2>1. CASE \/ \E o \in Options :
                     \/ StartRun(o)
                     \/ \E p \in Range(Programs), f \in Files : RunByHand(o, p, f)
               \/ OpenFails \/ EndRun
      BY <2>1, StepCommands
    <2>2. CASE OpenBenchmark
      BY <2>2, StepOpen
    <2>3. CASE Execute
      BY <2>3, StepExecute
    <2>4. CASE Load \/ Fit
      BY <2>4, StepLoadFit
    <2>5. CASE FitFails \/ NoOutputDir \/ Kill
      <3>1. Die /\ Executing
        BY <2>5 DEF FitFails, NoOutputDir, Kill, Executing
      <3> QED BY <3>1, Leaving DEF Die, files
    <2>6. CASE OpenOutput
      BY <2>6, StepOpenOutput
    <2>7. CASE WriteOutput
      BY <2>7, StepWriteOutput
    <2>8. CASE AppendRow
      BY <2>8, StepAppendRow
    <2>9. CASE UNCHANGED vars
      <3>1. UNCHANGED <<benchmark, output, at, options, todo, execution, timed>>
        BY <2>9 DEF vars, files
      <3> QED BY <3>1 DEF IInv, TimedInv, OutputInv, AgeInv, ProgressInv, RowsHaveResults,
                          Executing, Rows, program, file
    <2> QED BY <2>1, <2>2, <2>3, <2>4, <2>5, <2>6, <2>7, <2>8, <2>9 DEF Next, Work
  <1> QED BY <1>1, <1>2, PTL DEF FairSpec

-----------------------------------------------------------------------------
(* A run of run.py that nothing disturbs, from when the benchmark is open. *)
Undisturbed ==
    /\ killed = 0 /\ at \notin {"idle", "open"}
    /\ ~ options.by_hand /\ "benchmarks" \in dirs[options.cwd] /\ options.threads > 1

(* The executions of the run that are over, and the number of the one      *)
(* before its first.                                                       *)
Past == Len(Executions) - Len(todo)
Base == execution - Past - IF Executing THEN 1 ELSE 0

HasDir(n) == Executions[n][1] \in dirs["repository"]
Reported(n) == \E r \in Rows : r.by = Base + n /\ <<r.program, r.file>> = Executions[n]

(* What run.py itself starts is asked to save its labels. *)
SaveInv == at # "idle" /\ ~ options.by_hand => options.output_dir

(* The executions that are over have passed their fit, for the first       *)
(* program on a file that has too few points never ends, and have left a   *)
(* row if they had a directory.                                            *)
PastInv ==
    /\ Len(todo) <= Len(Executions)
    /\ \A i \in 1 .. Len(todo) : todo[i] = Executions[Past + i]
    /\ \A n \in 1 .. Past : Reported(n) <=> HasDir(n)
    /\ \A n \in 1 .. Past : options.clusters <= NumRows[Executions[n][2]]
    /\ ~ options.append /\ options.cwd = "repository" =>
          /\ benchmark["repository"].header
          /\ Len(benchmark["repository"].rows) = Cardinality({n \in 1 .. Past : HasDir(n)})

(* The one under way has passed its fit, and has a directory once its      *)
(* output is open.                                                         *)
NowInv ==
    /\ at \in {"save", "write", "append"} => options.clusters <= NumRows[file]
    /\ at \in {"write", "append"} => program \in dirs["repository"]

RunInv == SaveInv /\ (Undisturbed => PastInv /\ NowInv)

-----------------------------------------------------------------------------
LEMMA ExecutionsFacts ==
    /\ Executions \in Seq(Range(Programs) \X Files)
    /\ Len(Executions) \in Nat /\ DOMAIN Executions = 1 .. Len(Executions)
    /\ \A n \in 1 .. Len(Executions) :
          /\ Executions[n][1] \in Range(Programs) /\ Executions[n][2] \in Files
          /\ Executions[n][1] = "python_sklearn" =>
                \E j \in 1 .. n - 1 : Executions[j][2] = Executions[n][2]
  <1>1. Executions \in Seq(Range(Programs) \X Files)
    BY ExecutionsType
  <1>2. Len(Executions) \in Nat /\ DOMAIN Executions = 1 .. Len(Executions)
    BY <1>1
  <1>3. Len(Executions) = 4 * NumFiles
    <2>1. DOMAIN Executions = 1 .. 4 * NumFiles /\ 4 * NumFiles \in Nat
      BY ProgramsFacts, BenchmarkAssumption DEF Executions
    <2> QED BY <1>1, <2>1, LenProperties
  <1>4. ASSUME NEW n \in 1 .. Len(Executions)
        PROVE  /\ Executions[n][1] \in Range(Programs) /\ Executions[n][2] \in Files
               /\ Executions[n][1] = "python_sklearn" =>
                     \E j \in 1 .. n - 1 : Executions[j][2] = Executions[n][2]
    <2>1. Executions[n] \in Range(Programs) \X Files
      BY <1>1, <1>2
    <2>2. NumFiles \in Nat \ {0} /\ n \in 1 .. 4 * NumFiles
      BY <1>3, BenchmarkAssumption
    <2>3. \A i \in 1 .. 4 * NumFiles :
             Executions[i] = <<Programs[(i - 1) \div NumFiles + 1], ((i - 1) % NumFiles) + 1>>
      BY ProgramsFacts, BenchmarkAssumption DEF Executions
    <2>4. ASSUME Executions[n][1] = "python_sklearn"
          PROVE  \E j \in 1 .. n - 1 : Executions[j][2] = Executions[n][2]
      <3> DEFINE f == ((n - 1) % NumFiles) + 1
      <3>1. f \in 1 .. NumFiles
        BY <2>2, Quotient
      <3>2. Executions[n][2] = f /\ Executions[n][1] = Programs[(n - 1) \div NumFiles + 1]
        <4>1. Executions[n] = <<Programs[(n - 1) \div NumFiles + 1], f>>
          BY <2>2, <2>3
        <4> HIDE DEF f
        <4> QED BY <4>1
      <3>3. \A i \in 1 .. NumFiles : (i - 1) \div NumFiles = 0 /\ (i - 1) % NumFiles = i - 1
        BY <2>2
      <3>4. Programs[1] # "python_sklearn"
        BY DEF Programs
      <3>5. ~ (n <= NumFiles)
        BY <2>2, <2>4, <3>2, <3>3, <3>4
      <3> HIDE DEF f
      <3>6. f \in 1 .. n - 1 /\ f \in 1 .. 4 * NumFiles
        BY <2>2, <3>1, <3>5
      <3>7. Executions[f][2] = f
        BY <2>3, <3>1, <3>3, <3>6
      <3> QED BY <3>2, <3>6, <3>7
    <2> QED BY <2>1, <2>4
  <1> QED BY <1>1, <1>2, <1>4

LEMMA PastFacts ==
    ASSUME TypeOK, Len(todo) <= Len(Executions)
    PROVE  /\ Past \in Nat /\ Past <= Len(Executions) /\ Base \in Int
           /\ todo \in Seq(Range(Programs) \X Files) /\ Len(todo) \in Nat
           /\ 1 .. Past \subseteq 1 .. Len(Executions)
  <1>1. todo \in Seq(Range(Programs) \X Files) /\ Len(todo) \in Nat /\ execution \in Nat
    BY DEF TypeOK
  <1>2. Past \in Nat /\ Past <= Len(Executions)
    BY <1>1, ExecutionsFacts DEF Past
  <1> QED BY <1>1, <1>2, ExecutionsFacts DEF Base

(* A step that neither starts nor ends an execution, nor writes a row. *)
LEMMA PastStays ==
    ASSUME PastInv, UNCHANGED <<benchmark, dirs, options, todo>>, Base' = Base
    PROVE  PastInv'
  <1>1. Past' = Past /\ Executions' = Executions
    BY DEF Past, Executions, Programs
  <1>2. \A n : (HasDir(n)' <=> HasDir(n)) /\ (Reported(n)' <=> Reported(n))
    BY DEF HasDir, Reported, Executions, Programs, Rows
  <1>3. {n \in 1 .. Past' : HasDir(n)'} = {n \in 1 .. Past : HasDir(n)}
    BY <1>1, <1>2
  <1> QED BY <1>1, <1>2, <1>3 DEF PastInv

(* The execution under way is the next of the list, and is over when       *)
(* run.py goes on.                                                         *)
LEMMA Advance ==
    ASSUME IInv, PastInv, Executing, Leave, UNCHANGED execution
    PROVE  /\ Past' = Past + 1 /\ Past \in Nat /\ Base' = Base /\ execution = Base + Past + 1
           /\ Base \in Int /\ Past + 1 \in 1 .. Len(Executions)
           /\ Executions[Past + 1] = <<program, file>>
           /\ Len(todo') <= Len(Executions)
           /\ \A i \in 1 .. Len(todo') : todo'[i] = Executions[Past' + i]
  <1>1. /\ todo # <<>> /\ todo' = Tail(todo) /\ at' = "next" /\ TypeOK
        /\ execution \in Nat
    BY DEF IInv, ProgressInv, TypeOK, Leave
  <1>2. /\ Past \in Nat /\ Past <= Len(Executions) /\ Base \in Int
        /\ todo \in Seq(Range(Programs) \X Files) /\ Len(todo) \in Nat
    BY <1>1, PastFacts DEF PastInv
  <1>3. /\ Len(todo) > 0 /\ Head(todo) = todo[1]
        /\ Len(Tail(todo)) = Len(todo) - 1
        /\ \A i \in 1 .. Len(Tail(todo)) : Tail(todo)[i] = todo[i + 1]
    <2>1. Len(todo) > 0
      BY <1>1, <1>2, EmptySeq
    <2> QED BY <1>1, <1>2, <2>1, HeadTailProperties
  <1>4. Past' = Past + 1
    <2>1. Past' = Len(Executions) - Len(todo')
      BY DEF Past, Executions, Programs
    <2> QED BY <1>1, <1>2, <1>3, <2>1, ExecutionsFacts DEF Past
  <1>5. Base' = Base /\ execution = Base + Past + 1
    <2>1. Base = execution - Past - 1
      BY DEF Base
    <2>2. Base' = execution - Past' - 0
      BY <1>1 DEF Base, Executing
    <2> QED BY <1>1, <1>2, <1>4, <2>1, <2>2
  <1>6. Past + 1 \in 1 .. Len(Executions)
    BY <1>2, <1>3, ExecutionsFacts DEF Past
  <1>7. Executions[Past + 1] = <<program, file>>
    <2>1. Head(todo) = Executions[Past + 1]
      BY <1>2, <1>3 DEF PastInv
    <2>2. Head(todo) \in Range(Programs) \X Files
      BY <1>1, TodoFacts
    <2> QED BY <2>1, <2>2 DEF program, file
  <1>8. \A i \in 1 .. Len(todo') : todo'[i] = Executions[Past' + i]
    <2> SUFFICES ASSUME NEW i \in 1 .. Len(todo') PROVE todo'[i] = Executions[Past' + i]
      OBVIOUS
    <2>1. i + 1 \in 1 .. Len(todo) /\ todo'[i] = todo[i + 1] /\ i \in Nat
      BY <1>1, <1>2, <1>3
    <2>2. todo[i + 1] = Executions[Past + (i + 1)]
      BY <2>1 DEF PastInv
    <2>3. Past + (i + 1) = Past' + i
      BY <1>2, <1>4, <2>1
    <2> QED BY <2>1, <2>2, <2>3
  <1>9. Len(todo') <= Len(Executions)
    BY <1>1, <1>2, <1>3, ExecutionsFacts DEF PastInv
  <1> QED BY <1>2, <1>4, <1>5, <1>6, <1>7, <1>8, <1>9

-----------------------------------------------------------------------------
LEMMA Disturbed ==
    ASSUME SaveInv', ~ Undisturbed' PROVE RunInv'
  BY DEF RunInv

LEMMA StepRunCommands ==
    ASSUME IInv, RunInv,
           \/ \E o \in Options : \/ StartRun(o)
                                 \/ \E p \in Range(Programs), f \in Files : RunByHand(o, p, f)
           \/ OpenFails \/ EndRun \/ Kill
    PROVE  RunInv'
  <1>1. ASSUME NEW o \in Options, StartRun(o) PROVE RunInv'
    <2>1. at' = "open" /\ options' = o /\ o.output_dir
      BY <1>1 DEF StartRun
    <2> QED BY <2>1, Disturbed DEF SaveInv, Undisturbed
  <1>2. ASSUME NEW o \in Options, NEW p \in Range(Programs), NEW f \in Files, RunByHand(o, p, f)
        PROVE  RunInv'
    <2>1. o = [o EXCEPT !.by_hand = TRUE, !.append = TRUE, !.cwd = "repository",
                        !.output_path = "repository"]
      BY <1>2 DEF RunByHand
    <2>2. o.by_hand
      BY <2>1 DEF Options
    <2>3. options' = o
      BY <1>2 DEF RunByHand
    <2> QED BY <2>2, <2>3, Disturbed DEF SaveInv, Undisturbed
  <1>3. CASE OpenFails
    <2>1. /\ "benchmarks" \notin dirs[options.cwd] /\ UNCHANGED <<dirs, options>>
          /\ at = "open" /\ at' = "next"
      BY <1>3 DEF OpenFails, files
    <2> QED BY <2>1, Disturbed DEF RunInv, SaveInv, Undisturbed
  <1>4. CASE EndRun
    BY <1>4, Disturbed DEF EndRun, SaveInv, Undisturbed
  <1>5. CASE Kill
    <2>1. killed' = killed + 1 /\ killed \in Nat /\ UNCHANGED options /\ at # "idle"
      BY <1>5 DEF Kill, Die, IInv, TypeOK
    <2>2. killed' # 0
      BY <2>1
    <2> QED BY <2>1, <2>2, Disturbed DEF RunInv, SaveInv, Undisturbed
  <1> QED BY <1>1, <1>2, <1>3, <1>4, <1>5

LEMMA StepRunOpen == ASSUME IInv, RunInv, OpenBenchmark PROVE RunInv'
  <1>1. /\ at = "open" /\ at' = "next" /\ todo' = Executions
        /\ UNCHANGED <<dirs, options, execution>>
        /\ IF options.append THEN UNCHANGED benchmark
           ELSE benchmark' = [benchmark EXCEPT ![options.cwd] = [header |-> TRUE, rows |-> <<>>]]
    BY DEF OpenBenchmark
  <1>2. SaveInv'
    BY <1>1 DEF RunInv, SaveInv
  <1>3. Past' = 0 /\ Executions' = Executions
    <2>1. Executions' = Executions
      BY DEF Executions, Programs
    <2> QED BY <1>1, <2>1, ExecutionsFacts DEF Past
  <1>4. {n \in 1 .. Past' : HasDir(n)'} = {}
    BY <1>3
  <1>5. ASSUME ~ options.append, options.cwd = "repository"
        PROVE  /\ benchmark'["repository"].header
               /\ Len(benchmark'["repository"].rows) = Cardinality({n \in 1 .. Past' : HasDir(n)'})
    <2>1. benchmark \in [Trees -> [header : BOOLEAN, rows : Seq(Row)]] /\ "repository" \in Trees
      BY DEF IInv, TypeOK, Trees
    <2>2. benchmark'["repository"] = [header |-> TRUE, rows |-> <<>>]
      BY <1>1, <1>5, <2>1
    <2>3. Cardinality({}) = 0
      BY FS_EmptySet
    <2>4. Cardinality({n \in 1 .. Past' : HasDir(n)'}) = 0
      BY <1>4, <2>3, Zenon
    <2> QED BY <2>2, <2>4
  <1>6. PastInv'
    <2>1. Len(todo') <= Len(Executions) /\ \A i \in 1 .. Len(todo') : todo'[i] = Executions[Past' + i]
      BY <1>1, <1>3, ExecutionsFacts
    <2> QED BY <1>1, <1>3, <1>5, <2>1 DEF PastInv
  <1>7. NowInv'
    BY <1>1 DEF NowInv
  <1> QED BY <1>2, <1>6, <1>7 DEF RunInv

LEMMA StepRunExecute == ASSUME IInv, RunInv, Execute \/ Load \/ Fit PROVE RunInv'
  <1>1. /\ UNCHANGED <<dirs, benchmark, options, todo, killed>>
        /\ at \in {"next", "load", "fit"} /\ at' \in {"load", "fit", "save", "append"}
        /\ execution' = execution + IF Executing THEN 0 ELSE 1
    <2>1. execution \in Nat
      BY DEF IInv, TypeOK
    <2> QED BY <2>1 DEF Execute, Load, Fit, files, Executing
  <1>2. SaveInv'
    BY <1>1 DEF RunInv, SaveInv
  <1>3. ASSUME Undisturbed' PROVE PastInv' /\ NowInv'
    <2>1. Undisturbed
      BY <1>1, <1>3 DEF Undisturbed
    <2>2. PastInv
      BY <2>1 DEF RunInv
    <2>3. Base' = Base
      <3>1. Executing' /\ Past' = Past
        BY <1>1 DEF Executing, Past, Executions, Programs
      <3>2. Past \in Nat /\ execution \in Nat
        BY <2>2, PastFacts DEF IInv, PastInv, TypeOK
      <3>3. Base' = execution' - Past' - 1
        BY <3>1 DEF Base
      <3> QED BY <1>1, <3>1, <3>2, <3>3 DEF Base
    <2>4. PastInv'
      BY <1>1, <2>2, <2>3, PastStays
    <2>5. NowInv'
      <3>1. CASE at' \in {"load", "fit"}
        BY <3>1 DEF NowInv
      <3>2. CASE at' \in {"save", "append"}
        <4>1. Fit
          BY <3>2 DEF Execute, Load
        <4>2. at' = "save"
          BY <2>1, <4>1 DEF Fit, RunInv, SaveInv, Undisturbed
        <4>3. todo # <<>> /\ options \in Options
          BY <4>1 DEF Fit, IInv, ProgressInv, Executing
        <4>4. file \in Files
          BY <4>3, TodoFacts DEF IInv
        <4>5. options.clusters \in Nat /\ NumRows[file] \in Nat
          BY <4>3, <4>4, BenchmarkAssumption DEF Options, Files
        <4>6. options.clusters <= NumRows[file]
          BY <4>1, <4>5 DEF Fit, TooManyClusters
        <4> QED BY <1>1, <4>2, <4>6 DEF NowInv, file
      <3> QED BY <1>1, <3>1, <3>2
    <2> QED BY <2>4, <2>5
  <1> QED BY <1>2, <1>3 DEF RunInv

(* In such a run no fit fails, for with too few points the first program   *)
(* would not have ended on that file.                                      *)
LEMMA FitPasses ==
    ASSUME IInv, RunInv, Undisturbed, FitFails PROVE FALSE
  <1>1. /\ at = "fit" /\ Executing /\ Leave /\ UNCHANGED execution
        /\ IF TooManyClusters THEN program = "python_sklearn" ELSE OneThread
    BY DEF FitFails, Die, Executing
  <1>2. todo # <<>> /\ options \in Options /\ PastInv
    BY <1>1 DEF IInv, ProgressInv, RunInv
  <1>3. CASE TooManyClusters
    <2>1. /\ Past \in Nat /\ Past + 1 \in 1 .. Len(Executions)
          /\ Executions[Past + 1] = <<program, file>>
      BY <1>1, <1>2, Advance
    <2>2. Executions[Past + 1][1] = "python_sklearn" /\ Executions[Past + 1][2] = file
      BY <1>1, <1>3, <2>1
    <2>3. PICK j \in 1 .. (Past + 1) - 1 : Executions[j][2] = file
      BY <2>1, <2>2, ExecutionsFacts
    <2>4. j \in 1 .. Past
      BY <2>1
    <2>5. options.clusters <= NumRows[file]
      BY <1>2, <2>3, <2>4 DEF PastInv
    <2>6. file \in Files
      BY <1>2, TodoFacts DEF IInv
    <2>7. options.clusters \in Nat /\ NumRows[file] \in Nat
      BY <1>2, <2>6, BenchmarkAssumption DEF Options, Files
    <2> QED BY <1>3, <2>5, <2>7 DEF TooManyClusters
  <1>4. CASE ~ TooManyClusters
    BY <1>1, <1>4 DEF OneThread, Undisturbed
  <1> QED BY <1>3, <1>4

LEMMA StepRunSave == ASSUME IInv, RunInv, OpenOutput \/ WriteOutput PROVE RunInv'
  <1>1. /\ UNCHANGED <<dirs, benchmark, options, todo, execution, killed>>
        /\ at \in {"save", "write"} /\ at' \in {"write", "append"}
        /\ at = "save" => program \in dirs["repository"]
    BY DEF OpenOutput, WriteOutput
  <1>2. SaveInv'
    BY <1>1 DEF RunInv, SaveInv
  <1>3. ASSUME Undisturbed' PROVE PastInv' /\ NowInv'
    <2>1. Undisturbed
      BY <1>1, <1>3 DEF Undisturbed
    <2>2. PastInv /\ NowInv
      BY <2>1 DEF RunInv
    <2>3. Base' = Base
      BY <1>1 DEF Base, Past, Executing, Executions, Programs
    <2>4. PastInv'
      BY <1>1, <2>2, <2>3, PastStays
    <2>5. NowInv'
      BY <1>1, <2>2 DEF NowInv, program, file
    <2> QED BY <2>4, <2>5
  <1> QED BY <1>2, <1>3 DEF RunInv

LEMMA PastGrows ==
    ASSUME IInv, PastInv, Executing, Leave, UNCHANGED <<dirs, options, execution>>,
           options.clusters <= NumRows[file],
           \A n \in 1 .. Past : Reported(n)' <=> Reported(n),
           (\E r \in Rows' : r.by = execution /\ <<r.program, r.file>> = <<program, file>>)
              <=> program \in dirs["repository"],
           benchmark'["repository"].header = benchmark["repository"].header,
           Len(benchmark'["repository"].rows)
              = Len(benchmark["repository"].rows) + IF program \in dirs["repository"] THEN 1 ELSE 0
    PROVE  PastInv'
  <1>1. /\ Past' = Past + 1 /\ Past \in Nat /\ Base' = Base /\ execution = Base + Past + 1
        /\ Base \in Int /\ Past + 1 \in 1 .. Len(Executions)
        /\ Executions[Past + 1] = <<program, file>>
        /\ Len(todo') <= Len(Executions)
        /\ \A i \in 1 .. Len(todo') : todo'[i] = Executions[Past' + i]
    BY Advance
  <1>2. Executions' = Executions
    BY DEF Executions, Programs
  <1>3. \A n : HasDir(n)' <=> HasDir(n)
    BY <1>2 DEF HasDir
  <1>4. HasDir(Past + 1) <=> program \in dirs["repository"]
    BY <1>1 DEF HasDir
  <1>5. ASSUME NEW n \in 1 .. Past' PROVE Reported(n)' <=> HasDir(n)'
    <2>1. CASE n \in 1 .. Past
      BY <1>3, <2>1 DEF PastInv
    <2>2. CASE n = Past + 1
      <3>1. Base + n = execution
        BY <1>1, <2>2
      <3>2. Reported(n)' <=> \E r \in Rows' : r.by = execution
                                              /\ <<r.program, r.file>> = <<program, file>>
        BY <1>1, <1>2, <2>2, <3>1 DEF Reported
      <3> QED BY <1>3, <1>4, <2>2, <3>2
    <2> QED BY <1>1, <2>1, <2>2
  <1>6. \A n \in 1 .. Past' : options'.clusters <= NumRows[Executions[n][2]]
    <2>1. Executions[Past + 1][2] = file
      BY <1>1
    <2>2. \A n \in 1 .. Past' : n \in 1 .. Past \/ n = Past + 1
      BY <1>1
    <2> QED BY <2>1, <2>2 DEF PastInv
  <1>7. ASSUME ~ options.append, options.cwd = "repository"
        PROVE  /\ benchmark'["repository"].header
               /\ Len(benchmark'["repository"].rows) = Cardinality({n \in 1 .. Past' : HasDir(n)'})
    <2> DEFINE D == {n \in 1 .. Past : HasDir(n)}
               E == {n \in 1 .. Past' : HasDir(n)'}
    <2>1. IsFiniteSet(D) /\ Cardinality(D) \in Nat
      <3>1. IsFiniteSet(1 .. Past)
        BY <1>1, FS_Interval
      <3>2. D \in SUBSET (1 .. Past)
        OBVIOUS
      <3> QED BY <3>1, <3>2, FS_Subset, FS_CardinalityType
    <2>2. Cardinality(E) = Cardinality(D) + IF program \in dirs["repository"] THEN 1 ELSE 0
      <3>1. CASE program \in dirs["repository"]
        <4>1. E = D \cup {Past + 1} /\ Past + 1 \notin D
          BY <1>1, <1>3, <1>4, <3>1
        <4> HIDE DEF D, E
        <4>2. Cardinality(D \cup {Past + 1}) = Cardinality(D) + 1
          BY <2>1, <4>1, FS_AddElement
        <4> QED BY <3>1, <4>1, <4>2
      <3>2. CASE program \notin dirs["repository"]
        <4>1. E = D
          BY <1>1, <1>3, <1>4, <3>2
        <4> HIDE DEF D, E
        <4>2. Cardinality(E) = Cardinality(D)
          BY <4>1, Zenon
        <4> QED BY <2>1, <3>2, <4>2
      <3> QED BY <3>1, <3>2
    <2>3. benchmark["repository"].header /\ Len(benchmark["repository"].rows) = Cardinality(D)
      BY <1>7 DEF PastInv
    <2> HIDE DEF D, E
    <2>4. Len(benchmark'["repository"].rows) = Cardinality(E)
      BY <2>2, <2>3
    <2> QED BY <2>3, <2>4 DEF E
  <1> QED BY <1>1, <1>2, <1>5, <1>6, <1>7 DEF PastInv

LEMMA StepRunFails == ASSUME IInv, RunInv, FitFails \/ NoOutputDir PROVE RunInv'
  <1>1. /\ UNCHANGED <<dirs, benchmark, options, execution, killed>> /\ Leave /\ Executing
        /\ at \in {"fit", "save"} /\ at' = "next"
    BY DEF FitFails, NoOutputDir, Die, Leave, Executing, files
  <1>2. SaveInv'
    BY <1>1 DEF RunInv, SaveInv
  <1>3. ASSUME Undisturbed' PROVE PastInv' /\ NowInv'
    <2>1. Undisturbed
      BY <1>1, <1>3 DEF Undisturbed
    <2>2. PastInv /\ NowInv
      BY <2>1 DEF RunInv
    <2>3. at = "save" /\ program \notin dirs["repository"]
      BY <2>1, FitPasses DEF NoOutputDir
    <2>4. Rows' = Rows /\ \A r \in Rows : r.by < execution /\ r.by \in Nat
      BY <1>1, RowsFacts DEF IInv, AgeInv, Rows, Row
    <2>5. Base' = Base /\ execution \in Nat
      BY <1>1, <2>2, Advance DEF IInv, TypeOK
    <2>6. \A n \in 1 .. Past : Reported(n)' <=> Reported(n)
      BY <2>4, <2>5 DEF Reported, Executions, Programs
    <2>7. ~ \E r \in Rows' : r.by = execution /\ <<r.program, r.file>> = <<program, file>>
      BY <2>4, <2>5
    <2>8. Len(benchmark["repository"].rows) \in Nat
      BY RowsFacts DEF IInv
    <2>9. Len(benchmark'["repository"].rows)
             = Len(benchmark["repository"].rows) + IF program \in dirs["repository"] THEN 1 ELSE 0
      BY <1>1, <2>3, <2>8
    <2>10. options.clusters <= NumRows[file]
      BY <2>2, <2>3 DEF NowInv
    <2>11. PastInv'
      BY <1>1, <2>2, <2>3, <2>6, <2>7, <2>9, <2>10, PastGrows
    <2>12. NowInv'
      BY <1>1 DEF NowInv
    <2> QED BY <2>11, <2>12
  <1> QED BY <1>2, <1>3 DEF RunInv

LEMMA StepRunAppend == ASSUME IInv, RunInv, AppendRow PROVE RunInv'
  <1>1. /\ UNCHANGED <<dirs, options, execution, killed>> /\ Leave /\ Executing
        /\ at = "append" /\ at' = "next"
        /\ benchmark' = [benchmark EXCEPT !["repository"].rows = Append(@, ThisRow)]
    BY DEF AppendRow, Leave, Executing
  <1>2. SaveInv'
    BY <1>1 DEF RunInv, SaveInv
  <1>3. ASSUME Undisturbed' PROVE PastInv' /\ NowInv'
    <2>1. Undisturbed
      BY <1>1, <1>3 DEF Undisturbed
    <2>2. PastInv /\ NowInv
      BY <2>1 DEF RunInv
    <2>3. program \in dirs["repository"] /\ options.clusters <= NumRows[file]
      BY <1>1, <2>2 DEF NowInv
    <2>4. Rows' = Rows \cup {ThisRow}
      BY <1>1, RowAdded
    <2>5. /\ ThisRow.by = execution /\ ThisRow.program = program /\ ThisRow.file = file
      BY DEF ThisRow
    <2>6. Base' = Base /\ execution = Base + Past + 1 /\ Base \in Int /\ Past \in Nat
      BY <1>1, <2>2, Advance
    <2>7. \A n \in 1 .. Past : Reported(n)' <=> Reported(n)
      <3>1. \A n \in 1 .. Past : Base + n # execution
        BY <2>6
      <3> QED BY <2>4, <2>5, <2>6, <3>1 DEF Reported, Executions, Programs
    <2>8. \E r \in Rows' : r.by = execution /\ <<r.program, r.file>> = <<program, file>>
      BY <2>4, <2>5
    <2>9. /\ benchmark'["repository"].header = benchmark["repository"].header
          /\ benchmark'["repository"].rows = Append(benchmark["repository"].rows, ThisRow)
          /\ benchmark["repository"].rows \in Seq(Row)
      <3>1. benchmark \in [Trees -> [header : BOOLEAN, rows : Seq(Row)]] /\ "repository" \in Trees
        BY DEF IInv, TypeOK, Trees
      <3> QED BY <1>1, <3>1
    <2>10. Len(benchmark'["repository"].rows)
             = Len(benchmark["repository"].rows) + IF program \in dirs["repository"] THEN 1 ELSE 0
      <3>1. ThisRow \in Row
        BY <1>1, ThisRowType DEF IInv
      <3> QED BY <2>3, <2>9, <3>1, AppendProperties
    <2>11. PastInv'
      BY <1>1, <2>2, <2>3, <2>7, <2>8, <2>9, <2>10, PastGrows
    <2>12. NowInv'
      BY <1>1 DEF NowInv
    <2> QED BY <2>11, <2>12
  <1> QED BY <1>2, <1>3 DEF RunInv

LEMMA RunInductive == FairSpec => []RunInv
  <1>1. Init => RunInv
    BY DEF Init, RunInv, SaveInv, Undisturbed
  <1>2. IInv /\ RunInv /\ [Next]_vars => RunInv'
    <2> SUFFICES ASSUME IInv, RunInv, [Next]_vars PROVE RunInv'
      OBVIOUS
    <2>1. CASE \/ \E o \in Options :
                     \/ StartRun(o)
                     \/ \E p \in Range(Programs), f \in Files : RunByHand(o, p, f)
               \/ OpenFails \/ EndRun \/ Kill
      BY <2>1, StepRunCommands
    <2>2. CASE OpenBenchmark
      BY <2>2, StepRunOpen
    <2>3. CASE Execute \/ Load \/ Fit
      BY <2>3, StepRunExecute
    <2>4. CASE FitFails \/ NoOutputDir
      BY <2>4, StepRunFails
    <2>5. CASE OpenOutput \/ WriteOutput
      BY <2>5, StepRunSave
    <2>6. CASE AppendRow
      BY <2>6, StepRunAppend
    <2>7. CASE UNCHANGED vars
      <3>1. UNCHANGED <<dirs, benchmark, at, options, todo, execution, killed>>
        BY <2>7 DEF vars, files
      <3>2. Base' = Base
        BY <3>1 DEF Base, Past, Executing, Executions, Programs
      <3>3. PastInv => PastInv'
        BY <3>1, <3>2, PastStays
      <3>4. (Undisturbed' => Undisturbed) /\ (NowInv => NowInv') /\ (SaveInv => SaveInv')
        BY <3>1 DEF Undisturbed, NowInv, SaveInv, program, file
      <3> QED BY <3>3, <3>4 DEF RunInv
    <2> QED BY <2>1, <2>2, <2>3, <2>4, <2>5, <2>6, <2>7 DEF Next, Work
  <1> QED BY <1>1, <1>2, Inductive, PTL DEF FairSpec

(* As long as nothing is killed a run of run.py reports each executable on *)
(* each file, but for those whose directory is missing, and without --append    *)
(* nothing but what it made is left.                                       *)
THEOREM RunsAreReported == FairSpec => []RunReportsAll
  <1>1. ASSUME IInv, RunInv PROVE RunReportsAll
    <2> DEFINE reported == {n \in DOMAIN Executions :
                              \E r \in Rows : /\ r.by = execution - Len(Executions) + n
                                              /\ <<r.program, r.file>> = Executions[n]}
               missing == {n \in DOMAIN Executions : Executions[n][1] \notin dirs["repository"]}
    <2> SUFFICES ASSUME at = "next", todo = <<>>, killed = 0, ~ options.by_hand,
                        "benchmarks" \in dirs[options.cwd], options.threads > 1
                 PROVE  /\ DOMAIN Executions \ reported = missing
                        /\ ~ options.append /\ options.cwd = "repository" =>
                              /\ benchmark["repository"].header
                              /\ Len(benchmark["repository"].rows) = Cardinality(reported)
      BY DEF RunReportsAll
    <2>1. PastInv
      BY <1>1 DEF RunInv, Undisturbed
    <2>2. Past = Len(Executions) /\ Base = execution - Len(Executions)
      <3>1. Len(todo) = 0 /\ ~ Executing /\ execution \in Nat
        BY <1>1 DEF IInv, TypeOK, Executing
      <3> QED BY <3>1, ExecutionsFacts DEF Past, Base
    <2>3. DOMAIN Executions = 1 .. Past
      BY <2>2, ExecutionsFacts
    <2>4. reported = {n \in 1 .. Past : HasDir(n)}
      <3>1. reported = {n \in 1 .. Past : Reported(n)}
        BY <2>2, <2>3 DEF Reported
      <3> HIDE DEF reported
      <3> QED BY <2>1, <3>1 DEF PastInv
    <2>5. missing = {n \in 1 .. Past : ~ HasDir(n)}
      BY <2>3 DEF HasDir
    <2> HIDE DEF reported, missing
    <2>6. DOMAIN Executions \ reported = missing
      BY <2>3, <2>4, <2>5
    <2> QED BY <2>1, <2>4, <2>6 DEF PastInv
  <1>2. IInv /\ RunInv => RunReportsAll
    BY <1>1
  <1> QED BY <1>2, Inductive, RunInductive, PTL

(* Every variable keeps its type. *)
THEOREM TypeCorrect == FairSpec => []TypeOK
  <1>1. IInv => TypeOK
    BY DEF IInv
  <1> QED BY <1>1, Inductive, PTL

(* What is killed or fails half-way leaves no row, and a row's result is   *)
(* complete on disk or has been begun anew since.                          *)
THEOREM RowsAreEarned == FairSpec => []RowsHaveResults
  <1>1. IInv => RowsHaveResults
    BY DEF IInv
  <1> QED BY <1>1, Inductive, PTL

-----------------------------------------------------------------------------
(* The data files. *)

(* Among numbers there is a least one. *)
LEMMA LeastNumber ==
    ASSUME NEW S \in SUBSET Nat, S # {}
    PROVE  \E n \in S : \A m \in S : n <= m
  <1>1. PICK n \in S : \A m \in S : ~ (<<m, n>> \in OpToRel(<, Nat))
    <2> HIDE DEF OpToRel, IsWellFoundedOn
    <2> QED BY NatLessThanWellFounded, WFMin, Zenon
  <1>2. ASSUME NEW m \in S, m < n PROVE FALSE
    <2>1. <<m, n>> \in Nat \X Nat
      OBVIOUS
    <2>2. <<m, n>> \in OpToRel(<, Nat)
      BY <1>2, <2>1, Zenon DEF OpToRel
    <2> QED BY <1>1, <2>2
  <1>3. \A m \in S : n <= m
    BY <1>2
  <1> QED BY <1>3

(* Where the reader is after i values of a file of n: at the i-th value    *)
(* until it has passed them all, and from then on it creeps.               *)
PositionAfter(n, i) == IF i <= n THEN 2 * i + 1 ELSE n + i + 1

(* A file of n values and n separators, and nothing else. *)
IsTable(csv_file, n) ==
    /\ Len(csv_file) = 2 * n
    /\ \A i \in 1 .. 2 * n : csv_file[i] \in Numbers <=> i % 2 = 1

(* The position after i values, as a step from the one before. *)
Reads(csv_file, g, i) ==
    IF i = 0 THEN 1
    ELSE IF g[i - 1] <= Len(csv_file) /\ csv_file[g[i - 1]] \in Numbers
         THEN g[i - 1] + 2 ELSE g[i - 1] + 1

(* From where it should be before a value the reader gets to where it     *)
(* should be after it.                                                     *)
LEMMA ReadsPosition ==
    ASSUME NEW csv_file, NEW n \in Nat, IsTable(csv_file, n), NEW i \in Nat, NEW g,
           i > 0 => g[i - 1] = PositionAfter(n, i - 1)
    PROVE  Reads(csv_file, g, i) = PositionAfter(n, i)
  <1>1. CASE i = 0
    BY <1>1 DEF Reads, PositionAfter
  <1>2. CASE i > 0 /\ i - 1 < n
    <2>1. g[i - 1] = 2 * (i - 1) + 1
      BY <1>2 DEF PositionAfter
    <2>2. 2 * (i - 1) + 1 \in 1 .. 2 * n /\ (2 * (i - 1) + 1) % 2 = 1
      BY <1>2
    <2>3. csv_file[g[i - 1]] \in Numbers /\ g[i - 1] <= Len(csv_file)
      BY <2>1, <2>2 DEF IsTable
    <2> QED BY <1>2, <2>1, <2>3 DEF Reads, PositionAfter
  <1>3. CASE i > 0 /\ i - 1 >= n
    <2>1. g[i - 1] = n + (i - 1) + 1
      BY <1>3 DEF PositionAfter
    <2>2. ~ (g[i - 1] <= Len(csv_file))
      BY <1>3, <2>1 DEF IsTable
    <2> QED BY <1>3, <2>1, <2>2 DEF Reads, PositionAfter
  <1> QED BY <1>1, <1>2, <1>3

(* The positions are a recursive function, which the known ones solve; no  *)
(* other function solves it, for the least value at which it differed      *)
(* would follow one at which it does not.                                  *)
LEMMA PositionKnown ==
    ASSUME NEW csv_file, NEW n \in Nat, IsTable(csv_file, n), NEW i \in Nat
    PROVE  FilePosition(csv_file, i) = PositionAfter(n, i)
  <1> DEFINE Solves(g) == g = [j \in 0 .. i |-> Reads(csv_file, g, j)]
             known == [j \in 0 .. i |-> PositionAfter(n, j)]
             pos == CHOOSE g : Solves(g)
  <1>1. FilePosition(csv_file, i) = pos[i]
    BY DEF FilePosition, Reads
  <1>2. Solves(known)
    <2>1. ASSUME NEW j \in 0 .. i PROVE Reads(csv_file, known, j) = PositionAfter(n, j)
      <3>1. j > 0 => known[j - 1] = PositionAfter(n, j - 1)
        OBVIOUS
      <3> HIDE DEF known
      <3> QED BY <3>1, ReadsPosition
    <2>2. [j \in 0 .. i |-> Reads(csv_file, known, j)] = known
      <3> HIDE DEF PositionAfter
      <3> QED BY <2>1
    <2> QED BY <2>2
  <1>3. Solves(pos)
    <2> HIDE DEF Solves
    <2> QED BY <1>2
  <1> HIDE DEF pos
  <1>4. ASSUME NEW j \in 0 .. i PROVE pos[j] = Reads(csv_file, pos, j)
    BY <1>3
  <1>5. \A j \in 0 .. i : pos[j] = PositionAfter(n, j)
    <2> DEFINE wrong == {j \in 0 .. i : pos[j] # PositionAfter(n, j)}
    <2> SUFFICES ASSUME wrong # {} PROVE FALSE
      OBVIOUS
    <2>1. PICK j \in wrong : \A k \in wrong : j <= k
      <3>1. wrong \in SUBSET Nat
        OBVIOUS
      <3> HIDE DEF wrong
      <3> QED BY <3>1, LeastNumber
    <2>2. j > 0 => pos[j - 1] = PositionAfter(n, j - 1)
      <3>1. j > 0 => j - 1 \notin wrong
        BY <2>1
      <3> QED BY <3>1
    <2>3. pos[j] = PositionAfter(n, j)
      BY <1>4, <2>2, ReadsPosition
    <2> QED BY <2>3
  <1> QED BY <1>1, <1>5

(* Saving a table writes its values at the odd places of the file. *)
LEMMA SavedIsTable ==
    ASSUME NEW n \in Nat, NEW values \in [1 .. n -> Numbers], NEW cols
    PROVE  /\ IsTable(SaveToCsv(values, cols), n)
           /\ \A i \in 1 .. n : SaveToCsv(values, cols)[2 * i - 1] = values[i]
  <1> DEFINE csv_file == SaveToCsv(values, cols)
             Token(j) == IF j % 2 = 1 THEN values[(j + 1) \div 2]
                         ELSE IF (j \div 2) % cols = 0 THEN NewLine ELSE Space
  <1>1. Len(values) = n
    OBVIOUS
  <1>2. csv_file = [j \in 1 .. 2 * n |-> Token(j)]
    BY <1>1 DEF SaveToCsv
  <1>3. ASSUME NEW i \in 1 .. n
        PROVE  2 * i - 1 \in 1 .. 2 * n /\ Token(2 * i - 1) = values[i]
    <2>1. (2 * i - 1) % 2 = 1 /\ ((2 * i - 1) + 1) \div 2 = i /\ 2 * i - 1 \in 1 .. 2 * n
      OBVIOUS
    <2> QED BY <2>1
  <1>4. ASSUME NEW j \in 1 .. 2 * n, j % 2 = 1 PROVE Token(j) \in Numbers
    <2>1. (j + 1) \div 2 \in 1 .. n
      BY <1>4
    <2> QED BY <1>4, <2>1
  <1>5. ASSUME NEW j \in 1 .. 2 * n, j % 2 # 1 PROVE Token(j) \notin Numbers
    <2>1. Token(j) \in {NewLine, Space}
      BY <1>5
    <2> QED BY <2>1, CsvAssumption
  <1>6. Len(csv_file) = 2 * n
    <2> HIDE DEF csv_file, Token
    <2> QED BY <1>2
  <1> HIDE DEF csv_file, Token
  <1>7. \A j \in 1 .. 2 * n : csv_file[j] \in Numbers <=> j % 2 = 1
    BY <1>2, <1>4, <1>5
  <1>8. \A i \in 1 .. n : csv_file[2 * i - 1] = values[i]
    BY <1>2, <1>3
  <1> QED BY <1>6, <1>7, <1>8 DEF IsTable, csv_file

(* A name that tells the truth about the number of values reads them all. *)
LEMMA LoadedAsSaved ==
    ASSUME NEW rows \in Nat, NEW cols \in Nat, NEW values \in [1 .. rows * cols -> Numbers]
    PROVE  LoadFromCsv(SaveToCsv(values, cols), rows, cols) = values
  <1> DEFINE n == rows * cols
             csv_file == SaveToCsv(values, cols)
             Value(i) == IF /\ FilePosition(csv_file, i - 1) <= Len(csv_file)
                            /\ csv_file[FilePosition(csv_file, i - 1)] \in Numbers
                         THEN csv_file[FilePosition(csv_file, i - 1)] ELSE Zero
  <1>1. n \in Nat
    OBVIOUS
  <1>2. LoadFromCsv(csv_file, rows, cols) = [i \in 1 .. n |-> Value(i)]
    BY DEF LoadFromCsv
  <1> HIDE DEF n, csv_file
  <1>3. values \in [1 .. n -> Numbers]
    BY DEF n
  <1>4. IsTable(csv_file, n) /\ \A i \in 1 .. n : csv_file[2 * i - 1] = values[i]
    BY <1>1, <1>3, SavedIsTable DEF csv_file
  <1>5. ASSUME NEW i \in 1 .. n PROVE Value(i) = values[i]
    <2>1. FilePosition(csv_file, i - 1) = PositionAfter(n, i - 1)
      BY <1>1, <1>4, PositionKnown
    <2>2. PositionAfter(n, i - 1) = 2 * i - 1 /\ 2 * i - 1 <= 2 * n
      BY <1>1 DEF PositionAfter
    <2>3. csv_file[2 * i - 1] = values[i] /\ values[i] \in Numbers
      BY <1>3, <1>4
    <2> QED BY <1>4, <2>1, <2>2, <2>3 DEF IsTable
  <1> HIDE DEF Value
  <1> QED BY <1>2, <1>3, <1>5 DEF csv_file

(* A name that promises m values for a file of n: one too many leaves the  *)
(* reader at the end of the file, where it reads zero, two too many beyond.*)
LEMMA MisnamedFile ==
    ASSUME NEW n \in Nat, NEW csv_file, IsTable(csv_file, n),
           NEW r \in Nat \ {0}, NEW c \in Nat \ {0}
    PROVE  /\ StaysInFile(csv_file, r, c) <=> r * c <= n + 1
           /\ StaysInFile(csv_file, r, c) /\ r * c > n =>
                LoadFromCsv(csv_file, r, c)[r * c] = Zero
  <1> DEFINE m == r * c
  <1>1. m \in Nat \ {0}
    OBVIOUS
  <1>2. StaysInFile(csv_file, r, c) <=>
          \A i \in 0 .. m - 1 : FilePosition(csv_file, i) <= Len(csv_file) + 1
    BY DEF StaysInFile
  <1>3. m > 0 => LoadFromCsv(csv_file, r, c)[m] =
          IF /\ FilePosition(csv_file, m - 1) <= Len(csv_file)
             /\ csv_file[FilePosition(csv_file, m - 1)] \in Numbers
          THEN csv_file[FilePosition(csv_file, m - 1)] ELSE Zero
    BY <1>1 DEF LoadFromCsv
  <1> HIDE DEF m
  <1>4. \A i \in Nat : FilePosition(csv_file, i) = PositionAfter(n, i)
    BY PositionKnown
  <1>5. Len(csv_file) = 2 * n
    BY DEF IsTable
  <1>6. ASSUME m <= n + 1, NEW i \in 0 .. m - 1
        PROVE  FilePosition(csv_file, i) <= Len(csv_file) + 1
    <2>1. i \in Nat /\ i <= n
      BY <1>1, <1>6
    <2>2. FilePosition(csv_file, i) = 2 * i + 1
      BY <1>4, <2>1 DEF PositionAfter
    <2> QED BY <1>5, <2>1, <2>2
  <1>7. ASSUME m > n + 1
        PROVE  m - 1 \in 0 .. m - 1 /\ ~ (FilePosition(csv_file, m - 1) <= Len(csv_file) + 1)
    <2>1. m - 1 \in Nat /\ FilePosition(csv_file, m - 1) = n + (m - 1) + 1
      BY <1>1, <1>4, <1>7 DEF PositionAfter
    <2> QED BY <1>1, <1>5, <1>7, <2>1
  <1>8. StaysInFile(csv_file, r, c) <=> m <= n + 1
    BY <1>1, <1>2, <1>6, <1>7
  <1>9. ASSUME m <= n + 1, m > n PROVE LoadFromCsv(csv_file, r, c)[m] = Zero
    <2>1. m = n + 1 /\ m - 1 = n /\ m > 0
      BY <1>1, <1>9
    <2>2. FilePosition(csv_file, m - 1) = 2 * n + 1
      BY <1>4, <2>1 DEF PositionAfter
    <2>3. ~ (FilePosition(csv_file, m - 1) <= Len(csv_file))
      BY <1>5, <2>2
    <2> QED BY <1>3, <2>1, <2>3
  <1> QED BY <1>8, <1>9 DEF m

(* For tables of any size, of whatever numbers. *)
LEMMA TablesAlwaysSurvive == TablesSurvive
  <1> SUFFICES ASSUME NEW rows \in 1 .. MaxSide, NEW cols \in 1 .. MaxSide,
                      NEW values \in [1 .. rows * cols -> Numbers]
               PROVE  LET csv_file == SaveToCsv(values, cols)
                      IN  /\ LoadFromCsv(csv_file, rows, cols) = values
                          /\ \A r, c \in 1 .. MaxSide :
                                /\ StaysInFile(csv_file, r, c) <=> r * c <= rows * cols + 1
                                /\ StaysInFile(csv_file, r, c) /\ r * c > rows * cols =>
                                     LoadFromCsv(csv_file, r, c)[r * c] = Zero
    BY DEF TablesSurvive
  <1>1. rows \in Nat /\ cols \in Nat
    BY SideAssumption
  <1>2. rows * cols \in Nat
    BY <1>1
  <1>3. LoadFromCsv(SaveToCsv(values, cols), rows, cols) = values
    BY <1>1, LoadedAsSaved
  <1>4. IsTable(SaveToCsv(values, cols), rows * cols)
    BY <1>2, SavedIsTable
  <1>5. \A r, c \in 1 .. MaxSide : r \in Nat \ {0} /\ c \in Nat \ {0}
    BY SideAssumption
  <1> QED BY <1>2, <1>3, <1>4, <1>5, MisnamedFile

(* An executable loads the table that was saved, whatever its size and     *)
(* values are, and a name that promises more values than the file has is   *)
(* noticed by nothing when it is one value, and is read past the end when  *)
(* it is more.                                                             *)
THEOREM LoadedTables == FairSpec => []LoaderReadsTable
  <1>1. LoaderReadsTable
    BY TablesAlwaysSurvive DEF LoaderReadsTable
  <1> QED BY <1>1, PTL
=============================================================================
