------------------------------- MODULE CommandLine -------------------------------
(***************************************************************************)
(* The two programs that evaluate without a server:                        *)
(* src/tools/branchscore.cpp, one decision and perhaps a dump of its       *)
(* visual tokens, and src/tools/branchscore_bench.cpp, a file of rows and  *)
(* a report of them.  Lines go to a buffered stream: they reach the file   *)
(* when the buffer is full and when the stream is destroyed.  Other        *)
(* programs may create the output file at any time.  Arguments are         *)
(*   mode    "run", "help" (also --list-backends), "wrong" (unknown or     *)
(*           incomplete)                                                   *)
(*   model, mmproj, files    which of them are given; files stands for     *)
(*           --input and --output, or for the arguments of a decision      *)
(*   warmup  the count of warmups                                          *)
(*   dump    --vision-dump is given                                        *)
(* A row of the input is "blank", "bad" or the id of its request.          *)
(***************************************************************************)
EXTENDS ModelLoading

CONSTANTS
  Arguments,   \* those considered
  Inputs       \* sequences of lines

ASSUME InputsAssumption == Inputs \subseteq Seq(STRING)

VARIABLES
  tool,        \* "branchscore" or "bench"
  args,
  input,
  found,       \* what was at the output's path at the start
  output,      \* what is there now: [owner, lines], nobody's if there is none
  read,        \* lines read so far
  rows,        \* [id, line]
  warmed,
  results,     \* of each row, whose request was evaluated
  written,     \* lines given to the stream
  buffer,      \* lines the stream still holds
  good,        \* the stream has not failed
  tail_lost,   \* its last flush failed, when nobody looked any more
  exit         \* exit status, or Running

toolInput == <<tool, args, input, found>>
stream == <<output, written, buffer, good>>
progress == <<read, rows, warmed, results>>
vars == <<pc, loadingVars, toolInput, stream, progress, tail_lost, exit>>

Running == 2
NoFile == [owner |-> "nobody", lines |-> <<>>]
Foreign == [owner |-> "other", lines |-> <<>>]

Init ==
  /\ LoadingInit
  /\ pc = "arguments"
  /\ tool \in {"branchscore", "bench"}
  /\ args \in Arguments
  /\ tool = "bench" => ~args.dump
  /\ input \in IF tool = "bench" THEN Inputs ELSE {<<>>}
  /\ found \in {NoFile, Foreign}
  /\ output = found
  /\ read = 0
  /\ rows = <<>>
  /\ warmed = 0
  /\ results = <<>>
  /\ written = <<>>
  /\ buffer = <<>>
  /\ good = TRUE
  /\ tail_lost = FALSE
  /\ exit = Running

Bench == tool = "bench"
------------------------------------------------------------------------------

\* main returns or leaves through the handler: "leave" still destroys the stream.
Leave(status) == pc' = "leave" /\ exit' = status
Proceed(stage) == pc' = stage /\ UNCHANGED exit

BenchMayStart == args.model /\ args.mmproj /\ args.files /\ output = NoFile
DecisionMayStart == args.model = args.mmproj /\ (args.files \/ args.dump => args.model)

ParseArguments ==
  /\ pc = "arguments"
  /\ IF args.mode # "run" THEN Leave(IF args.mode = "help" THEN 0 ELSE 1)
     ELSE IF Bench THEN IF BenchMayStart THEN Proceed("rows") ELSE Leave(1)
     ELSE IF DecisionMayStart THEN Proceed("device") ELSE Leave(1)
  /\ UNCHANGED <<loadingVars, toolInput, stream, progress, tail_lost>>

\* One line of read_rows.
ReadRow ==
  /\ pc = "rows"
  /\ read < Len(input)
  /\ read' = read + 1
  /\ LET line == input[read + 1]
     IN /\ IF line = "bad" THEN Leave(1) ELSE Proceed("rows")
        /\ rows' = IF line \in {"blank", "bad"} THEN rows
                   ELSE Append(rows, [id |-> line, line |-> read'])
  /\ UNCHANGED <<loadingVars, toolInput, stream, warmed, results, tail_lost>>

RowsRead ==
  /\ pc = "rows"
  /\ read = Len(input)
  /\ IF rows = <<>> THEN Leave(1) ELSE Proceed("device")
  /\ UNCHANGED <<loadingVars, toolInput, stream, progress, tail_lost>>

OpenBackend ==
  /\ SelectDevice(IF args.model THEN "metadata" ELSE "checked")
  /\ UNCHANGED <<toolInput, stream, progress, tail_lost, exit>>

LoadModel ==
  /\ LoadStep
  /\ UNCHANGED <<toolInput, stream, progress, tail_lost, exit>>

\* Without a model the backend only had to start.
BackendChecked ==
  /\ pc = "checked"
  /\ Leave(0)
  /\ UNCHANGED <<loadingVars, toolInput, stream, progress, tail_lost>>

StartFailed ==
  /\ pc = "failed"
  /\ Leave(1)
  /\ UNCHANGED <<loadingVars, toolInput, stream, progress, tail_lost>>

\* from_gguf, the engine, and one warmup after the other.
Prepare ==
  /\ pc = "loaded"
  /\ \/ /\ IF Bench /\ warmed < args.warmup
             THEN warmed' = warmed + 1 /\ Proceed("loaded")
           ELSE /\ UNCHANGED warmed
                /\ Proceed(IF Bench THEN "create" ELSE "evaluate")
     \/ Leave(1) /\ UNCHANGED warmed
  /\ UNCHANGED <<loadingVars, toolInput, stream, read, rows, results, tail_lost>>
------------------------------------------------------------------------------

\* A line into the stream: kept, passed on with all that was kept, or lost with it.  What
\* a failed flush leaves in the file is up to the library; nothing is said about it.
Put(line) ==
  /\ written' = Append(written, line)
  /\ \/ /\ good
        /\ buffer' = Append(buffer, line)
        /\ UNCHANGED <<output, good>>
     \/ /\ good
        /\ output' = [output EXCEPT !.lines = @ \o Append(buffer, line)]
        /\ buffer' = <<>>
        /\ UNCHANGED good
     \/ /\ good' = FALSE
        /\ buffer' = <<>>
        /\ UNCHANGED output

RunLine == [kind |-> "run", rows |-> Len(rows)]
DecisionLine(k) == [kind |-> "decision", row |-> rows[k], result |-> results[k]]
AggregateLine == [kind |-> "aggregate", rows |-> Len(results)]
Report ==
  <<RunLine>> \o [k \in DOMAIN rows |-> DecisionLine(k)] \o <<AggregateLine>>
Dump == <<[kind |-> "dump"]>>

\* The ofstream creates or truncates the file.
OpenOutput(next_stage) ==
  \/ /\ output' = [owner |-> tool, lines |-> <<>>]
     /\ Proceed(next_stage)
  \/ Leave(1) /\ UNCHANGED output

CreateOutput ==
  /\ pc = "create"
  /\ OpenOutput("run")
  /\ UNCHANGED <<loadingVars, toolInput, written, buffer, good, progress, tail_lost>>

WriteRun ==
  /\ pc = "run"
  /\ Put(RunLine)
  /\ Proceed("evaluate")
  /\ UNCHANGED <<loadingVars, toolInput, progress, tail_lost>>

EvaluateRow ==
  /\ pc = "evaluate" /\ Bench
  /\ \/ /\ results' = Append(results, rows[Len(results) + 1].id)
        /\ Proceed(IF Len(results') = Len(rows) THEN "write" ELSE "evaluate")
     \/ Leave(1) /\ UNCHANGED results
  /\ UNCHANGED <<loadingVars, toolInput, stream, read, rows, warmed, tail_lost>>

\* Decision lines in the order of the rows, then the aggregate.
WriteLine ==
  /\ pc = "write" /\ Bench
  /\ Len(written) < Len(Report)
  /\ Put(Report[Len(written) + 1])
  /\ Proceed("write")
  /\ UNCHANGED <<loadingVars, toolInput, progress, tail_lost>>

StreamUnchecked == TRUE
\* if (!output): nothing has been flushed for it.
StreamOk == good

CheckStream ==
  /\ pc = "write"
  /\ Len(written) = Len(IF Bench THEN Report ELSE Dump)
  /\ Leave(IF StreamOk THEN 0 ELSE 1)
  /\ UNCHANGED <<loadingVars, toolInput, stream, progress, tail_lost>>

\* The decision CLI: one decision, then the dump if one was asked for.
EvaluateOne ==
  /\ pc = "evaluate" /\ ~Bench
  /\ \/ Proceed("dump") /\ args.dump
     \/ Leave(0) /\ ~args.dump
     \/ Leave(1)
  /\ UNCHANGED <<loadingVars, toolInput, stream, progress, tail_lost>>

OpenDump ==
  /\ pc = "dump"
  /\ OpenOutput("dumping")
  /\ UNCHANGED <<loadingVars, toolInput, written, buffer, good, progress, tail_lost>>

WriteDump ==
  /\ pc = "dumping"
  /\ Put(Dump[1])
  /\ Proceed("write")
  /\ UNCHANGED <<loadingVars, toolInput, progress, tail_lost>>

\* The stream's destructor flushes what is left and reports to nobody.
DestroyStream ==
  /\ pc = "leave"
  /\ pc' = "gone"
  /\ buffer' = <<>>
  /\ \E kept \in 0 .. Len(buffer) :
       /\ output' = [output EXCEPT !.lines = @ \o SubSeq(buffer, 1, kept)]
       /\ tail_lost' = (kept < Len(buffer))
  /\ UNCHANGED <<loadingVars, toolInput, written, good, progress, exit>>

SomeoneCreates ==
  /\ output = NoFile
  /\ pc # "gone"
  /\ output' = Foreign
  /\ UNCHANGED <<pc, loadingVars, toolInput, written, buffer, good, progress, tail_lost, exit>>

Finished == pc = "gone" /\ UNCHANGED vars

Next ==
  \/ ParseArguments \/ ReadRow \/ RowsRead
  \/ OpenBackend \/ LoadModel \/ BackendChecked \/ StartFailed \/ Prepare
  \/ CreateOutput \/ WriteRun \/ EvaluateRow \/ WriteLine \/ CheckStream
  \/ EvaluateOne \/ OpenDump \/ WriteDump
  \/ DestroyStream \/ SomeoneCreates \/ Finished

Spec == Init /\ [][Next]_vars
------------------------------------------------------------------------------

\* No program gets to a decision with a weight out of its place.
WeightsArePlaced ==
  pc \in {"loaded", "create", "run", "evaluate", "write", "dump", "dumping"} => WeightsInPlace

\* The rows that the input asks for, with their lines in the file: row n is on the line
\* that is the n-th of those not blank.
AskedLines == {k \in DOMAIN input : input[k] # "blank"}
Asked ==
  [n \in 1 .. Cardinality(AskedLines) |->
     LET line == CHOOSE k \in AskedLines : Cardinality({j \in AskedLines : j <= k}) = n
     IN [id |-> input[line], line |-> line]]

Whole ==
  IF Bench
    THEN <<[kind |-> "run", rows |-> Len(Asked)]>>
           \o [k \in DOMAIN Asked |->
                [kind |-> "decision", row |-> Asked[k], result |-> Asked[k].id]]
           \o <<[kind |-> "aggregate", rows |-> Len(Asked)]>>
  ELSE Dump

\* A benchmark that meets its output at the start leaves it alone.  What a program has
\* written is the beginning of what it was asked for, every row under its own id and
\* line; success means all of it, unless the very last flush failed unseen.
ReportIsWhole ==
  /\ Bench /\ found # NoFile => output = found
  /\ output.owner = tool /\ good => IsPrefix(output.lines, Whole)
  /\ pc = "gone" /\ exit = 0 /\ written # <<>> /\ ~tail_lost =>
       output = [owner |-> tool, lines |-> Whole]
  /\ pc = "gone" /\ exit = 0 /\ Bench /\ args.mode = "run" => Len(written) = Len(Whole)
=================================================================================
