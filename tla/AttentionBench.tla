---------------------------- MODULE AttentionBench ----------------------------
(***************************************************************************)
(* scripts/bench_attention.py: the parent that measures every variant      *)
(* under every flag setting in worker processes, and the workers, which    *)
(* append one line per sequence length to a file and may stop at any time. *)
(***************************************************************************)
EXTENDS AttentionSelection

CONSTANT Speeds   \* the throughputs a cell may reach

ASSUME BenchAssumption == Speeds \subseteq Nat \ {0}

VARIABLES
  pc,
  turn,       \* which pair of a flag setting and a variant is measured
  remaining,  \* run_variant: the lengths still to measure, by their places in Lengths
  cells,      \* what the parent has collected
  worker,     \* the worker process: its lengths, its file, its end
  selection,
  plain       \* are the record's other texts (device, os, notes) acceptable to the ledger?

vars == <<pc, turn, remaining, cells, worker, selection, plain>>

Turns == Len(Flags) * Len(Variants)
Flag == Flags[1 + ((turn - 1) \div Len(Variants))]
Variant == Variants[1 + ((turn - 1) % Len(Variants))]

\* exit: returned 0, returned DEVICE_ERROR_EXIT, or something else.  torn: the last line
\* of the file is incomplete.
NoWorker == [todo |-> {}, lines |-> <<>>, deviceError |-> FALSE, exit |-> "none", torn |-> FALSE]

Init ==
  /\ pc = "launch"
  /\ turn = 1
  /\ remaining = DOMAIN Lengths
  /\ cells = <<>>
  /\ worker = NoWorker
  /\ selection = NoSelection
  /\ plain \in BOOLEAN

Cell(n, status, speed, diff, detail) ==
  [variant |-> Variant, flag |-> Flag, length |-> n,
   status |-> status, speed |-> speed, diff |-> diff, detail |-> detail]

-----------------------------------------------------------------------------
(* The worker                                                              *)

Running == pc = "worker" /\ worker.exit = "none"

\* What the comparison with the reference may give: nothing for the reference itself
\* or when the reference ran out of memory; NaN when the reference gave NaN.
Comparisons ==
  IF Variant \in Oracles THEN {"none"}
  ELSE {"none", "within", "beyond", "nan"}

\* Mutant: a cell without differences does not say why.
MeasuredWithoutDetail(n, finite, diff, speed) ==
  IF ~ finite THEN Cell(n, "nonfinite", 0, diff, "non-finite values")
  ELSE Cell(n, IF diff = "beyond" THEN "mismatch" ELSE "ok", speed, diff, "")

\* The status of a measured cell; max() > TOLERANCE does not hold for NaN.
Measured(n, finite, diff, speed) ==
  IF ~ finite THEN Cell(n, "nonfinite", 0, diff, "non-finite values")
  ELSE Cell(n, IF diff = "beyond" THEN "mismatch" ELSE "ok", speed, diff,
            IF diff = "none" /\ Variant \notin Oracles THEN "reference unavailable" ELSE "")

\* The next length of the worker.
Current == Lengths[Min(worker.todo)]

Record(cell) ==
  worker' = [worker EXCEPT !.todo = @ \ {Min(@)}, !.lines = Append(@, cell)]

MeasureLength ==
  /\ Running
  /\ worker.todo # {} /\ ~ worker.deviceError
  /\ \E finite \in BOOLEAN, diff \in Comparisons, speed \in Speeds :
       Record(Measured(Current, finite, diff, speed))
  /\ UNCHANGED <<pc, turn, remaining, cells, selection, plain>>

\* The backend is missing, memory runs out, or another exception is raised; differences
\* measured before it stay in the cell, and nothing reads them.  short_detail() removes
\* paths from the message, and nothing else.
FailLength ==
  /\ Running
  /\ worker.todo # {} /\ ~ worker.deviceError
  /\ \E status \in {"unsupported", "oom", "error"}, message \in Messages :
       Record(Cell(Current, status, 0, "none", message))
  /\ UNCHANGED <<pc, turn, remaining, cells, selection, plain>>

\* "CUDA error" or "HIP error": recorded, then the worker gives up.
FailDevice ==
  /\ Running
  /\ worker.todo # {} /\ ~ worker.deviceError
  /\ \E message \in Messages :
       worker' = [worker EXCEPT !.todo = @ \ {Min(@)}, !.deviceError = TRUE,
                    !.lines = Append(@, Cell(Current, "error", 0, "none", message))]
  /\ UNCHANGED <<pc, turn, remaining, cells, selection, plain>>

WorkerReturns ==
  /\ Running
  /\ worker.todo = {} \/ worker.deviceError
  /\ worker' = [worker EXCEPT !.exit = IF worker.deviceError THEN "device" ELSE "zero"]
  /\ UNCHANGED <<pc, turn, remaining, cells, selection, plain>>

\* Killed, aborted, or an exception outside the try block: the import of torch, writing
\* the line, or empty_cache(), which runs between a device error and the return.  A
\* worker that stops while it writes (a full disk, a kill) leaves a part of the line.
WorkerDies ==
  /\ Running
  /\ \E torn \in BOOLEAN :
       /\ torn => worker.todo # {} /\ ~ worker.deviceError
       /\ worker' = [worker EXCEPT !.exit = "other", !.torn = torn]
  /\ UNCHANGED <<pc, turn, remaining, cells, selection, plain>>

-----------------------------------------------------------------------------
(* The parent                                                              *)

\* Mutant: a new worker measures every length again.
LaunchFromTheStart ==
  /\ pc = "launch"
  /\ remaining # {}
  /\ worker' = [NoWorker EXCEPT !.todo = DOMAIN Lengths]
  /\ pc' = "worker"
  /\ UNCHANGED <<turn, remaining, cells, selection, plain>>

Launch ==
  /\ pc = "launch"
  /\ remaining # {}
  /\ worker' = [NoWorker EXCEPT !.todo = remaining]
  /\ pc' = "worker"
  /\ UNCHANGED <<turn, remaining, cells, selection, plain>>

\* The lengths the worker's file does not hold.
Unfinished == {k \in remaining : \A i \in DOMAIN worker.lines : worker.lines[i].length # Lengths[k]}

\* Mutant: a length that ended its worker is tried again.
CollectRetries ==
  /\ pc = "worker"
  /\ worker.exit # "none"
  /\ IF worker.torn
       THEN pc' = "raised" /\ UNCHANGED <<remaining, cells, worker>>
       ELSE /\ cells' = cells \o worker.lines
            /\ remaining' = Unfinished
            /\ worker' = NoWorker
            /\ pc' = "launch"
  /\ UNCHANGED <<turn, selection, plain>>

\* The cells of the worker's file, and an error for the first length it does not hold
\* when the worker ended in an unexpected way.
TakeOver ==
  \E message \in Messages :
    IF Unfinished # {} /\ worker.exit = "other"
      THEN /\ cells' = cells \o worker.lines \o
                         <<Cell(Lengths[Min(Unfinished)], "error", 0, "none", message)>>
           /\ remaining' = Unfinished \ {Min(Unfinished)}
      ELSE /\ cells' = cells \o worker.lines
           /\ remaining' = Unfinished

\* Take over the worker's file; json.loads() raises on a torn line, which nothing
\* catches: the parent ends and what it has collected is gone.
Collect ==
  /\ pc = "worker"
  /\ worker.exit # "none"
  /\ IF worker.torn
       THEN pc' = "raised" /\ UNCHANGED <<remaining, cells, worker>>
       ELSE TakeOver /\ worker' = NoWorker /\ pc' = "launch"
  /\ UNCHANGED <<turn, selection, plain>>

NextVariant ==
  /\ pc = "launch"
  /\ remaining = {}
  /\ IF turn < Turns
       THEN turn' = turn + 1 /\ remaining' = DOMAIN Lengths /\ UNCHANGED pc
       ELSE pc' = "select" /\ UNCHANGED <<turn, remaining>>
  /\ UNCHANGED <<cells, worker, selection, plain>>

\* select_attention_path(), then write_benchmark(), which validates the record first.
WriteBenchmark ==
  /\ pc = "select"
  /\ selection' = Selected(cells)
  /\ pc' = IF Accepted(cells, selection', plain) THEN "written" ELSE "refused"
  /\ UNCHANGED <<turn, remaining, cells, worker, plain>>

Ended == pc \in {"written", "refused", "raised"} /\ UNCHANGED vars

Work ==
  \/ MeasureLength \/ FailLength \/ FailDevice \/ WorkerReturns
  \/ Launch \/ Collect \/ NextVariant \/ WriteBenchmark

Next == Work \/ WorkerDies \/ Ended

Spec == Init /\ [][Next]_vars

\* Both processes keep running; a worker need not die.
FairSpec == Spec /\ WF_vars(Work)

-----------------------------------------------------------------------------
(* Properties                                                              *)

\* However the workers ended, every combination of the grid has one cell when the
\* benchmark is judged, and no length is measured again that has one already.
GridMeasuredOnce ==
  /\ \A i, j \in DOMAIN cells :
       i # j => <<cells[i].variant, cells[i].flag, cells[i].length>>
                  # <<cells[j].variant, cells[j].flag, cells[j].length>>
  /\ pc \in {"select", "written", "refused"} => GridComplete(cells)

\* The ledger refuses what was measured exactly when no variant qualifies, the worker
\* called a NaN deviation "ok", or a text is one it never takes: otherwise the statuses
\* and details the worker and the parent choose are those validate_benchmark() asks for.
RefusalHasACause ==
  pc \in {"written", "refused"} =>
    (pc = "refused" <=>
       \/ selection = NoSelection \/ ~ plain
       \/ \E i \in DOMAIN cells :
            cells[i].detail = "forbidden" \/ (cells[i].status = "ok" /\ cells[i].diff = "nan"))

\* A recorded selection was measured and compared with the reference at every selection
\* length under one flag setting, and no other path that was is faster (SELECTION_RULE).
SelectionFollowsRule ==
  pc = "written" =>
    LET Proven(v, f, n) == \E c \in Range(cells) :
          /\ <<c.variant, c.flag, c.length>> = <<v, f, n>>
          /\ c.status = "ok" /\ (v \in Oracles \/ c.diff = "within")
        FasterThan(c) == \E d \in Range(cells) :
          /\ d.length = Largest /\ d.speed > c.speed /\ d.variant \in Selectable
          /\ \A n \in SelectionLengths : Proven(d.variant, d.flag, n)
    IN /\ selection[1] \in Selectable
       /\ \A n \in SelectionLengths : Proven(selection[1], selection[2], n)
       /\ \A c \in Range(cells) :
            <<c.variant, c.flag, c.length>> = <<selection[1], selection[2], Largest>> => ~ FasterThan(c)

\* However many workers die, the benchmark is judged in the end; it is lost only when a
\* worker died in the middle of a line.
BenchmarkEnds == <>(pc \in {"written", "refused"} \/ (pc = "raised" /\ worker.torn))
=============================================================================
