--------------------------- MODULE WorkerProtocol ---------------------------
(***************************************************************************)
(* What a search worker says on its standard output, whoever implements    *)
(* it: a device record, batches that follow one another from the start of  *)
(* the range it was asked for and list exactly what matches, and a summary *)
(* that adds them up.  It may stop for time between batches, and may fail  *)
(* at any point before its end; a worker that failed has published nothing *)
(* wrong.                                                                  *)
(*                                                                         *)
(* GpuSearch implements it, and SearchSystem puts it at the other end of   *)
(* run_search's pipe.                                                      *)
(***************************************************************************)
EXTENDS Integers, Sequences

CONSTANT
    HitLists        \* Lists of candidates, as a batch record may hold.

VARIABLES
    request,        \* START, COUNT and BATCH_COUNT of the command line.
    matches,        \* The candidates whose block begins with the target.
    output,         \* The records written so far.
    exit            \* "running", then the exit: "ok" or "error".

vars == <<request, matches, output, exit>>

Requested == request.start .. request.start + request.count - 1
End == request.start + request.count

IsBatch(r) == r.type = "batch"

(* Where the next batch starts: after the last one among the records. *)
Position(records) ==
    IF Len(records) > 0 /\ IsBatch(records[Len(records)])
    THEN records[Len(records)].start + records[Len(records)].count
    ELSE request.start

Ascending(s) == \A i, j \in DOMAIN s : i < j => s[i] < s[j]

Listed(s) == {s[i] : i \in DOMAIN s}

(* The size of a batch at n. *)
BatchSize(n) == IF request.batch < End - n THEN request.batch ELSE End - n

(* Exactly the matching candidates of a batch at n, in order. *)
Lists(hits, n) ==
    /\ Ascending(hits)
    /\ Listed(hits) = matches \cap (n .. n + BatchSize(n) - 1)

Init ==
    /\ request \in [start : Nat, count : Nat, batch : Nat \ {0}]
    /\ matches \in SUBSET Requested
    /\ output = <<>>
    /\ exit = "running"

Write(r) ==
    /\ exit = "running"
    /\ output' = Append(output, r)
    /\ UNCHANGED <<request, matches, exit>>

Searching == output # <<>> /\ output[Len(output)].type \in {"device", "batch"}

Device ==
    /\ output = <<>>
    /\ Write([type |-> "device"])

Batch ==
    /\ Searching
    /\ Position(output) < End
    /\ \E hits \in HitLists :
          /\ Lists(hits, Position(output))
          /\ Write([type |-> "batch", start |-> Position(output),
                    count |-> BatchSize(Position(output)), hits |-> hits, overflow |-> FALSE])

(* stop_reason of a worker that stops at n. *)
Reason(n) == IF n = End THEN "completed" ELSE "max_seconds"

Summary ==
    /\ Searching
    /\ LET n == Position(output)
       IN Write([type |-> "summary", start |-> request.start, next |-> n,
                 tested |-> n - request.start, completed |-> n = End, reason |-> Reason(n)])

Finish ==
    /\ exit = "running" /\ output # <<>>
    /\ output[Len(output)].type = "summary"
    /\ exit' = "ok"
    /\ UNCHANGED <<request, matches, output>>

(* An error record is for a batch that does not fit; other failures are    *)
(* told on the standard error.                                             *)
Fail ==
    /\ exit = "running"
    /\ exit' = "error"
    /\ output' \in {output, Append(output, [type |-> "error"])}
    /\ UNCHANGED <<request, matches>>

Next == Device \/ Batch \/ Summary \/ Finish \/ Fail

Spec == Init /\ [][Next]_vars
=============================================================================
