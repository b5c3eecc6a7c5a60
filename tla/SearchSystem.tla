---------------------------- MODULE SearchSystem ----------------------------
(***************************************************************************)
(* run_search and a search worker that keeps WorkerProtocol, composed: the *)
(* command line that starts the worker, the records between the two, and   *)
(* the two clocks, the worker's limit and its driver's deadline.           *)
(*                                                                         *)
(* SearchRunner lets any worker send any record and allows every refusal;  *)
(* here the records are the worker's own, and the driver refuses exactly   *)
(* what the code refuses.  The order and wholeness of the records on their *)
(* way is what WorkerEvents shows.                                         *)
(*                                                                         *)
(* One worker is enough: there is one session at a time (the lock), it has *)
(* one worker, and a worker left behind by a killed session writes to      *)
(* nobody.  Time is counted in ticks; a tick passes only while the driver  *)
(* has nothing to read, so that its own work takes none.                   *)
(***************************************************************************)
EXTENDS SearchRunner

CONSTANTS
    Byte,           \* 256: candidates when nothing is unknown.
    Limit,          \* segment_seconds, MAX_SECONDS of the worker.
    Grace,          \* What the driver's deadline is more than that: 30 s.
    StartTime,      \* The most an honest worker takes to its device record and
                    \* the clock that it then starts (salsa_search.cu 143-147),
    BatchTime,      \* to test one batch,
    ExitTime        \* and to write its summary and exit.

ASSUME SystemConstants ==
    /\ \A c \in Configs : Exact(c) => Base[c] < Byte
    /\ Limit \in Nat \ {0}
    /\ {Byte, Grace, StartTime, BatchTime, ExitTime} \subseteq Nat
    /\ StartTime + BatchTime + ExitTime <= Grace
    /\ \A h \in HitLists : Len(h) <= HitLimit      \* hit_capacity is 4096, too.

(* SearchRunner's records have room for all that a worker writes. *)
ASSUME FieldsSuffice ==
    \A c \in Configs : \A n \in 0 .. Total[c] - 1 :
        /\ WorkerStart(c, n) .. WorkerStart(c, n) + WorkerCount(c, n) \subseteq FieldValues
        /\ 0 .. WorkerCount(c, n) \subseteq FieldValues

VARIABLES
    request, matches, output, exit, \* The worker, as in WorkerProtocol.
    goesOn,         \* It is testing a batch, and not about to sum up.
    taken,          \* Records of its output that the driver has read.
    elapsed,        \* The worker's clock since its device record.
    charged,        \* The time that counts for the driver's deadline.
    phase           \* How much of it since the worker's last record.

worker == <<request, matches, output, exit, goesOn>>
clocks == <<elapsed, charged, phase>>
runner == <<visible, survivors, session, handled>>
systemVars == <<runner, worker, taken, clocks>>

Worker == INSTANCE WorkerProtocol

NoRequest == [start |-> 0, count |-> 0, batch |-> 1]

-----------------------------------------------------------------------------
(* The worker's command line.                                              *)

Command(s) ==
    [start |-> WorkerStart(s.cfg, s.from), count |-> WorkerCount(s.cfg, s.from),
     batch |-> s.batch]

(* 256 ** number of offsets given, of which there are 1 to 5. *)
Space(c) ==
    CASE Sharded(c) -> ShardSize
      [] Exact(c)   -> Byte
      [] OTHER      -> Total[c]

(* What parse accepts: a range within the space, batches that are not      *)
(* empty.                                                                  *)
Parses(c, r) ==
    /\ r.start <= Space(c)
    /\ r.count <= Space(c) - r.start
    /\ r.batch >= 1

(* Slip: the sixth unknown byte not set in the state of the command line. *)
MatchingUnset(s) ==
    {w \in Command(s).start .. Command(s).start + Command(s).count - 1 : w \in Hits[s.cfg]}

Matching(s) ==
    {w \in Command(s).start .. Command(s).start + Command(s).count - 1 :
        Tested(s.cfg, s.from, w) \in Hits[s.cfg]}

StartWorker(p) ==
    /\ Launch(p)
    /\ request' = Command(session'[p])
    /\ matches' = Matching(session'[p])
    /\ output' = <<>> /\ taken' = 0 /\ goesOn' = TRUE
    /\ exit' = IF Parses(session[p].cfg, request') THEN "running" ELSE "error"
    /\ elapsed' = 0 /\ charged' = 0 /\ phase' = 0

(* There is no worker any more, or none that anyone listens to. *)
Dismissed ==
    /\ request' = NoRequest /\ matches' = {} /\ output' = <<>> /\ exit' = "none"
    /\ goesOn' = FALSE /\ taken' = 0
    /\ elapsed' = 0 /\ charged' = 0 /\ phase' = 0

-----------------------------------------------------------------------------
(* The worker.  It looks at its clock before each batch, which is as soon  *)
(* as the record before it is written.                                     *)

(* Slip: the clock looked at before the range. *)
AnotherBatchIfTime(position) == elapsed < Limit

AnotherBatch(position) == position < Worker!End /\ elapsed < Limit

WorkerDevice ==
    /\ Worker!Device
    /\ goesOn' = AnotherBatch(request.start)
    /\ phase' = 0
    /\ UNCHANGED <<runner, taken, elapsed, charged>>

WorkerBatch ==
    /\ goesOn
    /\ Worker!Batch
    /\ goesOn' = AnotherBatch(Worker!Position(output'))
    /\ phase' = 0
    /\ UNCHANGED <<runner, taken, elapsed, charged>>

WorkerSummary ==
    /\ ~ goesOn
    /\ Worker!Summary
    /\ UNCHANGED <<runner, goesOn, taken, clocks>>

WorkerFinish == Worker!Finish /\ UNCHANGED <<runner, goesOn, taken, clocks>>

WorkerFails == Worker!Fail /\ UNCHANGED <<runner, goesOn, taken, clocks>>

WorkerStep == WorkerDevice \/ WorkerBatch \/ WorkerSummary \/ WorkerFinish

-----------------------------------------------------------------------------
(* The driver, over SearchRunner's steps.                                  *)

Unread == taken < Len(output)
Record == output[taken + 1]

(* Slip: the deadline is the worker's own limit. *)
DeadlineAtLimit == Limit

(* max(30.0, segment_seconds + 30.0), and segment_seconds is positive. *)
Deadline == Limit + Grace

Acceptable(s) ==
    CASE Record.type = "device"  -> ~ s.device /\ ~ s.summary
      [] Record.type = "batch"   -> Accepts(s, Record)
      [] Record.type = "summary" -> Agrees(s, Record)
      [] OTHER                   -> FALSE

(* A SearchError about the worker: a record, the exit, the time it takes,  *)
(* or a segment in which it did nothing.                                   *)
Refuses(p) ==
    /\ At(p, "events")
    /\ \/ Unread /\ ~ Acceptable(session[p])
       \/ ~ Unread /\ exit = "error"
       \/ ~ Unread /\ exit = "ok" /\ ~ (session[p].summary /\ Progressed(session[p]))
       \/ ~ Unread /\ exit = "running" /\ charged >= Deadline

ReadRecord(p) ==
    /\ Unread
    /\ \/ Record.type = "device" /\ Device(p)
       \/ Record.type = "batch" /\ TakeBatch(p, Record)
       \/ Record.type = "summary" /\ TakeSummary(p, Record)
    /\ taken' = taken + 1
    /\ UNCHANGED <<worker, clocks>>

SeeExit(p) ==
    /\ ~ Unread /\ exit = "ok"
    /\ Exit(p)
    /\ Dismissed

Refuse(p) == Refuses(p) /\ Reject(p) /\ Dismissed

(* The steps that the worker has no part in. *)
Alone(p) ==
    /\ \/ Open(p) \/ Busy(p) \/ LoadNothing(p) \/ LoadPosition(p) \/ LoadRefused(p)
       \/ Save(p) \/ SaveSync(p) \/ Resume(p) \/ Finish(p)
    /\ UNCHANGED <<worker, taken, clocks>>

(* The generator's finally clauses, or a kill: the worker is stopped or no *)
(* longer heard.                                                           *)
Abandon(p) == (Close(p) \/ Die(p)) /\ Dismissed

SystemPowerLoss == PowerLoss /\ Dismissed

-----------------------------------------------------------------------------
(* Time.                                                                   *)

(* How long an honest worker may be silent. *)
Patience ==
    IF output = <<>> THEN StartTime ELSE IF goesOn THEN BatchTime ELSE ExitTime

Later == IF output # <<>> /\ elapsed < Limit THEN elapsed + 1 ELSE elapsed

(* The driver waits in select, and the worker is at work. *)
Tick ==
    /\ exit = "running" /\ ~ Unread
    /\ \E p \in Procs : At(p, "events")
    /\ phase < Patience
    /\ elapsed' = Later /\ charged' = charged + 1 /\ phase' = phase + 1
    /\ UNCHANGED <<runner, worker, taken>>

(* The driver saves or its caller has a hit: the deadline is put off by as *)
(* much, and the worker's clock goes on.                                   *)
TickAway ==
    /\ exit = "running"
    /\ \E p \in Procs : session[p].pc \in {"yield", "save", "sync"}
    /\ elapsed' = Later
    /\ UNCHANGED <<runner, worker, taken, charged, phase>>

-----------------------------------------------------------------------------
SystemInit ==
    /\ Init
    /\ request = NoRequest /\ matches = {} /\ output = <<>> /\ exit = "none"
    /\ goesOn = FALSE /\ taken = 0
    /\ elapsed = 0 /\ charged = 0 /\ phase = 0

Driver(p) == StartWorker(p) \/ ReadRecord(p) \/ SeeExit(p) \/ Refuse(p) \/ Alone(p)

SystemNext ==
    \/ \E p \in Procs : Driver(p) \/ Abandon(p)
    \/ SystemPowerLoss
    \/ WorkerStep \/ WorkerFails
    \/ Tick \/ TickAway

SystemSpec == SystemInit /\ [][SystemNext]_systemVars

-----------------------------------------------------------------------------
(* Properties.                                                             *)

(* A worker that keeps its protocol and is not exceptionally slow is never *)
(* refused, at any position, shard, batch size or resumption, however long *)
(* the caller takes and wherever the worker's limit falls: parse accepts   *)
(* its command line (cli.hpp 81-91), its records are those the driver      *)
(* expects, its time is up before the driver's patience, and it never ends *)
(* without a batch (search_runner.py 276-341, salsa_search.cu 151-193).    *)
HonestNeverRefused ==
    /\ \A p \in Procs : At(p, "events") => Parses(session[p].cfg, request)
    /\ \A p \in Procs : Refuses(p) => exit = "error"

(* Whatever this worker writes is what SearchRunner says of any worker:    *)
(* all that is shown there of lost and repeated hits holds of the two      *)
(* programs together.                                                      *)
ImplementsRunner == Spec

(* With a worker that does not fail and nothing else going wrong any more, *)
(* a search is finished, in as many segments as its limit makes of it: no  *)
(* remainder of an earlier session, border of a shard or batch size keeps  *)
(* driver and worker from understanding each other.                        *)
Disturbance ==
    \/ WorkerFails \/ SystemPowerLoss \/ \E p \in Procs : Abandon(p) \/ LoadRefused(p)

HonestCompletes ==
    visible = NoFile /\ <>[][~ Disturbance]_systemVars
        => <>(\E p \in Procs : session[p].outcome = "complete")
=============================================================================
