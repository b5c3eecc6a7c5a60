---------------------------- MODULE SearchRunner ----------------------------
(***************************************************************************)
(* run_search of cuda/search_runner.py: a generator that drives worker     *)
(* processes over the candidates 0 .. Total - 1 of a search, hands every   *)
(* hit to its caller and keeps its position in a checkpoint file, so that  *)
(* a later session goes on where this one stopped.                         *)
(*                                                                         *)
(* Several processes may run sessions on the same checkpoint path, each    *)
(* with a configuration of its own; sessions end at any point by an error, *)
(* by the caller closing the generator, by a kill or a power loss.         *)
(*                                                                         *)
(* Abstractions.  A configuration is a model value; what the worker tests  *)
(* is told by the candidate numbers that match (Hits).  Records of the     *)
(* worker are arbitrary but truthful: it may send any field values, and    *)
(* what it says of the range it names is right unless it says "overflow".  *)
(* The checkpoint is the atomic file that _save implements                 *)
(* (CheckpointStore).  Status callbacks, ticks and time are left out: they *)
(* change nothing here, and an exception in one is Die.                    *)
(***************************************************************************)
EXTENDS Integers, Sequences

CONSTANTS
    Procs,          \* Processes that may call run_search on the path.
    Configs,        \* (state_base, unknown_offsets, target) of a call.
    Total,          \* Total[c]: 256 ** number of unknown offsets.
    Hits,           \* Hits[c]: the candidates of c that match.
    Base,           \* Base[c]: state_base[0], used when nothing is unknown.
    ShardSize,      \* 2 ** 40: the most one worker call can enumerate.
    BatchSizes,     \* Values of batch_count that callers use.
    HitLimit,       \* 4096: the most hits a batch record may list.
    FieldValues,    \* Integers a worker may put in a record.
    HitLists,       \* Hit lists a worker may put in a record.
    NoFile,         \* The path does not exist.
    Damaged         \* It holds what _load refuses whoever asks.

Checkpoint == [cfg : Configs, pos : Nat]
Content == Checkpoint \cup {NoFile, Damaged}

ASSUME ShardSizePositive == ShardSize \in Nat \ {0}

(* One worker call covers a search without a sixth offset; with it, whole  *)
(* shards cover the search.                                                *)
ASSUME TotalsWhole ==
    /\ Total \in [Configs -> Nat \ {0}]
    /\ \A c \in Configs : Total[c] > ShardSize => Total[c] % ShardSize = 0

ASSUME HitsAreCandidates ==
    /\ Hits \in [Configs -> SUBSET Nat]
    /\ \A c \in Configs : \A h \in Hits[c] : h < Total[c]

ASSUME OthersTyped ==
    /\ Base \in [Configs -> Nat]
    /\ BatchSizes \subseteq Nat \ {0}
    /\ HitLimit \in Nat
    /\ FieldValues \subseteq Int
    /\ HitLists \subseteq Seq(Int)

ASSUME FilesDistinct ==
    /\ NoFile \notin Checkpoint
    /\ Damaged \notin Checkpoint
    /\ NoFile # Damaged

VARIABLES
    visible,        \* What the checkpoint path holds.
    survivors,      \* What it may hold after a power loss.
    session,        \* session[p]: the locals of p's run_search.
    handled         \* handled[c]: hits of c the callers have got past.

vars == <<visible, survivors, session, handled>>

File == INSTANCE AtomicFile

-----------------------------------------------------------------------------
(* A session.                                                              *)
(*   idle    no generator, or one that has ended; the lock is not held     *)
(*   load    the lock is held, _load is to run                             *)
(*   loop    at the head of "while next_candidate < total"                 *)
(*   events  waiting for a worker's next event                             *)
(*   yield   suspended at "yield hit + delta"                              *)
(*   save    in _save, the document not yet in place                       *)
(*   sync    in _save, the document in place, the directory not yet synced *)

PCs == {"idle", "load", "loop", "events", "yield", "save", "sync"}
Outcomes == {"none", "complete", "closed", "error"}

Unlaunched == -1    \* from, before the first worker is launched.

Session ==
    [pc      : PCs,
     outcome : Outcomes,
     cfg     : Configs,
     batch   : BatchSizes,          \* batch_count
     next    : Nat,                 \* next_candidate
     from    : Nat \cup {Unlaunched}, \* next_candidate when the worker started
     goal    : Nat,                 \* position that the batch or _load saves
     device  : BOOLEAN,             \* saw_device
     summary : BOOLEAN,             \* summary is not None
     hits    : HitLists \cup {<<>>}, \* hits of the batch being handed out
     at      : Nat]                 \* index of the hit that is yielded

NewSession(c, b) ==
    [pc |-> "load", outcome |-> "none", cfg |-> c, batch |-> b, next |-> 0,
     from |-> Unlaunched, goal |-> 0, device |-> FALSE, summary |-> FALSE,
     hits |-> <<>>, at |-> 1]

At(p, pc) == session[p].pc = pc

Becomes(p, s) == session' = [session EXCEPT ![p] = s]

(* The generator ends: its locals are gone, and closing its descriptor     *)
(* releases the lock.                                                      *)
Ended(s, outcome) ==
    [NewSession(s.cfg, s.batch) EXCEPT !.pc = "idle", !.outcome = outcome]

Document(c, pos) == [cfg |-> c, pos |-> pos]

-----------------------------------------------------------------------------
(* Segments: what one worker process is asked to enumerate, and how its    *)
(* candidate numbers relate to those of the search.                        *)

Sharded(c) == Total[c] > ShardSize      \* len(unknown_offsets) == 6
Exact(c)   == Total[c] = 1              \* not unknown_offsets

WorkerStart(c, n) ==
    CASE Sharded(c) -> n % ShardSize
      [] Exact(c)   -> Base[c]
      [] OTHER      -> n

(* Slip: the rest of a shard taken for a whole one. *)
WorkerCountWhole(c, n) == IF Exact(c) THEN 1 ELSE IF Sharded(c) THEN ShardSize ELSE Total[c] - n

WorkerCount(c, n) ==
    CASE Sharded(c) -> ShardSize - WorkerStart(c, n)
      [] Exact(c)   -> 1
      [] OTHER      -> Total[c] - n

(* What the worker's candidate numbers are short of the search's. *)
Delta(c, n) == n - WorkerStart(c, n)

(* Slip: the sixth unknown byte left as it was. *)
ShardUnset(n) == 0

(* The byte written over the sixth unknown offset before a launch at n. *)
Shard(n) == n \div ShardSize

(* The candidate a worker launched at n tests as its number w: five bytes  *)
(* of w over the state that holds the shard; with nothing unknown, the     *)
(* state itself when w is its own byte 0.                                  *)
Tested(c, n, w) ==
    CASE Sharded(c) -> Shard(n) * ShardSize + w
      [] Exact(c)   -> w - Base[c]
      [] OTHER      -> w

WorkerEnd(s) == WorkerStart(s.cfg, s.from) + WorkerCount(s.cfg, s.from)
WorkerNext(s) == s.next - Delta(s.cfg, s.from)

(* The hit the caller is given at a yield. *)
Yielded(s) == s.hits[s.at] + Delta(s.cfg, s.from)

-----------------------------------------------------------------------------
(* Records.                                                                *)

BatchRecord ==
    [start : FieldValues, count : FieldValues, overflow : BOOLEAN, hits : HitLists]

Range(r) == r.start .. r.start + r.count - 1

(* What any worker's batch record is worth: without overflow, it lists     *)
(* exactly the candidates that match among those it names.                 *)
Truthful(s, r) ==
    ~ r.overflow =>
        \A w \in Range(r) :
            (\E i \in DOMAIN r.hits : r.hits[i] = w)
                <=> Tested(s.cfg, s.from, w) \in Hits[s.cfg]

Expected(s) ==
    IF s.batch < WorkerEnd(s) - WorkerNext(s) THEN s.batch ELSE WorkerEnd(s) - WorkerNext(s)

(* Slips: a gap before the batch, and a batch sent again, let through. *)
ContiguousOrGap(s, r) == r.start >= WorkerNext(s)
ContiguousOrAgain(s, r) == r.start <= WorkerNext(s)
Contiguous(s, r) == r.start = WorkerNext(s)

WholeBatch(s, r) == r.count >= 1 /\ r.count = Expected(s)

(* Slip: the overflow flag ignored. *)
CompleteOrNot(r) == TRUE
Complete(r) == ~ r.overflow

HitsInOrder(r) ==
    /\ Len(r.hits) <= HitLimit
    /\ \A i \in DOMAIN r.hits : r.hits[i] \in Range(r)
    /\ \A i, j \in DOMAIN r.hits : i < j => r.hits[i] < r.hits[j]

Accepts(s, r) ==
    /\ s.device /\ ~ s.summary
    /\ Contiguous(s, r)
    /\ WholeBatch(s, r)
    /\ Complete(r)
    /\ HitsInOrder(r)

(* A summary record: where the worker started and stopped, how much that   *)
(* is, and, twice, whether that was its end or its time was up.  completed *)
(* is the worker's own reckoning, and the runner compares it with its.     *)
SummaryRecord ==
    [start : FieldValues, next : FieldValues, tested : FieldValues,
     completed : BOOLEAN, reason : {"completed", "max_seconds", "other"}]

Reckoned(s, r) == r.completed = (r.next = WorkerEnd(s))

(* The record adds up the segment's batches, all there were if completed. *)
SumsUp(s, r, completed) ==
    /\ s.device /\ ~ s.summary
    /\ r.start = WorkerStart(s.cfg, s.from)
    /\ r.next = WorkerNext(s)
    /\ r.tested = WorkerNext(s) - WorkerStart(s.cfg, s.from)
    /\ r.completed = completed
    /\ r.reason = IF completed THEN "completed" ELSE "max_seconds"

(* Slip: tested taken to count from the worker's candidate 0. *)
AgreesFromZero(s, r) ==
    /\ r.tested = WorkerNext(s)
    /\ SumsUp(s, [r EXCEPT !.tested = WorkerNext(s) - WorkerStart(s.cfg, s.from)],
              WorkerNext(s) = WorkerEnd(s))

Agrees(s, r) == SumsUp(s, r, WorkerNext(s) = WorkerEnd(s))

(* Slip: the last hit of a batch dropped. *)
HandingButLast(hits, i) == IF i + 1 < Len(hits) THEN "yield" ELSE "save"

(* "for hit in hits: yield": where a batch goes when i hits are behind it. *)
Handing(hits, i) == IF i < Len(hits) THEN "yield" ELSE "save"

-----------------------------------------------------------------------------
(* Starting a session.                                                     *)

(* Slip: the lock not taken. *)
LockIgnored == TRUE

(* flock(LOCK_EX | LOCK_NB) succeeds. *)
LockFree == \A q \in Procs : At(q, "idle")

Open(p) ==
    /\ At(p, "idle")
    /\ LockFree
    /\ \E c \in Configs, b \in BatchSizes : Becomes(p, NewSession(c, b))
    /\ UNCHANGED <<visible, survivors, handled>>

Busy(p) ==
    /\ At(p, "idle")
    /\ ~ LockFree
    /\ Becomes(p, Ended(session[p], "error"))
    /\ UNCHANGED <<visible, survivors, handled>>

(* Slip: the configuration of the document not compared. *)
UsableByAnyone(c, doc) == doc \in Checkpoint /\ doc.pos <= Total[c]

Usable(c, doc) ==
    /\ doc \in Checkpoint
    /\ doc.cfg = c
    /\ doc.pos <= Total[c]

(* No file: _load goes on to save position 0. *)
LoadNothing(p) ==
    /\ At(p, "load")
    /\ visible = NoFile
    /\ Becomes(p, [session[p] EXCEPT !.pc = "save", !.goal = 0])
    /\ UNCHANGED <<visible, survivors, handled>>

LoadPosition(p) ==
    /\ At(p, "load")
    /\ Usable(session[p].cfg, visible)
    /\ Becomes(p, [session[p] EXCEPT !.pc = "loop", !.next = visible.pos])
    /\ UNCHANGED <<visible, survivors, handled>>

(* Another search's document, or none at all: SearchError. *)
LoadRefused(p) ==
    /\ At(p, "load")
    /\ visible # NoFile
    /\ ~ Usable(session[p].cfg, visible)
    /\ Becomes(p, Ended(session[p], "error"))
    /\ UNCHANGED <<visible, survivors, handled>>

-----------------------------------------------------------------------------
(* Saving: the two steps of _save that others can tell apart.              *)

Save(p) ==
    /\ At(p, "save")
    /\ File!Replace(Document(session[p].cfg, session[p].goal))
    /\ Becomes(p, [session[p] EXCEPT !.pc = "sync"])
    /\ UNCHANGED handled

SaveSync(p) ==
    /\ At(p, "sync")
    /\ File!Sync
    /\ Becomes(p, [session[p] EXCEPT
           !.pc = IF session[p].from = Unlaunched THEN "loop" ELSE "events",
           !.next = session[p].goal])
    /\ UNCHANGED handled

-----------------------------------------------------------------------------
(* The search loop.                                                        *)

Launch(p) ==
    /\ At(p, "loop")
    /\ session[p].next < Total[session[p].cfg]
    /\ Becomes(p, [session[p] EXCEPT !.pc = "events", !.from = session[p].next,
                                     !.device = FALSE, !.summary = FALSE])
    /\ UNCHANGED <<visible, survivors, handled>>

Finish(p) ==
    /\ At(p, "loop")
    /\ session[p].next >= Total[session[p].cfg]
    /\ Becomes(p, Ended(session[p], "complete"))
    /\ UNCHANGED <<visible, survivors, handled>>

Device(p) ==
    /\ At(p, "events")
    /\ ~ session[p].device /\ ~ session[p].summary
    /\ Becomes(p, [session[p] EXCEPT !.device = TRUE])
    /\ UNCHANGED <<visible, survivors, handled>>

TakeBatch(p, r) ==
    /\ At(p, "events")
    /\ Accepts(session[p], r)
    /\ Becomes(p, [session[p] EXCEPT
           !.pc = Handing(r.hits, 0), !.hits = r.hits, !.at = 1,
           !.goal = r.start + r.count + Delta(session[p].cfg, session[p].from)])
    /\ UNCHANGED <<visible, survivors, handled>>

Batch(p) ==
    /\ At(p, "events")
    /\ \E r \in BatchRecord : TakeBatch(p, r) /\ Truthful(session[p], r)

(* The caller asks for more: it is done with the hit it was given. *)
Resume(p) ==
    /\ At(p, "yield")
    /\ handled' = [handled EXCEPT ![session[p].cfg] = @ \cup {Yielded(session[p])}]
    /\ Becomes(p, [session[p] EXCEPT
           !.pc = Handing(session[p].hits, session[p].at), !.at = @ + 1])
    /\ UNCHANGED <<visible, survivors>>

TakeSummary(p, r) ==
    /\ At(p, "events")
    /\ Agrees(session[p], r)
    /\ Becomes(p, [session[p] EXCEPT !.summary = TRUE])
    /\ UNCHANGED <<visible, survivors, handled>>

Summary(p) ==
    /\ At(p, "events")
    /\ \E r \in SummaryRecord : TakeSummary(p, r) /\ Reckoned(session[p], r)

(* Slip: the check for an empty segment left out. *)
ProgressedOrNot(s) == TRUE

(* worker_next # worker_start *)
Progressed(s) == s.next # s.from

(* The worker exits with code 0 after its summary; the next segment.       *)
Exit(p) ==
    /\ At(p, "events")
    /\ session[p].summary
    /\ Progressed(session[p])
    /\ Becomes(p, [session[p] EXCEPT !.pc = "loop"])
    /\ UNCHANGED <<visible, survivors, handled>>

-----------------------------------------------------------------------------
(* The ways a session ends early.                                          *)

(* "Исполнитель не проверил ни одного кандидата": the summary agreed, the  *)
(* worker exited with code 0, and nothing was tested.                      *)
NoProgress(p) ==
    /\ At(p, "events")
    /\ session[p].summary
    /\ ~ Progressed(session[p])
    /\ Becomes(p, Ended(session[p], "error"))
    /\ UNCHANGED <<visible, survivors, handled>>

(* Any other SearchError while a worker runs: a record out of order, with  *)
(* a gap, overflow or bad hits, an error record, a wrong summary, a second *)
(* device, an exit code, an exit without a summary, a broken line, a       *)
(* timeout.  None of them changes the checkpoint.                          *)
Reject(p) ==
    /\ At(p, "events")
    /\ Becomes(p, Ended(session[p], "error"))
    /\ UNCHANGED <<visible, survivors, handled>>

(* The caller closes the generator, or drops it, instead of resuming it.   *)
Close(p) ==
    /\ At(p, "yield")
    /\ Becomes(p, Ended(session[p], "closed"))
    /\ UNCHANGED <<visible, survivors, handled>>

(* An exception anywhere (a callback's, an OSError of _save), or a kill.   *)
Die(p) ==
    /\ ~ At(p, "idle")
    /\ Becomes(p, Ended(session[p], "error"))
    /\ UNCHANGED <<visible, survivors, handled>>

PowerLoss ==
    /\ File!PowerLoss
    /\ session' = [p \in Procs |-> IF At(p, "idle") THEN session[p]
                                                    ELSE Ended(session[p], "error")]
    /\ UNCHANGED handled

-----------------------------------------------------------------------------
(* The specification.                                                      *)

Init ==
    /\ visible \in {NoFile, Damaged}
    /\ survivors = {visible}
    /\ \E c \in Configs, b \in BatchSizes :
          session = [p \in Procs |-> Ended(NewSession(c, b), "none")]
    /\ handled = [c \in Configs |-> {}]

(* A session, its worker and its caller doing their part. *)
Advance(p) ==
    \/ LoadNothing(p) \/ LoadPosition(p) \/ Save(p) \/ SaveSync(p)
    \/ Launch(p) \/ Finish(p)
    \/ Device(p) \/ Batch(p) \/ Resume(p) \/ Summary(p) \/ Exit(p)

(* What ends a session before its search is over, short of a crash. *)
Fail(p) == LoadRefused(p) \/ NoProgress(p) \/ Reject(p) \/ Close(p)

Next ==
    \/ PowerLoss
    \/ \E p \in Procs : Open(p) \/ Busy(p) \/ Die(p) \/ Fail(p) \/ Advance(p)

Spec == Init /\ [][Next]_vars

-----------------------------------------------------------------------------
(* Properties.                                                             *)

(* Locals, files and positions are of their types, and no position is      *)
(* beyond the end of its search: _load would refuse one that is, and a     *)
(* search would never end on it.                                           *)
TypeOK ==
    /\ visible \in Content
    /\ survivors \subseteq Content
    /\ \A doc \in survivors \cap Checkpoint : doc.pos <= Total[doc.cfg]
    /\ session \in [Procs -> Session]
    /\ \A p \in Procs : session[p].next <= Total[session[p].cfg]
    /\ \A p \in Procs : session[p].goal <= Total[session[p].cfg]
    /\ handled \in [Configs -> SUBSET Int]

(* A document vouches for the candidates below its position. *)
Covered(c, n) == \A h \in Hits[c] : h < n => h \in handled[c]

(* "Without losing hits": whatever document a later session may find, now  *)
(* or after a power loss, every hit below its position has been given to a *)
(* caller that went on past it.  The order of yield and _save at lines     *)
(* 318-321 is for this, and so are the checks of a batch record.           *)
NoLostHit ==
    \A doc \in (survivors \cup {visible}) \cap Checkpoint : Covered(doc.cfg, doc.pos)

(* A generator that runs to its end has handed out every hit of its search *)
(* in this session or in earlier ones.                                     *)
CompleteMeansAll ==
    \A p \in Procs :
        session[p].outcome = "complete" => Hits[session[p].cfg] \subseteq handled[session[p].cfg]

(* What a caller is given is a hit of its own search, numbered as the      *)
(* search numbers it: shard, worker_start and delta of lines 258-273 agree *)
(* with what the worker was told to test.                                  *)
YieldsTrueHits ==
    \A p \in Procs :
        At(p, "yield") => Yielded(session[p]) \in Hits[session[p].cfg]

(* A caller is never given again what a checkpoint on the disk says is     *)
(* done: resuming repeats the unfinished batch and nothing before it.      *)
NeverRepeatsCommitted ==
    \A p \in Procs : \A doc \in survivors \cap Checkpoint :
        At(p, "yield") /\ doc.cfg = session[p].cfg => Yielded(session[p]) >= doc.pos

(* The documents that can be found only ever move forward, and the path    *)
(* never passes from one search to another, nor from a damaged file to a   *)
(* search: a second session, a stale position or a mismatched              *)
(* configuration would be what breaks this.                                *)
Follows(new, old) ==
    \/ new = old
    \/ old = NoFile
    \/ /\ old \in Checkpoint /\ new \in Checkpoint
       /\ new.cfg = old.cfg /\ new.pos > old.pos

DurableProgress ==
    [][\A new \in survivors' : \E old \in survivors : Follows(new, old)]_vars

(* What a running session believes is on the path is there: nobody else    *)
(* writes it between _load and the next _save, even though nothing is read *)
(* again in between (lines 235 and 321).                                   *)
PositionIsCurrent ==
    \A p \in Procs :
        \/ session[p].pc \in {"idle", "load", "sync"}
        \/ session[p].from = Unlaunched /\ session[p].pc = "save" /\ visible = NoFile
        \/ visible = Document(session[p].cfg, session[p].next)

(* The promise made to the caller, with what survives as its claims.       *)
Promise == INSTANCE ResumableSearch
    WITH claims <- survivors, Foreign <- {NoFile, Damaged}

ImplementsPromise == Promise!Spec

(* What a session has still to do, the weightiest first: candidates, one   *)
(* more worker if it has got on since it launched the last, the way from   *)
(* the head of its loop to the next save, and hits to hand out.            *)
Stage(s) ==
    CASE s.pc = "load"   -> 8
      [] s.pc = "events" -> 7 - (IF s.device THEN 1 ELSE 0) - (IF s.summary THEN 1 ELSE 0)
      [] s.pc = "yield"  -> 4
      [] s.pc = "save"   -> 3
      [] s.pc = "sync"   -> 2
      [] OTHER           -> 1

Remaining(s) ==
    <<Total[s.cfg] - s.next,
      IF s.from = s.next THEN 0 ELSE 1,
      Stage(s),
      IF s.pc = "yield" THEN Len(s.hits) - s.at ELSE 0>>

Less(a, b) == \E i \in 1 .. 4 : a[i] < b[i] /\ \A j \in 1 .. i - 1 : a[j] = b[j]

(* No session runs for ever, whatever records its worker sends and however *)
(* often it exits: every step of a session brings it nearer to its end, in *)
(* an order in which nothing comes nearer for ever.  A worker that exits   *)
(* with nothing tested would be launched again and again (line 340).       *)
SessionAdvances ==
    [][\A p \in Procs :
          session'[p] # session[p] /\ session[p].pc # "idle" /\ session'[p].pc # "idle" =>
              /\ \A i \in 1 .. 4 : Remaining(session[p])[i] \in Nat
              /\ Less(Remaining(session'[p]), Remaining(session[p]))]_vars
=============================================================================
