# Verification of ayaz-decryptor

TLA+ models of the parts of this repository whose correctness depends on order,
interruption or exact arithmetic, with TLC runs on small instances and TLAPS
proofs for all of them. The program decrypts files from metadata streams that a
user already knows (`ayaz_decryptor/`) and searches for up to six unknown bytes
of a Salsa20 state on a GPU (`cuda/`). Two promises carry it: a search that may
take weeks **never loses a hit**, whatever stops it, and a decryption that is
reported as done **is the file it claims to be**.

## 1. The system

| Part | Code | State it keeps | Talks to |
| --- | --- | --- | --- |
| Resumable search | `run_search`, `_load` in `cuda/search_runner.py` | position, segment of the current worker, batch being handed out, lock on `<checkpoint>.lock` | caller (generator), worker records, checkpoint file |
| Checkpoint file | `_save` | temporary file, checkpoint's directory entry | file system |
| Worker process and pipes | `_worker_events`, `_stop`, `_signal_worker` | selector, unfinished line, deadline, child process | worker by two pipes and signals, `run_search` by yields |
| GPU worker | `cuda/salsa_search.cu` | host position, device counter, overflow flag, hit buffer | its standard output |
| Worker command line | `cuda/cli.hpp` | the number being read | the arguments that `run_search` gives |
| Body decryption | `transform_body`, `_write_all` in `ayaz_decryptor/core.py` | stretch, remaining bytes, keystream block, hash | source, target |
| File decryption | `decrypt_file`, `read_footer` | open source and its first status, created output | file system |
| Metadata decoding | `decode_info` | none | footer of the file, profile of its group |
| Salsa20 | `ayaz_decryptor/crypto.py`, `_native.c` | 64-bit block counter | |
| aPLib | `aplib_decompress` in `crypto.py` | bit reader, output, last offset | names in `decode_info` |
| Pair analysis | `iter_pairs`, `analyze_archive` in `ayaz_decryptor/pairs.py` | observations per group and position | ZIP archive; its profiles go to `decode_info` |
| Command line | `ayaz_decryptor/__main__.py` | the report file | all of `ayaz_decryptor` |
| Demo, benchmarks, packaging | `examples/`, `benchmarks/`, `setup.py` | none | |

What is hard about each, and what makes it correct:

* **Search.** It is a generator: between any two statements its caller may stop
  for good, the process may be killed or the machine lose power. Two processes
  may be started on one checkpoint. The order "yield the hits, then save the
  position behind them" is all that stands between a crash and a lost hit; the
  checks of a batch record are all that stands between a faulty worker and a
  hole in the range. Six unknown bytes are 2^48 candidates, and a worker counts
  only to 2^40, so positions are translated between two numberings.
* **Checkpoint.** Every system call may fail or be the last. Correct means: a
  reader finds a whole document, and a document whose `_save` returned is the one.
* **Worker events.** The output arrives in arbitrary cuts; the worker may be
  silent, flood, hang up, exit, or refuse to; the consumer may take its time or
  never come back. Correct means: no line lost before the exit is reported, no
  blame without cause, an end in every case, and no process left behind unless an
  error says so: the worker may be one that cannot be signalled.
* **GPU worker.** Threads race for places in one buffer that is never cleared.
  Correct means that no race shows in what is published.
* **Decryption.** Two concurrent callers, a source that changes, a target that
  takes part of a write, a keystream that runs through gaps in the file, a
  clean-up that may fail itself, a directory that is never synced.
* **Profiles.** The bytes of a metadata stream are inferred from a guess about
  every pair, one pair may not be of the format, and metadata of different sizes
  use the stream at different places. Nothing in a decoded key shows that it is
  wrong: what was confirmed by a pair of the format must be right, and nothing
  unconfirmed may be used.
* **aPLib.** Damaged input: without its checks an offset of 0 would be the first
  byte of the result, and one beyond its start an `IndexError` that no caller
  expects; tag bits and bytes share one position. Correct means: within the limit
  for any bytes, and the original for a whole stream.
* **The two ends of the pipe.** The driver refuses a worker for any record that
  is not the one it expects, and for taking too long. Correct means: a worker
  that does its work is never refused, wherever a search was interrupted.
* **Command line.** Several pairs, of which some are bad, and several calls with
  one report path. Correct means: exit 0 is earned by every pair.
* **Salsa20.** Two implementations, one without and one with integer overflow,
  must refuse the same calls and never use a counter twice.

`PROJECT.json` lists the single hazards with their lines and properties.

## 2. The modules

```
 ResumableSearch   what a caller is promised          AtomicFile   what a checkpoint is
        ^ implemented by                                ^ used by       ^ implemented by
        +------------- SearchRunner --------------------+        CheckpointStore
                         ^ implemented by                         (_save)
                   SearchSystem  <----- implemented by -----  GpuSystem
     (driver, pipe, clocks, command line)                        |
                         | composed with                         | composed with
                   WorkerProtocol  <---- implemented by ----  GpuSearch

   WorkerEvents    (the bytes: order and wholeness of the pipe)
   CommandNumbers  (the numbers of the command line)

 CommandLine  (exit codes and reports)
        | calls
 DecryptFile  (files, callers, crashes)
        | copies pieces as
   BodyTransform  --keystream of-->  SalsaCounter
        | opens by
   MetadataProfile  (pairs -> profile -> scheme and key)
        | name by
   ApLib  --compared with-->  ApLibText, made by ApLibFormat
```

`MC*` modules hold the instances for TLC, `*Proofs` the theorems. Definitions
whose comment begins with "Slip" are not part of a model: each states one
plausible mistake at the definition that follows it, and replacing the one by
the other must break the property that `PROJECT.json` names under `mutants`.

### SearchRunner

`session[p]` holds the locals of `run_search` in process `p`, `pc` its place in
the code: `load`, `loop` (head of the while), `events` (waiting for the worker),
`yield`, and `save` and `sync`, the two halves of `_save` that others can tell
apart (before and after `os.replace`). `visible` is what the checkpoint path
holds and `survivors` what it may hold after a power loss; `handled` records the
hits that a caller has got past, which is what a checkpoint vouches for.

| Action | Code (`search_runner.py`) |
| --- | --- |
| `Open`, `Busy` | 222–234, the lock taken or not |
| `LoadNothing`, `LoadPosition`, `LoadRefused` | `_load`, 74–98 |
| `Save`, `SaveSync` | `_save`, 63 and 64–68; 321–323 |
| `Launch`, `Finish` | 257–284; 343 |
| `Device`, `Batch`, `Resume`, `Summary`, `Exit` | 297–301; 306–319; 318–320; 325–333; 289–293, 336–341 |
| `NoProgress`, `Reject` | 340; every other `SearchError` of a segment |
| `Close`, `Die`, `PowerLoss` | generator closed at a yield; exception or kill anywhere; power loss |

The worker is not a module here but every record it could send: `Batch` ranges
over all field values and hit lists, restricted by `Truthful` only to say that a
record without `overflow` lists exactly the matching candidates of the range it
names. Everything else, gaps, repetitions, wrong counts and orders, the code has
to refuse. `Summary` ranges over all values of the five fields that the code
compares (`SumsUp`), `tested` and `stop_reason` among them. Lines 199–221 (types of the arguments), ticks and status callbacks
change nothing and are left out; an exception of a callback is `Die`.

Properties: `NoLostHit` (every document that may be found, now or after a power
loss, is past handled hits only), `CompleteMeansAll`, `YieldsTrueHits` (shard
and delta arithmetic against the candidate the worker really tests),
`NeverRepeatsCommitted`, `PositionIsCurrent` (the position read once and kept is
still the path's), `DurableProgress` (documents only move forward, within one
search), `ImplementsPromise` (refinement of `ResumableSearch`) and
`SessionAdvances`: every step of a session, whatever records its worker sends, is
a descent in a lexicographic order of four numbers (candidates left, whether the
worker has tested any, stage, hits left to hand out). A session that is not stuck
in one step therefore ends. This is said as an action property and not as
`<>ended` under fairness because it is then a statement that can be proved, and
because what makes each single step end is the subject of other modules: the
worker's deadline (`WorkerEvents`), the caller who resumes or closes.

### CheckpointStore and AtomicFile

`_save` call by call. An inode has the data a reader sees (`data`) and the data
the disk may have for it (`disk`); the checkpoint's name leads to an inode now
(`entry`) and to one of `kept` after a power loss. `fsync` of the file shrinks
`disk`, `os.replace` moves `entry` and widens `kept`, `fsync` of the directory
shrinks `kept`. Any call may fail, a kill or power loss may come between any
two. `ImplementsFile` is the refinement of `AtomicFile`, whose `Replace`, `Sync`
and `PowerLoss` are what `SearchRunner` uses; so the two modules together say
what the search does on a real file system.

### WorkerEvents

The pipe and the unfinished line are sequences of tokens, so that lines are cut
by pipe, reads and end of stream in every way. Time is counted in the quarter
second of a `select`; `left` is the deadline minus now, `away` the time the
consumer holds the generator. The worker is unrestricted. `NothingLost` relates
what was yielded, is pending and is in the pipe to all that was written;
`AllBeforeExit`, `BlameIsJust` and `TimesOutJustly` say what each way to end
means; `NoWorkerLeft` and `SignalsItsWorker` follow the child through `_stop`,
with the exit that races `killpg`; `GeneratorEnds` is liveness.

The code does not stop the worker in every case. Where neither `killpg` nor
`send_signal` is allowed and the worker runs, `_signal_worker` raises the
`PermissionError` again and `_stop` ends without a wait (`NotSignalled`); SIGKILL
may not take effect in three seconds (`LastWaitOver`); and an interrupt may come
after `Popen` and before the `try` (`Start` is that step) or within `_stop`
(`Abandon`). Each leaves its mark in `outcome`, and `NoWorkerLeft` says that these
(`Unstopped`) are the only ways to leave a worker: however else the generator
ends, also with a refused signal to a worker that has exited meanwhile, it has
been waited for.

### GpuSearch and WorkerProtocol

`WorkerProtocol` is what a worker writes: a device record, batches that follow
one another and list the hits of their range in order, a summary with the number
of candidates tested and the reason to stop, an exit code; or an error at any time. Its `Finish` comes after the summary, and `Batch` is
whole unless the range ends.

The host loop of `search` and the kernel, one step per test, per `atomicAdd` and
per store or flag, for one of the command lines `Requests`. `matches` is any set of
candidates. `BufferAccounted` states why the host may copy the first `hit_count` places;
`ImplementsProtocol` is the refinement of `WorkerProtocol`, the output that the driver
relies on.

### SearchSystem

`run_search` (the actions of `SearchRunner`, unchanged) and one worker of
`WorkerProtocol` with the records between them: `output` is what the worker has
written, `taken` how many of its records the driver has read. `StartWorker` is
`Launch` together with the command line it gives and `Parses`, the checks of
`cli.hpp`. What `SearchRunner` leaves open is decided here as the code does:
`ReadRecord` takes exactly the next record, `Refuses` says exactly when the code
raises a `SearchError` about its worker, for any field of batch or summary. `elapsed` is the worker's clock, which
starts after its device record and which it looks at before each batch;
`charged` is the driver's, which does not run while its caller has a hit or a
document is saved.

Properties: `HonestNeverRefused`, `ImplementsRunner` (so everything shown of
`SearchRunner` holds of the two programs together, and `Truthful` is what this
worker's records are), `HonestCompletes` (liveness: whatever earlier sessions
left, once nothing goes wrong any more the search is finished). One process is
enough, because the lock allows one session, and one worker, because a worker
left behind by a killed session writes to a pipe that nobody reads; a killed
session is followed by a new one of the same process.

`HonestNeverRefused` needs two things that are assumptions of the module and not
of the code: `StartTime + BatchTime + ExitTime <= Grace`, that is a worker that
starts its device, tests one batch and writes its summary within the 30 seconds
by which the deadline exceeds its limit; and `Limit` of at least one tick, so that time
is not up before the first batch. A limit near 0 lets a worker
succeed without a batch, which the driver then refuses (line 340); of that case
only `SessionAdvances` speaks, by which the session ends and does not start the
segment again.

### GpuSystem

`SearchSystem` with `GpuSearch` in the worker's place: the steps of the driver are
those of `SearchSystem` (whose `request`, `matches`, `output` and `exit` the worker
shares), and the worker's are those of host and threads. Every `StartWorker` makes
a host with memory of its own (`StartHost`), for the command line that
`run_search` gives it; when the driver has seen the exit, refuses, ends or is
killed, the host is gone (`EndHost`). `goesOn` is what the host's comparison with
its clock says, made as soon as the record before is written. The only property
is the one that makes everything else follow: `ImplementsSystem`, a refinement in
which `HostPublish` is `WorkerBatch`, `HostStop` is `WorkerSummary`, an overflow is
a failure that says so, and launches and threads are stutters. The properties of
`SearchSystem` are checked here too, where the worker is the real one; a batch
with more hits than the buffer has places is, for `HonestCompletes`, a worker that
fails every time.

### MetadataProfile

`Read` is one round of `analyze_archive`, `Refuse` any error of `iter_pairs` or
of the round, after which no result is given at all; `Analyse` turns what was
observed into profiles, and `Supply` is the user who completes such a JSON file.
`decode_info` changes no state and is the operator `Accepts` with the fields it
returns; the properties quantify over all files, names and flags it may be
called with. Files are encrypted in the model, byte by byte, so that what is
decoded can be compared with what went in. A pair is genuine or any bytes; the
code cannot tell, and `witnessed` and `doubted` record it for the properties.

Properties: `WitnessOutweighs` (a byte some genuine pair has shown is right or
unknown), `AcceptedIsTrue` (an accepted decoding is the truth as far as genuine
pairs have shown the places it takes bytes from; a wrong size or group is found
out), `GenuineSuffices` (genuine pairs never conflict, and a file whose places
they cover is decoded). An observation of the model worth knowing: no pair shows
place 0, because a compressed name has at least one byte, so a profile of pairs
alone never verifies a name and serves only with `allow_unknown_name`
(`docs/FORMATS.md` says that `analyze` gives partial coverage).

### ApLib and ApLibFormat

`aplib_decompress` with its `_BitReader`, one bit, one byte or one copied byte
per step, with byte and offset borders as constants. `ApLibText` says what it
means that bytes are the compressed form of a text: there are tokens, each of
which says how its bytes repeat earlier ones, written as items (bits and bytes) of which
each stands at its mark in the code. It is a relation between neighbours and
computes nothing, so that it can be proved about. `ApLibFormat` computes for the
runs: it encodes tokens into bits and bytes and expands them by periodic
repetition, and shares nothing with how `ApLib` reads. That what it computes `Says` what
`ApLibText` asks for is an assumption of `ApLib` (`StreamsTyped`), which TLC
evaluates for every stream of the run. `stream.said` is what is known of a
stream; no action reads it. `Unpacks` compares the
result with it for streams that are whole, followed by something or cut off;
`WithinLimit` is for any bytes. An observation: the error for a high part of an
offset below 0 cannot be raised (`Raise` therefore leaves it out): a gamma number
is at least 2; 2 is subtracted after a match, and where 3 is subtracted the
value 2 means "again".

### CommandNumbers

`number()` of `cli.hpp` digit by digit in words of any width, for `START` and then
`COUNT`, whose maximum is a difference. `written` is the number that the digits
mean, without a width.

### CommandLine

`main` with `verify_archive`, `load_json` and `emit`: calls that read an archive
pair by pair and write one report. `SuccessIsEarned` says what exit 0 and a whole
report claim. A call whose `emit` fails after `decrypt_file` exits with 2 although
its output is there; the property says nothing of exits other than 0.

### BodyTransform, DecryptFile, SalsaCounter

`BodyTransform` follows the two loops of `transform_body` and `_write_all`; a
byte of the result is its source position and its keystream byte, and
`OutputIsDeciphered` compares it at every moment with the closed formula of the
format (`docs/FORMATS.md`). `DecryptFile` is `decrypt_file` around it: callers,
a source with a version and an mtime that may not show a change, the output path
with its `O_EXCL`, and the unlink by name. `read_footer` reads three times, and each
read may see another version. Its clean-up is not sure to happen: `unlink` may fail,
an interrupt may come before it (`UndoFails`) or between `os.open` and the `try`
(`CreateInterrupted`), and both end in `left`, with the file where it was. Nor is the
directory synced: `names` is all that the path has named since the last loss of
power, and `PowerLoss` may bring any of it back, a removed partial file as well as
the absence of a finished one. `PathAccounted` therefore does not say that a failure
leaves nothing, but in which cases it leaves a file, and that a finished result
stays. `SalsaCounter` runs the Python and
the C counter over all calls; C integers wrap.

## 3. The runs

| Run | Question | Instance |
| --- | --- | --- |
| `runner` | Is a hit ever lost, repeated, misnumbered? Does a checkpoint go back, a session go round? | 2 processes, 3 searches: two shards of 3, one of 3 candidates in one shard, one exact; all batch sizes up to a shard, all records with fields 0..3 |
| `system` | Does the driver ever hear what no honest worker says? Is an honest worker ever refused? Is a search always finished? | 1 process, searches of two shards of 2, of 2 and of 1 candidate, batches of 1 and 2; 2 threads, buffer of 1; a limit of 2 ticks, every silence that is allowed |
| `store` | Does `_save` implement an atomic file? | 2 documents, 4 files |
| `events` | Is a line lost, a worker wrongly blamed, a process left? Does the generator end? | 5 tokens written, pipe of 3, reads of 2, lines of up to 2 |
| `gpu` | Does a race of threads show in the output? | 9 candidates in batches of 4 or one batch of 3, 3 threads, buffer of 2 |
| `numbers` | Does a number wrap? | words of 7 bits, maxima 4, 16 and 127, any digits |
| `body` | Is every byte in its place with its keystream byte? | blocks of 2, chunks of 4, reads of 8, sizes up to 33 |
| `decrypt` | Is what is reported as done right, and nobody else's file touched? What may be left behind? | 2 callers (symmetric), 2 pieces, 2 changes of the source, the path changed once by user or power loss |
| `profile` | Is a profile ever wrong where a genuine pair spoke? Is a wrong key ever accepted? | up to 3 pairs of 2 groups, bits as bytes, names of 1 to 3 bytes, scheme and key of 1; a user knows places 0 and 5 |
| `aplib` | Is the result the original, and within its limit? | bytes of 2 bits, all texts of up to 3 tokens with limits around their size, cut anywhere; all sequences of up to 5 bytes |
| `cli` | Are exit 0 and a report earned? | 2 calls, up to 2 pairs of every kind, with and without a file at the report path, writes that fail half-way |
| `counter` | Do both backends agree, and is a counter used twice? | 16 counters, lengths up to 17 blocks of 3 |

Why the bounds are enough to be telling. A shard of 3 candidates has a batch that
fills it, one that does not, and hits on both sides of the shard border; the
third search starts at a number other than 0, so that `delta` is negative. Two
processes are all that the lock can tell apart. Three files can be names of the
checkpoint at once only after two saves whose directory was not synced, so four
are needed. In `events` a line can be longer than a read, a read longer than a
line, and an unfinished line one token over the sum of both limits. In `gpu` a
batch has more candidates than threads and may have more hits than places, the
last batch is short with idle threads, and the buffer holds hits of the batch before. In
`body` sizes lie on both sides of every border and the first stretch may be
longer than one read; the counter may end inside the body. In `decrypt` two
callers and one removal are what the unlink race needs, and a power loss that undoes
one creation or removal is one change of the path. In `system` the limit may
run out before, in and after the last batch of a segment, and a silence may take
the driver to the last tick of its patience. One of its batches has more hits than
places, and others fewer candidates than there are threads. In `aplib` three tokens are
a match, something that ends its effect on the next, and that next; the borders of the
offsets lie within reach of the texts. In `profile` a name's size needs both its bytes,
the places of the sizes of different names overlap, and two genuine pairs show all that
a file with a short name needs, which leaves one for a contradiction.

Bounds that cut behaviour, each named in its module: `MaxWritten` and `MaxAway`
(`WorkerEvents`), `MaxVersion` and `MaxCleared` (`DecryptFile`), `MaxPairs`, `MaxName`,
`Damaged` and `Supplied` (`MetadataProfile`), `FieldValues`
and `HitLists` (`SearchRunner`), `Sizes`, `Skips`, `Spans` (`BodyTransform`),
`Lengths`, `Offsets` (`SalsaCounter`), `MaxTokens` and `MaxArbitrary` (`MCApLib`),
`MaxListed` (`CommandLine`). Deadlock is checked where a system goes
on for ever (`SearchRunner`, `GpuSystem`, `CheckpointStore`) or has a step for
having finished (`ApLib`, `CommandLine`); elsewhere the process ends.

Fairness is stated in two modules. `GeneratorEnds` (`FairSpec` of
`WorkerEvents`) assumes that the generator runs between its yields, that time
passes, and that the consumer comes back or closes; nothing of the worker.
`HonestCompletes` (`WholeFair` of `GpuSystem`) assumes that the driver reads
and its caller resumes or starts again, and that host and threads run; failures,
kills, power losses and abandoned sessions may happen any number of times, and
only behaviours in which they stop at last are promised an end.

## 4. The proofs

All theorems are for every value of the constants. A proof module may serve two
components that EXTENDS can put side by side; the actions and specifications of
the smaller one then have a prefix (`NumbersSpec`, `CounterSpec`, `MainSpec`).

| Proofs | About | For any |
| --- | --- | --- |
| `SearchProofs` | `SearchRunner`, `SearchSystem`, `GpuSystem` | processes, searches, shards, batches and hits; times within the assumptions; threads and places |
| `CheckpointStoreProofs` | `CheckpointStore`, `CommandNumbers` | documents and files; width of a word |
| `WorkerEventsProofs` | `WorkerEvents` | timeout, read size, length of a line, pipe and output |
| `GpuWorkerProofs` | `GpuSearch` | requests, number of threads, capacity of the buffer, set of hits |
| `CipherProofs` | `BodyTransform`, `SalsaCounter` | size, stretches, blocks and reads; width of a word, length and offset |
| `DecryptFileProofs` | `DecryptFile` | callers, pieces and changes of the source |
| `ArchiveProofs` | `MetadataProfile`, `CommandLine` | archives, streams, bytes and sizes of the parts; calls and pairs |
| `ApLibProofs` | `ApLib` | bytes and limits; texts, tokens and their compressed forms; sizes of the format |

They rest on the `ASSUME`s of the modules, which say that sizes are positive,
that a search larger than a shard is a whole number of shards (2^48 and 2^40 in
the code), that chunks and reads of a body are whole blocks, that hits are
candidates, that a stream of which a text is known is its compressed form, that XOR is
its own inverse, that no report is the absence of one, what `SearchSystem` assumes of
times, and that the hit lists of its records are enough for a whole buffer; the runs
evaluate them.

*The search.* `NoLostHit` is not inductive: it says nothing of the session that
is about to write the next document. `RunnerInv` adds

* one session at a time (the lock), whose position is the one on the path and
  whose segment lies within its search (`Located`, `Within`);
* of the batch being handed out: its hits, translated by `Delta`, are the
  search's hits from `next` up to `goal`, all of them, and those before index
  `at` are handled (`HandedOut`) – which is where `Truthful` and the checks of a
  record are used;
* of a session about to save: everything below `goal` is handled;
* of the files: all documents that may come back are of one search, covered,
  and none is ahead of the visible one (`FilesInv`).

From it follow `RunnerTypes`, `RunnerLosesNoHit`, `RunnerIsComplete`,
`RunnerYieldsHits`, `RunnerIsCurrent`, `RunnerRepeatsNothing`, the action
property `RunnerMovesForward` and the refinement `RunnerKeepsPromise`. The
arithmetic of shards is in lemmas of its own (`DivMod`, `ProductsApart`,
`Segment`), so that everything above it uses only that a segment is not empty,
stays in the search and numbers its candidates by adding `Delta`.

`RunnerAdvances` goes through the steps of a session and shows the descent for
each. The one that needs an argument is the end of a segment: without the check
of line 340 nothing would have become less.

*Driver and worker.* The driver's position and the worker's are numbers of
different programs, and the worker may be any number of records ahead.
`SystemInv` joins them: the records are a chain from the start of the request, in
which each batch begins where the one before ended (`Chained`), and the driver is
where the chain is after the records that it took (`Took`). From this each record
is the one that the driver expects next, in content and translated position, so
that it is never refused for it, a summary's `tested` and `stop_reason` included, and
reading it is the `Batch` or `Summary` of
`SearchRunner` with a truthful record. `OnTime` is the argument about the clocks:
the driver's has run no longer than the worker's and the silences that the worker
is allowed, of which at most one start, one batch and one exit are not on the
worker's clock. `SystemImplementsRunner` and `HonestWorkerNeverRefused` follow.

*Worker events.* Reads cut the output anywhere. `Intact` says that records,
unfinished line and pipe, put together, are all that was written; its steps are
lemmas about sequences that are cut in two. A refused line is then found in the
output at the end of the records, which always end in a newline, wherever the
reads cut it (`BadLineJust`, `PendingSeen`). `Measured` bounds the unfinished line: it is
checked before each read and grows by one read. `Spent` says that the time left
and the time run are together the whole of it. `Phased` ties the generator's step
to the worker that has or has not been waited for, or to the error or interrupt
under which it may have been left (`Unstopped`). All safety properties of the module
follow, and that no worker is signalled that has been waited for.

*The GPU worker.* `BufferAccounted` speaks of the places that are filled at one
moment, and what the host publishes is decided when all threads have ended.
`KernelInv` says who may still fill a place. `Strided`: a thread stays at indices
that are its own number modulo `Grid`, and has the place of its `atomicAdd` to
itself until it has stored. `Stored`: a place below the counter that no thread is
about to fill holds a hit of this batch with which its thread is done (`Over`), each
hit once, and a hit with which its thread is done has a place unless the overflow
flag is up. When all threads are done this says that the first `hit_count` places
hold all the hits, each once; a number of places equal to the number of hits is
never counted. Two facts about `\div` and `%` carry it: a thread's next index keeps
its remainder (`ModStep`), and indices with one remainder are a stride apart
(`ModNear`). `InOrder`, a choice among the sorting permutations, is shown to exist
and to give an ascending list without loss (`SortExists`, `Sorted`).
`WorkerKeepsTheProtocol` adds that the records written so far lead up to the host's
`next` (`Told`), from which each `Publish` is the `Batch` of `WorkerProtocol` and
each other step a stutter, a summary, an exit or an error.

*Driver, host and kernel.* `WholeInv` is `SystemInv` and `Hosting`: as long as the
host is there, `KernelInv` and `Told` hold of it, and a kernel runs only if the
clock allowed its batch. Both are taken from `GpuWorkerProofs` as they stand (`K`
is that module with the composed state for its own), which asks that the command
lines of `run_search` are ones a worker can be given (`RequestsTyped`, from the
arithmetic of `Segment`). What is new is where the two programs meet: a new
process starts where `KernelInv` does, with hits that lie in its range
(`CommandRequested`, `HostStarts`); the driver's steps leave it alone
(`HostRests`); and each step of host or thread is one of `WorkerStep`,
`WorkerFails` or none (`DeviceMapped`, `PublishMapped`, `StopMapped`,
`ExitMapped`, `FailMapped`, `InsideUnseen`). `PublishMapped` is the one with content: the sorted
list is the one that `WorkerProtocol` asks for, it is among `HitLists`
(`ListsSuffice`), and the clock is looked at for the position that follows from the records. So
`WholeImplementsSystem`, and with `SystemImplementsRunner` and
`RunnerKeepsPromise` the chain from the kernel's threads to the promise of
`ResumableSearch` is one theorem, `WholeKeepsPromise`.

*The body.* The target is compared with the closed formula `Deciphered`, and the
loops know only lengths left. `Placed` gives the source's place in the layout: in
the first stretch, or in the skipped or the enciphered stretch of some turn
(`InFirst`, `InGap`, `InTurn`), with the keystream at exactly its block there
(`k * Block`), as long as the body goes on. It is kept because a stretch ends at a
whole block unless the body ends in it (`Aligned`, `WholeBlocks`): chunks and reads are
whole blocks, so that `(piece + 63) // 64` never leaves a block half used. `Carried`
says that target and digest are the start of the result and the piece in hand its
continuation, whatever a write takes.

*The counter.* `AcceptsWhatFits` compares each implementation's test with what
fits: the numbers of blocks are the same (`SameBlocks`), enough for the data and no more
(`EnoughBlocks`), and where the C expressions could wrap they do not. `CounterInv`:
the two words hold the start plus the blocks so far, modulo all counters
(`CarryGives`), which is below the end as long as a block is left.

*Exit codes.* `SuccessIsEarned` is about calls that have returned. `MainInv` adds
that a call's results are those of the pairs it has taken (`Faithful`), that only one
that has taken all gets to `emit`, and that who has created the report keeps the path
(`Keeps`), written or not: `open` with `x` finds it there.

*aPLib.* `DecompressionWithinLimit` adds to its property that a copy in
progress has a byte left to write. `Unpacks` is about the end of a loop, and what a
loop computes for every input would be an induction over data; it is
proved without one, because the relation of `ApLibText` carries the intermediate
results of that induction with the text. `Faithful` says where the decoder stands:
at an item, so that position, tag byte and bits left are those of the item's
mark (`Reader`); in the midst of a token or copying what it adds (`Reading`,
`Copying`), with the text up to there as the result (`Shows`) and the offset and the kind of
the match before; and in a number with the value of the digits so far
(`InNumber`). Every step is then one item further (`BitRead`, `ByteRead`), and
the difficult ones are where tokens meet: the offset put together from two parts
(`HighAndLow`), a short match of offset 0 that is the end (`ShortByte`), an overlapping copy
(`CopyByteStep`). That nothing genuine is refused is a case for each
reason (`Refused`): a whole stream never ends where something is needed
(`NeverShort`), and a token that does not fit is one of a text above the limit (`TooLong`).

*Numbers.* `NumbersTakenAsWritten` adds that a maximum is what
`START` left, so that the unsigned difference does not wrap.

*The checkpoint.* `StoreInv` says how far `_save` has got: which data and disk
contents the temporary file may have before each step, and that every inode the
name may lead to holds a whole document. `StoreRefines` follows step by step:
`Rename` is `Replace`, `SyncDirectory` is `Sync`, a power loss is a power loss,
everything else is a stutter. `StoreIsClean` needs only that a temporary name is
there while `_save` runs.

*Decryption.* `HashMeansRight` and `OneVersion` speak of callers that are done.
`DecryptInv` says how they get there: while a caller copies, its pieces are of
the version it opened, and so is its footer, as long as the source's mtime is the
one it saw and no change went unseen (`Versions`); mtimes never run ahead (`Clock`), so once the
comparison has succeeded nothing that happens to the source matters. `Holding`
says that, unless the path was changed by its user or a power loss, it names the file
of whoever is past `Create` and not yet past its clean-up, which makes two holders
impossible and every unlink one's own; `Named`, that the file there is of a caller at
work, done, stopped or kept from its clean-up. `PathIsAccountedFor` is both together.
Of a power loss the proof needs only that a changed path is counted in `cleared` and
that synced contents stay.

*Profiles.* `ProfileInv` says that the observations of a place contain the true
byte once a genuine pair has shown it (`Shown`), so that a single value can only
be that one. `DecodedIsTrue` adds the arithmetic: two bytes stand for one size
only (`DigitsUnique`), so a size that comes out right proves its two bytes of
the stream right, and the slices of name, scheme and key are those that were
encrypted (`PlainBytes`). `GenuinePairsSuffice` rests on `UnspoiledInv`: of a group
without other pairs nothing wrong is ever observed, so that what was shown is known
and what is known is right, the bytes of a name that nobody asked for included.

Only model-checked: the two liveness properties `GeneratorEnds` and
`HonestCompletes`; liveness under fairness and `ENABLED` are out of the proof
system's reach. So is induction over data: that the encoder of `ApLibFormat` yields
a compressed form of every text is not proved, only evaluated for those of the run.

## 5. Not modelled, and why

* The form of profiles and names given by a user, and the checks of the ZIP and
  its manifest before any pair is read: input validation without state. The
  bounds of `read_footer` are the sizes that exist in `MetadataProfile`.
* The Salsa20 block function, SHA-256, JSON and ZIP: computations without
  order or interruption; test vectors say more about them.
* Of `cli.hpp`, `hex()`, `strtod` for the limit and the list of offsets: the result
  of each depends on one argument alone, and `Parses` says what `run_search` gives them.
* The `blocks` mode of the worker (a test aid), argparse, the wording of reports,
  the demo, the benchmarks and the packaging: no logic beyond calls to the parts above.
* The first creation of the checkpoint's directory (line 223): its own entry is
  never synced. A power loss may take it away with the checkpoint, and the
  search then starts again from 0.
* A worker that leaves children behind, which keep its pipes open.
* What the models have and the properties except, because the code cannot exclude
  it: a worker left by a refused signal, a SIGKILL without effect or an interrupt
  outside the `try` (`NoWorkerLeft`); a partial file left by a failed `unlink` or an
  interrupt, and the path after a power loss, which may name again what was removed
  or lose a finished file (`PathAccounted`; what a synced file contains is safe).
* The unlink by name of a failing `decrypt_file` after the user has removed its
  output and another caller has made its own: in the model, and excluded from
  `OthersUntouched` by its condition on `cleared`.

## 6. What could come next

The plan is carried out: the search with its checkpoint, its worker's two sides
and their composition down to the kernel; files, bodies, profiles and the
command line; a proof of every safety property. Left for later:

1. The bytes of `WorkerEvents` between host and driver in `GpuSystem`, where a record
   is still read as a whole: that lines arrive whole and in order is proved
   (`OutputIsIntact`), that the composition with it changes nothing is by argument.
2. An unlink by identity instead of by name in `decrypt_file`, if the code should ever
   get one: `OthersUntouched` would then hold without its condition.
