---------------------------- MODULE WorkerEvents ----------------------------
(***************************************************************************)
(* _worker_events and _stop of cuda/search_runner.py: the generator that   *)
(* starts a worker, turns what arrives on its two pipes into records,      *)
(* holds it to a deadline and makes sure it is gone in the end.            *)
(*                                                                         *)
(* The worker, the pipes, the clock and the consumer of the generator      *)
(* (run_search) are actions of their own.  Standard output is a sequence   *)
(* of tokens: "text" and "junk" stand for a stretch of a line that is, or  *)
(* is not, JSON, "nl" for the end of the line.  Time is counted in the     *)
(* quarter seconds that a select lasts at most.                            *)
(***************************************************************************)
EXTENDS Integers, SequencesExt

CONSTANTS
    Timeout,        \* timeout
    ReadSize,       \* What one os.read returns at most: 65536.
    LineLimit,      \* The longest line: 131072.
    PipeSize,       \* What a pipe holds before its writer blocks.
    MaxWritten,     \* Bound: tokens the worker writes to standard output.
    MaxAway         \* Bound: time the consumer takes over one event.

ASSUME EventsConstants ==
    /\ {Timeout, ReadSize, LineLimit, PipeSize} \subseteq Nat \ {0}
    /\ {MaxWritten, MaxAway} \subseteq Nat

Tokens == {"text", "junk", "nl"}
Streams == {"stdout", "stderr"}

VARIABLES
    worker,     \* "running", "exited" but not waited for, "reaped"
    out,        \* What is in the pipe of standard output.
    err,        \* How much is in the pipe of standard error.
    open,       \* The streams the worker has not closed.
    written,    \* History: all that the worker wrote to standard output.
    pc,         \* The generator's next step.
    registered, \* The streams the selector watches.
    events,     \* Those select returned that are still to be read.
    pending,    \* The bytes of an unfinished line.
    delivered,  \* History: the tokens of the records yielded.
    left,       \* deadline - time.monotonic(), not counting the suspension.
    away,       \* time.monotonic() - suspended
    active,     \* History: time that passed with the generator running.
    outcome     \* "none", "exit", or the error raised.

workerVars == <<worker, out, err, open, written>>
clock == <<left, away, active>>
vars == <<worker, out, err, open, written, pc, registered, events, pending,
          delivered, left, away, active, outcome>>

(* The generator is suspended at one of its three yields. *)
Suspended == pc \in {"tick", "record", "exit"}
Closed == pc = "closed"

Init ==
    /\ worker = "running"
    /\ out = <<>> /\ err = 0
    /\ open = Streams
    /\ written = <<>>
    /\ pc = "start"
    /\ registered = Streams /\ events = {}
    /\ pending = <<>> /\ delivered = <<>>
    /\ left = Timeout /\ away = 0 /\ active = 0
    /\ outcome = "none"

-----------------------------------------------------------------------------
(* The worker, which may write, close a stream or exit whenever it likes.  *)

generator == <<pc, registered, events, pending, delivered, left, away, active, outcome>>

WriteOut(token) ==
    /\ worker = "running" /\ "stdout" \in open
    /\ Len(out) < PipeSize /\ Len(written) < MaxWritten
    /\ out' = Append(out, token)
    /\ written' = Append(written, token)
    /\ UNCHANGED <<worker, err, open, generator>>

WriteErr ==
    /\ worker = "running" /\ "stderr" \in open
    /\ err < PipeSize
    /\ err' = err + 1
    /\ UNCHANGED <<worker, out, open, written, generator>>

CloseStream(s) ==
    /\ worker = "running" /\ s \in open
    /\ open' = open \ {s}
    /\ UNCHANGED <<worker, out, err, written, generator>>

WorkerExits ==
    /\ worker = "running"
    /\ worker' = "exited"
    /\ open' = {}
    /\ UNCHANGED <<out, err, written, generator>>

-----------------------------------------------------------------------------
(* The clock.                                                              *)

Least(m, n) == IF m < n THEN m ELSE n

(* The history of running time ends when the time allowed is over. *)
Ran(time) == active' = Least(active + time, Timeout)

(* Time passes while the generator's loop runs. *)
Elapse ==
    /\ pc \in {"head", "events", "lines"}
    /\ left > 0
    /\ left' = left - 1
    /\ Ran(1)
    /\ UNCHANGED <<workerVars, pc, registered, events, pending, delivered, away, outcome>>

(* Time passes while the consumer has an event. *)
ElapseAway ==
    /\ Suspended /\ away < MaxAway
    /\ away' = away + 1
    /\ UNCHANGED <<workerVars, pc, registered, events, pending, delivered, left, active, outcome>>

(* Slip: the consumer's time is the worker's. *)
ExtendedNot(time, suspension) == time - suspension

(* Slip: the deadline starts afresh with every event. *)
ExtendedAfresh(time, suspension) == Timeout

(* deadline += time.monotonic() - suspended *)
Extended(time, suspension) == time

-----------------------------------------------------------------------------
(* The generator's loop.                                                   *)

(* The worker runs, its streams are registered and the try begins. *)
Start ==
    /\ pc = "start"
    /\ pc' = "head"
    /\ UNCHANGED <<workerVars, registered, events, pending, delivered, clock, outcome>>

(* The finally clause is next, after an exception or the end. *)
Raise(error) ==
    /\ outcome' = error
    /\ pc' = "stop"

TimesOut ==
    /\ pc = "head" /\ registered # {}
    /\ left <= 0
    /\ Raise("timeout")
    /\ UNCHANGED <<workerVars, registered, events, pending, delivered, clock>>

(* A stream is readable when something is in its pipe, and at its end. *)
Readable(s) ==
    \/ s \notin open
    \/ s = "stdout" /\ out # <<>>
    \/ s = "stderr" /\ err > 0

Select ==
    /\ pc = "head" /\ left > 0
    /\ events' = {s \in registered : Readable(s)}
    /\ events' # {}
    /\ pc' = "events"
    /\ UNCHANGED <<workerVars, registered, pending, delivered, clock, outcome>>

(* A quarter second, or what is left, without an event: yield "tick". *)
SelectNothing ==
    /\ pc = "head" /\ registered # {} /\ left > 0
    /\ \A s \in registered : ~ Readable(s)
    /\ left' = left - 1
    /\ Ran(1)
    /\ pc' = "tick"
    /\ UNCHANGED <<workerVars, registered, events, pending, delivered, away, outcome>>

(* Slip: one read is taken for all there was, its rest is lost. *)
RestLost(pipe) == <<>>

Chunk(pipe) == SubSeq(pipe, 1, Least(ReadSize, Len(pipe)))
Rest(pipe) == SubSeq(pipe, Least(ReadSize, Len(pipe)) + 1, Len(pipe))

ReadOut ==
    /\ pc = "events" /\ "stdout" \in events
    /\ out # <<>>
    /\ pending' = pending \o Chunk(out)
    /\ out' = Rest(out)
    /\ events' = events \ {"stdout"}
    /\ pc' = "lines"
    /\ UNCHANGED <<worker, err, open, written, registered, delivered, clock, outcome>>

ReadErr ==
    /\ pc = "events" /\ "stderr" \in events
    /\ err > 0
    /\ err' = err - Least(ReadSize, err)
    /\ events' = events \ {"stderr"}
    /\ UNCHANGED <<worker, out, open, written, pc, registered, pending, delivered, clock, outcome>>

(* Slip: a stream that hangs up is at its end, whatever it still holds. *)
HungUp(s) == s \notin open

AtEnd(s) == s \notin open /\ (IF s = "stdout" THEN out = <<>> ELSE err = 0)

(* An empty chunk: the stream's end. *)
ReadEnd(s) ==
    /\ pc = "events" /\ s \in events
    /\ AtEnd(s)
    /\ registered' = registered \ {s}
    /\ events' = events \ {s}
    /\ UNCHANGED <<workerVars, pc, pending, delivered, clock, outcome>>

EventsDone ==
    /\ pc = "events" /\ events = {}
    /\ pc' = "head"
    /\ UNCHANGED <<workerVars, registered, events, pending, delivered, clock, outcome>>

-----------------------------------------------------------------------------
(* The lines of what has been read.                                        *)

HasLine(bytes) == Contains(bytes, "nl")

LineEnd(bytes) == SelectInSeq(bytes, LAMBDA token : token = "nl")

FirstLine(bytes) == SubSeq(bytes, 1, LineEnd(bytes) - 1)
AfterLine(bytes) == SubSeq(bytes, LineEnd(bytes) + 1, Len(bytes))

(* A line is a JSON value when it is not empty and has no junk. *)
IsJson(line) == line # <<>> /\ ~ Contains(line, "junk")

TooLong(line) == Len(line) > LineLimit

YieldRecord ==
    /\ pc = "lines" /\ HasLine(pending)
    /\ LET line == FirstLine(pending)
       IN /\ ~ TooLong(line) /\ IsJson(line)
          /\ delivered' = delivered \o Append(line, "nl")
    /\ pending' = AfterLine(pending)
    /\ pc' = "record"
    /\ UNCHANGED <<workerVars, registered, events, clock, outcome>>

BadLine ==
    /\ pc = "lines" /\ HasLine(pending)
    /\ LET line == FirstLine(pending)
       IN \/ TooLong(line) /\ Raise("long line")
          \/ ~ TooLong(line) /\ ~ IsJson(line) /\ Raise("bad JSON")
    /\ pending' = AfterLine(pending)
    /\ UNCHANGED <<workerVars, registered, events, delivered, clock>>

(* Slip: room is kept for the newline. *)
OverfullEarly(bytes) == Len(bytes) + 1 > LineLimit

(* Slip: an unfinished line is not measured. *)
NeverOverfull(bytes) == FALSE

Overfull(bytes) == Len(bytes) > LineLimit

LinesDone ==
    /\ pc = "lines" /\ ~ HasLine(pending)
    /\ IF Overfull(pending)
       THEN Raise("long line")
       ELSE pc' = "events" /\ UNCHANGED outcome
    /\ UNCHANGED <<workerVars, registered, events, pending, delivered, clock>>

-----------------------------------------------------------------------------
(* The end of the output and of the worker.                                *)

Unfinished ==
    /\ pc = "head" /\ registered = {}
    /\ pending # <<>>
    /\ Raise("unfinished line")
    /\ UNCHANGED <<workerVars, registered, events, pending, delivered, clock>>

(* process.wait returns: the exit code is yielded. *)
Wait ==
    /\ pc = "head" /\ registered = {} /\ pending = <<>>
    /\ worker = "exited"
    /\ worker' = "reaped"
    /\ outcome' = "exit"
    /\ pc' = "exit"
    /\ UNCHANGED <<out, err, open, written, registered, events, pending, delivered, clock>>

(* What is left of the time goes by and the worker is still there. *)
WaitTimesOut ==
    /\ pc = "head" /\ registered = {} /\ pending = <<>>
    /\ worker = "running"
    /\ left' = Least(left, 0)
    /\ Ran(left - left')
    /\ Raise("lingers")
    /\ UNCHANGED <<workerVars, registered, events, pending, delivered, away>>

-----------------------------------------------------------------------------
(* The consumer: it takes the next event, or closes the generator, or      *)
(* fails and so closes it.                                                 *)

Resume ==
    /\ Suspended
    /\ pc' = CASE pc = "tick" -> "head" [] pc = "record" -> "lines" [] pc = "exit" -> "stop"
    /\ left' = Extended(left, away)
    /\ away' = 0
    /\ UNCHANGED <<workerVars, registered, events, pending, delivered, active, outcome>>

Close ==
    /\ Suspended
    /\ outcome' = (IF pc = "exit" THEN outcome ELSE "closed")
    /\ pc' = "stop"
    /\ away' = 0
    /\ UNCHANGED <<workerVars, registered, events, pending, delivered, left, active>>

(* A keyboard interrupt, or a system call that fails, anywhere in the try. *)
Interrupt ==
    /\ pc \in {"head", "events", "lines"}
    /\ Raise("interrupt")
    /\ UNCHANGED <<workerVars, registered, events, pending, delivered, clock>>

-----------------------------------------------------------------------------
(* _stop and _signal_worker.                                               *)

stopping == <<out, err, written, registered, events, pending, delivered, clock, outcome>>

(* process.poll(): an exited worker is waited for. *)
Polled(state) == IF state = "exited" THEN "reaped" ELSE state

(* Slip: the worker is signalled whether it is still there or not. *)
MustStopAnyway(state) == TRUE

MustStop(state) == Polled(state) = "running"

Stop ==
    /\ pc = "stop"
    /\ worker' = Polled(worker)
    /\ pc' = IF MustStop(worker) THEN "terminate" ELSE "closed"
    /\ UNCHANGED <<open, stopping>>

(* killpg finds the group, or what is left of an exited worker; where that *)
(* is a PermissionError the worker is polled, and so waited for.           *)
Signal(from, to) ==
    /\ pc = from
    /\ pc' = to
    /\ worker' \in {worker, Polled(worker)}

Terminate ==
    /\ Signal("terminate", "grace")
    /\ UNCHANGED <<open, stopping>>

(* process.wait(timeout=3) returns. *)
Gone ==
    /\ pc \in {"grace", "last wait"}
    /\ worker \in {"exited", "reaped"}
    /\ worker' = "reaped"
    /\ pc' = "closed"
    /\ UNCHANGED <<open, stopping>>

(* Slip: after the grace period the worker is left to itself. *)
StubbornLeft == "closed"

Stubborn == "kill"

GraceOver ==
    /\ pc = "grace" /\ worker = "running"
    /\ pc' = Stubborn
    /\ UNCHANGED <<worker, open, stopping>>

(* _stop ends with an error, its caller closes selector and pipes, and     *)
(* nobody waits for the worker any more.                                   *)
GivesUp(error) ==
    /\ outcome' = error
    /\ pc' = "closed"
    /\ UNCHANGED <<workerVars, registered, events, pending, delivered, clock>>

(* Neither the group nor the worker may be signalled, and the worker runs: *)
(* the PermissionError is raised again.                                    *)
NotSignalled ==
    /\ pc \in {"terminate", "kill"} /\ worker = "running"
    /\ GivesUp("not signalled")

(* SIGKILL ends the worker whatever it does, and the wait sees it. *)
Kill ==
    /\ Signal("kill", "last wait")
    /\ UNCHANGED <<open, stopping>>

Killed ==
    /\ pc = "last wait" /\ worker = "running"
    /\ worker' = "exited"
    /\ open' = {}
    /\ UNCHANGED <<pc, stopping>>

(* A worker that even SIGKILL does not end in three seconds. *)
LastWaitOver ==
    /\ pc = "last wait" /\ worker = "running"
    /\ GivesUp("not killed")

(* A keyboard interrupt, or a failing system call, before the try or in    *)
(* the finally clause.                                                     *)
Abandon ==
    /\ pc \in {"start", "stop", "terminate", "grace", "kill", "last wait"}
    /\ GivesUp("abandoned")

(* The errors under which the worker may have been left. *)
Unstopped == {"not killed", "not signalled", "abandoned"}

-----------------------------------------------------------------------------
Worker ==
    \/ \E token \in Tokens : WriteOut(token)
    \/ WriteErr
    \/ \E s \in Streams : CloseStream(s)
    \/ WorkerExits

Stopping ==
    \/ Stop \/ Terminate \/ Gone \/ GraceOver \/ Kill \/ Killed
    \/ NotSignalled \/ LastWaitOver

Step ==
    \/ Start \/ TimesOut \/ Select \/ SelectNothing
    \/ ReadOut \/ ReadErr \/ (\E s \in Streams : ReadEnd(s)) \/ EventsDone
    \/ YieldRecord \/ BadLine \/ LinesDone
    \/ Unfinished \/ Wait \/ WaitTimesOut
    \/ Stopping

Consumer == Resume \/ Close

Next == Worker \/ Elapse \/ ElapseAway \/ Step \/ Consumer \/ Interrupt \/ Abandon

Spec == Init /\ [][Next]_vars

(* The generator is never stuck between its yields, time passes, and the   *)
(* consumer comes back or closes.  Nothing is asked of the worker: it may  *)
(* be silent, write for ever or refuse to exit.                            *)
FairSpec == Spec /\ WF_vars(Step) /\ WF_vars(Elapse) /\ WF_vars(Consumer)

-----------------------------------------------------------------------------
(* Properties.                                                             *)

(* Types, and the memory an unfinished line can take, whatever the worker  *)
(* writes (lines 156-170).                                                 *)
TypeOK ==
    /\ worker \in {"running", "exited", "reaped"}
    /\ open \subseteq Streams
    /\ written \in Seq(Tokens) /\ out \in Seq(Tokens) /\ Len(out) <= PipeSize
    /\ err \in 0 .. PipeSize
    /\ pc \in {"start", "head", "events", "lines", "tick", "record", "exit",
                "stop", "terminate", "grace", "kill", "last wait", "closed"}
    /\ events \subseteq registered /\ registered \subseteq Streams
    /\ pending \in Seq(Tokens) /\ Len(pending) <= LineLimit + ReadSize
    /\ delivered \in Seq(Tokens)
    /\ left <= Timeout /\ away \in 0 .. MaxAway /\ active \in 0 .. Timeout

(* Records and reads cut the stream in different places, and nothing falls *)
(* between them: what was yielded, what is pending and what is still in    *)
(* the pipe are all that was written, in its order, until a line is        *)
(* refused (lines 148, 156-159).                                           *)
NothingLost ==
    outcome \notin {"bad JSON", "long line"} \cup Unstopped =>
        written = delivered \o pending \o out

(* run_search takes the exit code for the end of the story: every line was *)
(* yielded before, also those that the worker wrote just before it closed  *)
(* its output, and the worker is no longer there (lines 138, 171-177).     *)
AllBeforeExit ==
    outcome = "exit" => delivered = written /\ worker = "reaped"

(* From token i + 1 to token j, there is one line, or the start of one. *)
OneLine(i, j) ==
    /\ i = 0 \/ written[i] = "nl"
    /\ \A k \in i + 1 .. j : written[k] # "nl"

(* The worker is never blamed for what it did not do: a line is refused    *)
(* when it is over the limit or no JSON wherever reads happened to cut it, *)
(* and called unfinished when the output really ends in it                 *)
(* (lines 160-172).                                                        *)
BlameIsJust ==
    LET n == Len(written)
    IN /\ outcome = "long line" =>
             \E i \in 0 .. n : \E j \in i .. n : OneLine(i, j) /\ j - i > LineLimit
       /\ outcome = "bad JSON" =>
             \E i \in 0 .. n : \E j \in i .. n - 1 :
                /\ OneLine(i, j) /\ written[j + 1] = "nl"
                /\ i = j \/ \E k \in i + 1 .. j : written[k] = "junk"
       /\ outcome = "unfinished line" => n > 0 /\ written[n] # "nl"

(* The time that the consumer takes, to save and to hand on hits, is never *)
(* the worker's: a worker runs out of time only after the generator itself *)
(* has run for the whole of it (lines 140, 144-146, 166-168, 174).         *)
TimesOutJustly ==
    outcome \in {"timeout", "lingers"} => active >= Timeout

(* However the generator ends, the worker is gone and waited for, unless   *)
(* the error that comes out of _stop says that it may not be signalled or  *)
(* that SIGKILL did not end it in time, or an interrupt came before the    *)
(* try or within _stop itself (lines 102-122, 124-135, 178-180).           *)
NoWorkerLeft ==
    Closed => worker = "reaped" \/ outcome \in Unstopped

Signals == (pc = "terminate" /\ pc' # pc) \/ (pc = "kill" /\ pc' # pc)

(* A process group is signalled only as long as its number is the worker's *)
(* own, for the worker has not been waited for; afterwards the system may  *)
(* give the number to another process (lines 104, 116-121).                *)
SignalsItsWorker == [][Signals => worker # "reaped"]_vars

(* The generator ends, whether the worker is silent, goes on writing or    *)
(* refuses to exit (lines 139-142, 173-176, 115-122).                      *)
GeneratorEnds == <>Closed
=============================================================================
